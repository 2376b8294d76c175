-------------------------- MODULE DataStructureProofs --------------------------
(***************************************************************************)
(* What the passes keep their data in, for every history of calls and for  *)
(* every size.                                                             *)
(*                                                                         *)
(* queue_t is a queue: RingOK is inductive, with the tail `count` cells    *)
(* behind the head; the abstract queue is what lies in these cells, and a  *)
(* resize copies them to the start of a ring twice as long.                *)
(*                                                                         *)
(* map_t is a partial function from keys to values, for every hash         *)
(* function.  The invariant is the one of linear probing: from the slot a  *)
(* key hashes to, every slot up to the key is used.  A removal breaks it,  *)
(* and restores it by putting back the rest of the cluster; a resize moves *)
(* every entry into a table with more empty slots than it has entries.     *)
(*                                                                         *)
(* The arena of mm.c stays tiled by its blocks, and each free list is a    *)
(* chain of the free blocks of its class: a chain is given by the place    *)
(* of each block in it, and the memory in use by a sum along the arena.    *)
(***************************************************************************)
EXTENDS RingQueue, HashMap, Heap, SequenceTheorems, FiniteSetTheorems,
        NaturalsInduction, WellFoundedInduction, TLAPS

(* Some number of a set is the least.                                      *)
LEMMA LeastNat ==
    ASSUME NEW T, T \subseteq Nat, T # {}
    PROVE  \E x \in T : \A y \in T : x <= y
<1> DEFINE R == {p \in Nat \X Nat : p[1] < p[2]}
<1>1. IsWellFoundedOn(R, Nat)
  BY NatLessThanWellFounded DEF OpToRel
<1>2. PICK x \in T : \A y \in T : ~(<<y, x>> \in R)
  BY <1>1, WFMin
<1>3. \A y \in T : ~(y < x)
  BY <1>2
<1> QED
  BY <1>3

(* Induction along an interval, for a set.                                 *)
LEMMA IntervalInduction ==
    ASSUME NEW n \in Nat, NEW S \in SUBSET (0..n), 0 \in S,
           \A p \in 0..n : p \in S /\ p < n => p + 1 \in S
    PROVE  S = 0..n
<1> SUFFICES ASSUME S # 0..n PROVE FALSE
  OBVIOUS
<1>1. PICK x \in 0..n : x \notin S
  OBVIOUS
<1> DEFINE T == (0..n) \ S
<1>2. T \subseteq Nat /\ T # {}
  BY <1>1
<1>3. PICK y \in T : \A z \in T : y <= z
  BY <1>2, LeastNat
<1>4. y \in 1..n /\ y - 1 \in 0..n /\ y - 1 < n /\ (y - 1) + 1 = y /\ y \notin S
  OBVIOUS
<1>5. y - 1 \in S
  BY <1>3, <1>4
<1> QED
  BY <1>4, <1>5

-----------------------------------------------------------------------------
(* The ring.                                                               *)

Cells == Item \union {Nothing}

(* A cursor wraps round at most once.                                      *)
Wrap(x, s) == IF x < s THEN x ELSE x - s

LEMMA Wraps ==
    ASSUME NEW s \in Nat \ {0}, NEW x \in 0 .. 2 * s - 1
    PROVE  x % s = Wrap(x, s) /\ Wrap(x, s) \in 0 .. s - 1
  BY DEF Wrap

(* A sequence is given by its elements.                                    *)
LEMMA IsAppend ==
    ASSUME NEW S, NEW s \in Seq(S), NEW e \in S, NEW t \in Seq(S),
           Len(t) = Len(s) + 1, t[Len(s) + 1] = e, \A k \in 1 .. Len(s) : t[k] = s[k]
    PROVE  t = Append(s, e)
  <1>1. /\ Append(s, e) \in Seq(S) /\ Len(Append(s, e)) = Len(s) + 1 /\ Len(s) \in Nat
        /\ Append(s, e)[Len(s) + 1] = e /\ \A k \in 1 .. Len(s) : Append(s, e)[k] = s[k]
    BY AppendProperties, LenProperties
  <1>2. ASSUME NEW k \in 1 .. Len(t) PROVE t[k] = Append(s, e)[k]
    <2>1. k = Len(s) + 1 \/ k \in 1 .. Len(s)
      BY <1>1
    <2> QED BY <1>1, <2>1
  <1> QED BY <1>1, <1>2, SeqEqual, Zenon

LEMMA IsTail ==
    ASSUME NEW S, NEW s \in Seq(S), s # <<>>, NEW t \in Seq(S),
           Len(t) = Len(s) - 1, \A k \in 1 .. Len(t) : t[k] = s[k + 1]
    PROVE  t = Tail(s)
  <1>1. /\ Tail(s) \in Seq(S) /\ Len(Tail(s)) = Len(t)
        /\ \A k \in 1 .. Len(t) : Tail(s)[k] = s[k + 1]
    BY HeadTailProperties
  <1> QED BY <1>1, SeqEqual, Zenon

(* The cell of the n-th item.                                              *)
CellAt(n) == Wrap(head + n, size)

LEMMA CellOf ==
    ASSUME RingOK, NEW n \in 0 .. size
    PROVE  (head + n) % size = CellAt(n) /\ CellAt(n) \in 0 .. size - 1
  <1>1. size \in Nat \ {0} /\ head \in 0 .. size - 1
    BY DEF RingOK
  <1>2. head + n \in 0 .. 2 * size - 1
    BY <1>1
  <1> QED BY <1>1, <1>2, Wraps, Zenon DEF CellAt

(* Two items lie in different cells.                                       *)
LEMMA CellsDiffer ==
    ASSUME RingOK, NEW n \in 0 .. size - 1, NEW k \in 0 .. size - 1, CellAt(n) = CellAt(k)
    PROVE  n = k
  BY DEF RingOK, CellAt, Wrap

LEMMA ItemAt ==
    RingOK => /\ Items = [i \in 1 .. count |-> body[CellAt(i - 1)]]
              /\ Items \in Seq(Cells) /\ Len(Items) = count
  <1> SUFFICES ASSUME RingOK
               PROVE  /\ Items = [i \in 1 .. count |-> body[CellAt(i - 1)]]
                      /\ Items \in Seq(Cells) /\ Len(Items) = count
    OBVIOUS
  <1>1. size \in Nat \ {0} /\ count \in 0 .. size /\ head \in 0 .. size - 1
    BY DEF RingOK
  <1>2. ASSUME NEW i \in 1 .. count
        PROVE  body[(head + i - 1) % size] = body[CellAt(i - 1)] /\ body[CellAt(i - 1)] \in Cells
    <2>1. i - 1 \in 0 .. size /\ head + i - 1 = head + (i - 1)
      BY <1>1
    <2>2. (head + i - 1) % size = CellAt(i - 1) /\ CellAt(i - 1) \in 0 .. size - 1
      BY <2>1, CellOf
    <2> QED BY <2>2 DEF RingOK, Cells
  <1>3. Items = [i \in 1 .. count |-> body[CellAt(i - 1)]]
    BY <1>2 DEF Items
  <1>4. Items \in [1 .. count -> Cells]
    BY <1>2, <1>3
  <1> QED BY <1>1, <1>3, <1>4
-----------------------------------------------------------------------------
(* What a resize leaves: the items in their order, from the first cell on. *)
LEMMA ResizedHolds ==
    ASSUME RingOK, MustGrow
    PROVE  /\ ResizedRing \in [0 .. 2 * size - 1 -> Cells]
           /\ \A n \in 0 .. count - 1 : ResizedRing[n] = body[CellAt(n)]
  <1>1. /\ size \in Nat \ {0} /\ head \in 0 .. size - 1 /\ tail \in 0 .. size - 1
        /\ count = size /\ body \in [0 .. size - 1 -> Cells]
    BY DEF RingOK, MustGrow, Cells
  <1>2. tail = head
    <2>1. (head + size) % size = CellAt(size)
      BY <1>1, CellOf
    <2> QED BY <1>1, <2>1 DEF CellAt, Wrap, RingOK
  <1>3. ResizedRing = [i \in 0 .. 2 * size - 1 |->
                      IF i >= size THEN Nothing ELSE body[CellAt(i)]]
    <2>1. ASSUME NEW i \in 0 .. 2 * size - 1
          PROVE  (IF head < tail
                  THEN IF i < count THEN body[head + i] ELSE Nothing
                  ELSE IF count = 0 \/ i >= size - head + tail THEN Nothing
                  ELSE IF i < size - head THEN body[head + i]
                  ELSE body[i - (size - head)])
                 = IF i >= size THEN Nothing ELSE body[CellAt(i)]
      BY <1>1, <1>2 DEF CellAt, Wrap
    <2> QED BY <2>1 DEF ResizedRing
  <1>4. ASSUME NEW i \in 0 .. size - 1 PROVE body[CellAt(i)] \in Cells
    <2>1. i \in 0 .. size
      BY <1>1
    <2>2. CellAt(i) \in 0 .. size - 1
      BY <2>1, CellOf
    <2> QED BY <1>1, <2>2
  <1> QED BY <1>1, <1>3, <1>4 DEF Cells
-----------------------------------------------------------------------------
(* Every call keeps the cursors inside the ring and `count` apart.         *)
LEMMA InitTyped == QueueInit => RingOK
  <1> SUFFICES ASSUME QueueInit PROVE RingOK
    OBVIOUS
  <1>1. QueueCapacity \in Nat \ {0}
    BY CapacityAssumption
  <1>2. (0 + 0) % QueueCapacity = 0
    BY <1>1
  <1> QED BY <1>1, <1>2 DEF QueueInit, RingOK

LEMMA NextTyped == RingOK /\ [QueueNext]_queueVars => RingOK'
  <1> SUFFICES ASSUME RingOK, [QueueNext]_queueVars PROVE RingOK'
    OBVIOUS
  <1>1. /\ size \in Nat \ {0} /\ head \in 0 .. size - 1 /\ tail \in 0 .. size - 1
        /\ count \in 0 .. size /\ body \in [0 .. size - 1 -> Cells]
    BY DEF RingOK, Cells
  <1>2. tail = CellAt(count)
    BY <1>1, CellOf DEF RingOK
  <1>3. ASSUME NEW x \in 0 .. 2 * size - 1
        PROVE  x % size = Wrap(x, size)
    BY <1>1, Wraps
  <1>4. CASE UNCHANGED queueVars
    BY <1>4 DEF RingOK, queueVars
  <1>5. ASSUME NEW i \in Item, PushInRing(i), count' = count + 1
        PROVE  RingOK'
    <2>1. /\ count < size /\ size' = size /\ head' = head
          /\ body' = [body EXCEPT ![tail] = i] /\ tail' = (tail + 1) % size
      BY <1>1, <1>5 DEF PushInRing, MustGrow
    <2>2. tail' = Wrap(tail + 1, size) /\ tail' \in 0 .. size - 1
      <3>1. tail + 1 \in 0 .. 2 * size - 1
        BY <1>1
      <3> QED BY <1>1, <2>1, <3>1, Wraps, Zenon
    <2>3. (head + count + 1) % size = Wrap(head + count + 1, size)
      <3>1. head + count + 1 \in 0 .. 2 * size - 1
        BY <1>1, <2>1
      <3> QED BY <1>3, <3>1, Zenon
    <2>4. (head + count + 1) % size = tail'
      BY <1>1, <1>2, <2>1, <2>2, <2>3 DEF CellAt, Wrap
    <2>5. body' \in [0 .. size - 1 -> Cells]
      BY <1>1, <2>1 DEF Cells
    <2>6. head' + count' = head + count + 1
      BY <1>1, <1>5, <2>1
    <2> QED BY <1>1, <1>5, <2>1, <2>2, <2>4, <2>5, <2>6 DEF RingOK, Cells
  <1>6. ASSUME NEW i \in Item, PushGrowing(i), count' = count + 1
        PROVE  RingOK'
    <2>1. /\ MustGrow /\ count = size /\ size' = 2 * size /\ head' = 0
          /\ body' = [ResizedRing EXCEPT ![count] = i] /\ tail' = (count + 1) % size'
      BY <1>6 DEF PushGrowing, MustGrow
    <2>2. size' \in Nat \ {0} /\ count + 1 \in 0 .. size'
      BY <1>1, <2>1
    <2>3. count + 1 \in 0 .. 2 * size' - 1
      BY <2>2
    <2>5. tail' \in 0 .. size' - 1
      BY <2>1, <2>2, <2>3, Wraps, Zenon
    <2>6. body' \in [0 .. size' - 1 -> Cells]
      BY <1>1, <2>1, ResizedHolds DEF Cells
    <2>7. head' + count' = count + 1
      BY <1>1, <1>6, <2>1
    <2> QED BY <1>6, <2>1, <2>2, <2>5, <2>6, <2>7 DEF RingOK, Cells
  <1>7. CASE Pop
    <2>1. /\ count # 0 /\ head' = (head + 1) % size /\ count' = count - 1
          /\ body' = body /\ size' = size /\ tail' = tail
      BY <1>7 DEF Pop
    <2>2. head' = Wrap(head + 1, size) /\ head' \in 0 .. size - 1
      <3>1. head + 1 \in 0 .. 2 * size - 1
        BY <1>1
      <3> QED BY <1>1, <2>1, <3>1, Wraps, Zenon
    <2>3. head' + count' \in 0 .. 2 * size - 1
      BY <1>1, <2>1, <2>2
    <2>4. (head' + count') % size = tail
      <3>1. (head' + count') % size = Wrap(head' + count', size)
        BY <1>3, <2>3, Zenon
      <3> QED BY <1>1, <1>2, <2>1, <2>2, <3>1 DEF CellAt, Wrap
    <2> QED BY <1>1, <2>1, <2>2, <2>4 DEF RingOK, Cells
  <1>8. CASE PopNothing \/ IsEmpty
    BY <1>8 DEF RingOK, PopNothing, IsEmpty
  <1> QED BY <1>4, <1>5, <1>6, <1>7, <1>8 DEF QueueNext, Push

(* In every reachable state the cursors lie inside the ring and the tail   *)
(* lies `count` cells behind the head: _queue_resize, queue_push and       *)
(* queue_pop never read or write outside the body.                         *)
THEOREM TypeCorrect == QueueSpec => []RingOK
  BY InitTyped, NextTyped, PTL DEF QueueSpec
-----------------------------------------------------------------------------
(* A call on the ring is the same call on the queue of its items.          *)
LEMMA ItemsAfter ==
    RingOK' => /\ Items' = [i \in 1 .. count' |-> body'[Wrap(head' + (i - 1), size')]]
               /\ Items' \in Seq(Cells) /\ Len(Items') = count'
  <1>1. (RingOK => /\ Items = [i \in 1 .. count |-> body[CellAt(i - 1)]]
                   /\ Items \in Seq(Cells) /\ Len(Items) = count)'
    BY ItemAt, PTL
  <1> QED BY <1>1 DEF CellAt, Cells

(* The answer of queue_isempty is right about a queue without items, and   *)
(* queue_pop hands out the oldest one.                                     *)
LEMMA StepRefines ==
    ASSUME RingOK, RingOK', [QueueNext]_queueVars
    PROVE  [AsFifo!Next]_<<Items, answer>>
  <1>1. /\ size \in Nat \ {0} /\ head \in 0 .. size - 1 /\ tail \in 0 .. size - 1
        /\ count \in 0 .. size /\ body \in [0 .. size - 1 -> Cells]
    BY DEF RingOK, Cells
  <1>2. /\ Items = [i \in 1 .. count |-> body[CellAt(i - 1)]]
        /\ Items \in Seq(Cells) /\ Len(Items) = count
    BY ItemAt
  <1>3. /\ Items' = [i \in 1 .. count' |-> body'[Wrap(head' + (i - 1), size')]]
        /\ Items' \in Seq(Cells) /\ Len(Items') = count'
    BY ItemsAfter
  <1>4. tail = CellAt(count)
    BY <1>1, CellOf DEF RingOK
  <1>5. CASE UNCHANGED queueVars
    BY <1>2, <1>3, <1>5 DEF queueVars, CellAt
  <1>6. ASSUME NEW i \in Item, Push(i) PROVE AsFifo!Next
    <2>1. /\ count' = count + 1 /\ answer' = <<"push">>
          /\ PushInRing(i) \/ PushGrowing(i)
      BY <1>6 DEF Push
    <2>2. ASSUME NEW n \in 0 .. count - 1
          PROVE  body'[Wrap(head' + n, size')] = body[CellAt(n)]
      <3>1. n \in 0 .. size - 1 /\ CellAt(n) \in 0 .. size - 1
        <4>1. n \in 0 .. size /\ n \in 0 .. size - 1
          BY <1>1
        <4> QED BY <4>1, CellOf
      <3>2. CASE PushInRing(i)
        <4>1. /\ count < size /\ size' = size /\ head' = head
              /\ body' = [body EXCEPT ![tail] = i]
          BY <1>1, <3>2 DEF PushInRing, MustGrow
        <4>2. count \in 0 .. size - 1
          BY <1>1, <4>1
        <4>3. CellAt(n) # tail
          BY <1>1, <1>4, <3>1, <4>2, CellsDiffer
        <4> QED BY <1>1, <3>1, <4>1, <4>3 DEF CellAt
      <3>3. CASE PushGrowing(i)
        <4>1. /\ MustGrow /\ count = size /\ size' = 2 * size /\ head' = 0
              /\ body' = [ResizedRing EXCEPT ![count] = i]
          BY <3>3 DEF PushGrowing, MustGrow
        <4>2. Wrap(head' + n, size') = n /\ n # count
          BY <1>1, <4>1 DEF Wrap
        <4>3. ResizedRing[n] = body[CellAt(n)] /\ ResizedRing \in [0 .. 2 * size - 1 -> Cells]
          BY <4>1, ResizedHolds
        <4> QED BY <1>1, <4>1, <4>2, <4>3
      <3> QED BY <2>1, <3>2, <3>3
    <2>3. body'[Wrap(head' + count, size')] = i
      <3>1. CASE PushInRing(i)
        BY <1>1, <1>4, <3>1 DEF PushInRing, CellAt
      <3>2. CASE PushGrowing(i)
        <4>1. /\ MustGrow /\ count = size /\ size' = 2 * size /\ head' = 0
              /\ body' = [ResizedRing EXCEPT ![count] = i]
          BY <3>2 DEF PushGrowing, MustGrow
        <4>2. Wrap(head' + count, size') = count /\ count \in 0 .. 2 * size - 1
          BY <1>1, <4>1 DEF Wrap
        <4> QED BY <4>1, <4>2, ResizedHolds
      <3> QED BY <2>1, <3>1, <3>2
    <2>4. Items' = Append(Items, i)
      <3>1. i \in Cells /\ count' \in Nat /\ Len(Items') = Len(Items) + 1
        BY <1>1, <1>2, <1>3, <2>1 DEF Cells
      <3>2. Items'[Len(Items) + 1] = i
        <4>1. count + 1 \in 1 .. count' /\ (count + 1) - 1 = count
          BY <1>1, <2>1
        <4> QED BY <1>2, <1>3, <2>3, <4>1
      <3>3. ASSUME NEW k \in 1 .. Len(Items) PROVE Items'[k] = Items[k]
        <4>1. k - 1 \in 0 .. count - 1 /\ k \in 1 .. count' /\ k \in 1 .. count
          BY <1>1, <1>2, <2>1
        <4>2. Items'[k] = body'[Wrap(head' + (k - 1), size')]
          BY <1>3, <4>1
        <4>3. Items[k] = body[CellAt(k - 1)]
          BY <1>2, <4>1
        <4> QED BY <2>2, <4>1, <4>2, <4>3
      <3> QED BY <1>2, <1>3, <3>1, <3>2, <3>3, IsAppend
    <2>5. AsFifo!Push(i)
      BY <2>1, <2>4 DEF AsFifo!Push
    <2> QED BY <2>5 DEF AsFifo!Next
  <1>7. CASE Pop
    <2>1. /\ count # 0 /\ head' = (head + 1) % size /\ count' = count - 1
          /\ body' = body /\ size' = size /\ answer' = <<"pop", body[head]>>
      BY <1>7 DEF Pop
    <2>2. head' = Wrap(head + 1, size)
      <3>1. head + 1 \in 0 .. 2 * size - 1
        BY <1>1
      <3> QED BY <1>1, <2>1, <3>1, Wraps, Zenon
    <2>3. Items # <<>> /\ Head(Items) = body[head]
      <3>1. CellAt(0) = head
        BY <1>1 DEF CellAt, Wrap
      <3> QED BY <1>1, <1>2, <2>1, <3>1
    <2>4. Items' = Tail(Items)
      <3>1. Len(Items') = Len(Items) - 1
        BY <1>2, <1>3, <2>1
      <3>2. ASSUME NEW k \in 1 .. Len(Items') PROVE Items'[k] = Items[k + 1]
        <4>1. k \in 1 .. count' /\ k + 1 \in 1 .. count /\ (k + 1) - 1 = k
          BY <1>1, <1>3, <2>1
        <4>2. Wrap(head' + (k - 1), size) = CellAt(k)
          BY <1>1, <2>1, <2>2, <4>1 DEF Wrap, CellAt
        <4> QED BY <1>2, <1>3, <2>1, <4>1, <4>2
      <3> QED BY <1>2, <1>3, <2>3, <3>1, <3>2, IsTail
    <2> QED BY <2>1, <2>3, <2>4 DEF AsFifo!Next, AsFifo!Pop
  <1>8. CASE PopNothing
    <2>1. Items = <<>> /\ Items' = Items /\ answer' = <<"pop">>
      BY <1>1, <1>2, <1>3, <1>8 DEF PopNothing, CellAt
    <2> QED BY <2>1 DEF AsFifo!Next, AsFifo!PopNothing
  <1>9. CASE IsEmpty
    <2>1. Items' = Items /\ answer' = <<"isempty", head = tail>>
      BY <1>1, <1>2, <1>3, <1>9 DEF IsEmpty, CellAt
    <2>2. Items = <<>> => head = tail
      BY <1>1, <1>2, <1>4 DEF CellAt, Wrap
    <2> QED BY <2>1, <2>2 DEF AsFifo!Next, AsFifo!IsEmpty
  <1> QED BY <1>5, <1>6, <1>7, <1>8, <1>9 DEF QueueNext

(* Every run of the ring is a run of the queue in Fifo: items come out in  *)
(* the order they went in, none is lost and none comes twice, through      *)
(* every wrap of the cursors and every resize.                             *)
THEOREM ImplementsFifo == QueueSpec => RefinesFifo
  <1>1. QueueInit => AsFifo!Init
    <2> SUFFICES ASSUME QueueInit PROVE Items = <<>> /\ answer = <<"init">>
      BY DEF AsFifo!Init
    <2>1. RingOK /\ count = 0 /\ answer = <<"init">>
      BY InitTyped DEF QueueInit
    <2> QED BY <2>1, ItemAt
  <1>2. RingOK /\ RingOK' /\ [QueueNext]_queueVars => [AsFifo!Next]_<<Items, answer>>
    BY StepRefines
  <1> QED BY <1>1, <1>2, TypeCorrect, PTL DEF QueueSpec, RefinesFifo, AsFifo!Spec
-----------------------------------------------------------------------------
(* The map.                                                                *)

LEMMA WrapsAnywhere ==
    ASSUME NEW n \in Nat \ {0}, NEW a \in Nat, NEW d \in 0 .. n
    PROVE  /\ a % n \in 0 .. n - 1
           /\ (a + d) % n = Wrap((a % n) + d, n)
           /\ (a + d) % n \in 0 .. n - 1
<1> DEFINE q == a \div n
           r == a % n
<1>1. a % n \in 0 .. n - 1 /\ a \div n \in Nat /\ a = n * (a \div n) + (a % n)
  OBVIOUS
<1>2. q \in Nat /\ q + 1 \in Nat /\ r \in 0 .. n - 1 /\ a + d \in Nat
  BY <1>1
<1>3. \A p \in Nat, s \in 0 .. n - 1, b \in Nat : b = n * p + s => b % n = s
  OBVIOUS
<1>4. a = n * q + r
  BY <1>1
<1> HIDE DEF q, r
<1>5. CASE r + d < n
  <2>1. a + d = n * q + (r + d) /\ r + d \in 0 .. n - 1
    BY <1>2, <1>4, <1>5
  <2>2. (a + d) % n = r + d
    BY <1>2, <1>3, <2>1
  <2> QED BY <1>2, <1>5, <2>1, <2>2 DEF Wrap, r
<1>6. CASE ~(r + d < n)
  <2>1. a + d = n * (q + 1) + (r + d - n) /\ r + d - n \in 0 .. n - 1
    BY <1>2, <1>4, <1>6
  <2>2. (a + d) % n = r + d - n
    BY <1>2, <1>3, <2>1
  <2> QED BY <1>2, <1>6, <2>1, <2>2 DEF Wrap, r
<1> QED
  BY <1>5, <1>6
-----------------------------------------------------------------------------
(* Tables.                                                                 *)
Entry == [key : Key, value : Value]
Cell  == Entry \union {Unused}

Setting == ConstantsOK /\ hash \in [Key -> Nat]

Rows == UNION {[0 .. n - 1 -> Cell] : n \in Nat}
Sums == [odd : SUBSET (Key \union Value), size : Int]
Tables == [cap : Nat \ {0}, size : Int, compr : BOOLEAN, slot : Rows, sum : Sums]
Shape(t) ==
    /\ t \in Tables
    /\ t.slot \in [Slots(t) -> Cell]

(* No two slots hold the same key.                                         *)
Distinct(t) == \A i, j \in Used(t) : t.slot[i].key = t.slot[j].key => i = j

(* The slots the probe of k passes before its d-th are used.               *)
Path(t, k, d) == \A e \in 0 .. d - 1 : t.slot[At(t, k, e)] # Unused

LinkedAt(t, i) ==
    \E d \in Slots(t) : At(t, t.slot[i].key, d) = i /\ Path(t, t.slot[i].key, d)
Linked(t) == \A i \in Used(t) : LinkedAt(t, i)

Open(t) ==
    /\ Shape(t) /\ ~t.compr
    /\ Distinct(t) /\ Linked(t)
    /\ t.size = Cardinality(Used(t))

Pair(k, v) == [key |-> k, value |-> v]
HasPair(t, k, v) == \E i \in Slots(t) : t.slot[i] = Pair(k, v)

(* What the fields say.                                                    *)
LEMMA EntriesAreUsed ==
    ASSUME Setting
    PROVE  /\ \A c \in Cell : c # Unused <=> c \in Entry
           /\ \A c \in Entry : c.key \in Key /\ c.value \in Value /\ c = Pair(c.key, c.value)
           /\ \A k \in Key, v \in Value :
                 Pair(k, v) \in Entry /\ Pair(k, v).key = k /\ Pair(k, v).value = v
           /\ \A k \in Key : Unused.key # k
           /\ Unused.key = -1 /\ Unused.value = Absent
<1>1. -1 \notin Key
  BY DEF Setting, ConstantsOK
<1>2. Unused.key = -1 /\ Unused.value = -1
  BY DEF Unused, Absent
<1>3. Unused \notin Entry
  BY <1>1, <1>2 DEF Entry
<1>4. \A c \in Entry : c.key \in Key /\ c.value \in Value /\ c = Pair(c.key, c.value)
  BY DEF Entry, Pair
<1>5. \A k \in Key, v \in Value :
        Pair(k, v) \in Entry /\ Pair(k, v).key = k /\ Pair(k, v).value = v
  BY DEF Entry, Pair
<1> QED
  BY <1>1, <1>2, <1>3, <1>4, <1>5 DEF Cell, Absent

LEMMA ShapeFields ==
    ASSUME NEW t, Shape(t)
    PROVE  /\ t.cap \in Nat \ {0} /\ t.size \in Int /\ t.compr \in BOOLEAN
           /\ t.slot \in [Slots(t) -> Cell]
           /\ Slots(t) = 0 .. t.cap - 1 /\ IsFiniteSet(Slots(t)) /\ Cardinality(Slots(t)) = t.cap
           /\ Used(t) \in SUBSET Slots(t) /\ IsFiniteSet(Used(t))
<1>1. t.cap \in Nat \ {0} /\ t.size \in Int /\ t.compr \in BOOLEAN /\ t.slot \in [Slots(t) -> Cell]
  BY DEF Shape, Tables
<1>2. 0 \in Int /\ t.cap - 1 \in Int
  BY <1>1
<1>3. IsFiniteSet(0 .. t.cap - 1) /\ Cardinality(0 .. t.cap - 1) = t.cap
  <2>1. /\ IsFiniteSet(0 .. t.cap - 1)
        /\ Cardinality(0 .. t.cap - 1) = IF 0 > t.cap - 1 THEN 0 ELSE t.cap - 1 - 0 + 1
    BY <1>2, FS_Interval
  <2> QED BY <1>1, <2>1
<1>4. Used(t) \in SUBSET Slots(t)
  BY DEF Used
<1> QED
  BY <1>1, <1>3, <1>4, FS_Subset DEF Slots

(* A table with less entries than slots has an unused slot.                *)
LEMMA UnusedExists ==
    ASSUME NEW t, Shape(t), Cardinality(Used(t)) < t.cap
    PROVE  \E z \in Slots(t) : t.slot[z] = Unused
<1> SUFFICES ASSUME \A z \in Slots(t) : t.slot[z] # Unused PROVE FALSE
  OBVIOUS
<1>1. Used(t) = Slots(t)
  BY DEF Used
<1>2. Cardinality(Slots(t)) = t.cap /\ t.cap \in Nat
  BY ShapeFields
<1> QED
  BY <1>1, <1>2

(* The probe sequence: it visits every slot, and each once.                *)
Home(t, k) == hash[k] % t.cap

LEMMA AtIs ==
    ASSUME Setting, NEW t, t.cap \in Nat \ {0}, NEW k \in Key, NEW d \in Slots(t)
    PROVE  /\ Home(t, k) \in 0 .. t.cap - 1
           /\ At(t, k, d) = Wrap(Home(t, k) + d, t.cap)
           /\ At(t, k, d) \in Slots(t)
<1>1. hash[k] \in Nat /\ d \in 0 .. t.cap
  BY DEF Setting, Slots
<1> QED
  BY <1>1, WrapsAnywhere DEF At, Home, Slots

LEMMA AtIsInjective ==
    ASSUME Setting, NEW t, t.cap \in Nat \ {0}, NEW k \in Key,
           NEW d \in Slots(t), NEW e \in Slots(t), At(t, k, d) = At(t, k, e)
    PROVE  d = e
<1>1. /\ Home(t, k) \in 0 .. t.cap - 1
      /\ Wrap(Home(t, k) + d, t.cap) = Wrap(Home(t, k) + e, t.cap)
  BY AtIs
<1> HIDE DEF Home
<1> QED
  BY <1>1 DEF Wrap, Slots

LEMMA AtIsOnto ==
    ASSUME Setting, NEW t, t.cap \in Nat \ {0}, NEW k \in Key, NEW i \in Slots(t)
    PROVE  \E d \in Slots(t) : At(t, k, d) = i
<1> DEFINE h == Home(t, k)
           d == IF i >= h THEN i - h ELSE (i - h) + t.cap
<1>1. 0 \in Slots(t)
  BY DEF Slots
<1>2. h \in 0 .. t.cap - 1
  BY <1>1, AtIs
<1> HIDE DEF h
<1>3. d \in Slots(t) /\ Wrap(h + d, t.cap) = i
  BY <1>2 DEF Slots, Wrap
<1> HIDE DEF d
<1> QED
  BY <1>3, AtIs DEF h

(* The probe stops at the first slot that stops it.                        *)
LEMMA ProbeStops ==
    ASSUME NEW t, t.cap \in Nat \ {0}, NEW k, NEW d \in Slots(t), Stops(t, k, d)
    PROVE  \E f \in Slots(t) :
              /\ f <= d /\ Stops(t, k, f) /\ \A e \in 0 .. f - 1 : ~Stops(t, k, e)
              /\ Probe(t, k) = At(t, k, f)
<1> DEFINE T == {e \in Slots(t) : Stops(t, k, e)}
           First(f) == Stops(t, k, f) /\ \A e \in 0 .. f - 1 : ~Stops(t, k, e)
<1>1. T \subseteq Nat /\ T # {}
  BY DEF Slots
<1>2. PICK g \in T : \A y \in T : g <= y
  BY <1>1, LeastNat
<1>3. g \in Slots(t) /\ First(g)
  <2>1. \A e \in 0 .. g - 1 : e \in Slots(t) /\ ~(g <= e)
    BY DEF Slots
  <2> QED BY <1>2, <2>1
<1> DEFINE f == CHOOSE f \in Slots(t) : First(f)
<1>4. f \in Slots(t) /\ First(f)
  <2> HIDE DEF First
  <2> QED BY <1>3
<1>5. Probe(t, k) = At(t, k, f)
  BY DEF Probe
<1> HIDE DEF f
<1>6. f <= d
  BY <1>4 DEF Slots
<1> QED
  BY <1>4, <1>5, <1>6
-----------------------------------------------------------------------------
(* How the operations on one slot change a table.                          *)
Stored(t, i, k, v) ==
    [t EXCEPT !.slot[i] = [key |-> k, value |-> v],
              !.size = IF t.slot[i] = Unused THEN @ + 1 ELSE @]

LEMMA UpdatedFields ==
    ASSUME NEW t, Shape(t)
    PROVE  /\ Shape(Updated(t))
           /\ Updated(t).cap = t.cap /\ Updated(t).size = t.size
           /\ Updated(t).compr = t.compr /\ Updated(t).slot = t.slot
           /\ Updated(t).sum = SumOf(t)
           /\ Slots(Updated(t)) = Slots(t) /\ Used(Updated(t)) = Used(t)
<1> DEFINE u == Updated(t)
<1>1. SumOf(t) \in Sums
  BY DEF SumOf, Shape, Tables, Sums
<1>2. /\ u.cap = t.cap /\ u.size = t.size /\ u.compr = t.compr /\ u.slot = t.slot
      /\ u.sum = SumOf(t)
      /\ u \in Tables
  BY <1>1 DEF Updated, Shape, Tables
<1>3. Slots(u) = Slots(t)
  BY <1>2 DEF Slots
<1>4. Used(u) = Used(t)
  BY <1>2, <1>3 DEF Used
<1> QED
  BY <1>2, <1>3, <1>4 DEF Shape

LEMMA TablesExcept ==
    ASSUME NEW t \in Tables, NEW z \in Int
    PROVE  /\ \A i, e : [t.slot EXCEPT ![i] = e] \in Rows =>
                            [t EXCEPT !.slot[i] = e, !.size = z] \in Tables
           /\ \A n \in Nat \ {0}, s \in Rows :
                  [t EXCEPT !.cap = n, !.size = z, !.slot = s] \in Tables
           /\ [t EXCEPT !.compr = TRUE, !.size = z] \in Tables
BY DEF Tables

LEMMA StoredFields ==
    ASSUME Setting, NEW t, Shape(t), NEW i \in Slots(t), NEW k \in Key, NEW v \in Value
    PROVE  LET u == Stored(t, i, k, v)
           IN  /\ Shape(u) /\ u.cap = t.cap /\ u.compr = t.compr
               /\ u.size = IF t.slot[i] = Unused THEN t.size + 1 ELSE t.size
               /\ u.slot[i] = Pair(k, v) /\ \A j \in Slots(t) \ {i} : u.slot[j] = t.slot[j]
               /\ Slots(u) = Slots(t) /\ Used(u) = Used(t) \union {i}
<1> DEFINE u == Stored(t, i, k, v)
           s == [t.slot EXCEPT ![i] = Pair(k, v)]
<1>1. t.slot \in [Slots(t) -> Cell] /\ Pair(k, v) \in Cell /\ Pair(k, v) # Unused
  BY EntriesAreUsed DEF Shape, Cell
<1>2. s \in [Slots(t) -> Cell] /\ s[i] = Pair(k, v) /\ \A j \in Slots(t) \ {i} : s[j] = t.slot[j]
  BY <1>1
<1>3. s \in Rows
  BY <1>2 DEF Rows, Slots, Shape, Tables
<1>4. /\ u.cap = t.cap /\ u.compr = t.compr /\ u.slot = s
      /\ u.size = IF t.slot[i] = Unused THEN t.size + 1 ELSE t.size
  BY DEF Shape, Tables, Stored, Pair
<1>m. u \in Tables
  <2>1. t \in Tables /\ (IF t.slot[i] = Unused THEN t.size + 1 ELSE t.size) \in Int
    BY DEF Shape, Tables
  <2> QED BY <1>3, <2>1, TablesExcept DEF Stored, Pair
<1> HIDE DEF u, s
<1>5. Slots(u) = Slots(t)
  BY <1>4 DEF Slots
<1>6. Used(u) = Used(t) \union {i}
  BY <1>1, <1>2, <1>4, <1>5 DEF Used
<1>7. Shape(u)
  BY <1>2, <1>4, <1>5, <1>m DEF Shape
<1> QED
  BY <1>2, <1>4, <1>5, <1>6, <1>7 DEF u

LEMMA VacatedFields ==
    ASSUME Setting, NEW t, Shape(t), NEW i \in Slots(t)
    PROVE  LET u == Vacated(t, i)
           IN  /\ Shape(u) /\ u.cap = t.cap /\ u.compr = t.compr /\ u.size = t.size - 1
               /\ u.slot[i] = Unused /\ \A j \in Slots(t) \ {i} : u.slot[j] = t.slot[j]
               /\ Slots(u) = Slots(t) /\ Used(u) = Used(t) \ {i}
<1> DEFINE u == Vacated(t, i)
           s == [t.slot EXCEPT ![i] = Unused]
<1>1. t.slot \in [Slots(t) -> Cell] /\ Unused \in Cell
  BY DEF Shape, Cell
<1>2. s \in [Slots(t) -> Cell] /\ s[i] = Unused /\ \A j \in Slots(t) \ {i} : s[j] = t.slot[j]
  BY <1>1
<1>3. s \in Rows
  BY <1>2 DEF Rows, Slots, Shape, Tables
<1>4. /\ u.cap = t.cap /\ u.compr = t.compr /\ u.slot = s /\ u.size = t.size - 1
  BY DEF Shape, Tables, Vacated
<1>m. u \in Tables
  <2>1. t \in Tables /\ t.size - 1 \in Int
    BY DEF Shape, Tables
  <2> QED BY <1>3, <2>1, TablesExcept DEF Vacated
<1> HIDE DEF u, s
<1>5. Slots(u) = Slots(t)
  BY <1>4 DEF Slots
<1>6. Used(u) = Used(t) \ {i}
  BY <1>1, <1>2, <1>4, <1>5 DEF Used
<1>7. Shape(u)
  BY <1>2, <1>4, <1>5, <1>m DEF Shape
<1> QED
  BY <1>2, <1>4, <1>5, <1>6, <1>7 DEF u

LEMMA BiggerFields ==
    ASSUME NEW t, Shape(t)
    PROVE  LET u == Bigger(t)
           IN  /\ Shape(u) /\ u.cap = 2 * t.cap /\ u.compr = t.compr /\ u.size = 0
               /\ \A i \in Slots(u) : u.slot[i] = Unused
               /\ Used(u) = {}
<1> DEFINE u == Bigger(t)
           s == EmptySlots(2 * t.cap)
<1>1. t.cap \in Nat \ {0} /\ 2 * t.cap \in Nat \ {0}
  BY DEF Shape, Tables
<1>2. s \in [0 .. 2 * t.cap - 1 -> Cell] /\ \A i \in 0 .. 2 * t.cap - 1 : s[i] = Unused
  BY DEF EmptySlots, Cell
<1>3. s \in Rows
  BY <1>1, <1>2 DEF Rows
<1>4. /\ u.cap = 2 * t.cap /\ u.compr = t.compr /\ u.slot = s /\ u.size = 0
  BY DEF Shape, Tables, Bigger
<1>m. u \in Tables
  <2>1. t \in Tables /\ 0 \in Int
    BY DEF Shape
  <2> QED BY <1>1, <1>3, <2>1, TablesExcept DEF Bigger
<1> HIDE DEF u, s
<1>5. Slots(u) = 0 .. 2 * t.cap - 1
  BY <1>4 DEF Slots
<1>6. \A i \in Slots(u) : u.slot[i] = Unused
  BY <1>2, <1>4, <1>5
<1>7. Used(u) = {}
  BY <1>6 DEF Used
<1>8. Shape(u)
  BY <1>2, <1>4, <1>5, <1>m DEF Shape
<1> QED
  BY <1>4, <1>6, <1>7, <1>8 DEF u

-----------------------------------------------------------------------------
(* The probe ends at a linked entry of the key.                            *)
LEMMA ProbeFinds ==
    ASSUME Setting, NEW t, Shape(t), Distinct(t), NEW i \in Used(t), LinkedAt(t, i)
    PROVE  ProbeEnds(t, t.slot[i].key) /\ Probe(t, t.slot[i].key) = i
<1> DEFINE k == t.slot[i].key
<1>1. t.cap \in Nat \ {0} /\ t.slot \in [Slots(t) -> Cell] /\ i \in Slots(t)
  BY ShapeFields
<1>2. k \in Key /\ t.slot[i] # Unused
  BY <1>1, EntriesAreUsed DEF Used
<1>3. PICK d \in Slots(t) : At(t, k, d) = i /\ Path(t, k, d)
  BY DEF LinkedAt
<1> HIDE DEF k
<1>4. Stops(t, k, d)
  BY <1>3 DEF Stops, k
<1>5. PICK f \in Slots(t) : f <= d /\ Stops(t, k, f) /\ Probe(t, k) = At(t, k, f)
  BY <1>1, <1>4, ProbeStops
<1>6. f = d
  <2> SUFFICES ASSUME f < d PROVE FALSE
    BY <1>5 DEF Slots
  <2>1. t.slot[At(t, k, f)] # Unused
    BY <1>3 DEF Path, Slots
  <2>2. At(t, k, f) \in Used(t) /\ t.slot[At(t, k, f)].key = k
    BY <1>1, <1>2, <1>5, <2>1, AtIs DEF Stops, Used
  <2>3. At(t, k, f) = i
    BY <2>2 DEF Distinct, k
  <2>4. f = d
    BY <1>1, <1>2, <1>3, <2>3, AtIsInjective
  <2> QED BY <2>4 DEF Slots
<1> QED
  BY <1>3, <1>4, <1>5, <1>6 DEF ProbeEnds, k

(* The probe of a key that is not there ends at an unused slot, with used  *)
(* slots before it.                                                        *)
LEMMA ProbeMisses ==
    ASSUME Setting, NEW t, Shape(t), NEW k \in Key,
           \A i \in Used(t) : t.slot[i].key # k,
           NEW z \in Slots(t), t.slot[z] = Unused
    PROVE  /\ ProbeEnds(t, k)
           /\ \E d \in Slots(t) :
                 /\ \A b \in Slots(t) : At(t, k, b) = z => d <= b
                 /\ Probe(t, k) = At(t, k, d) /\ At(t, k, d) \in Slots(t)
                 /\ t.slot[At(t, k, d)] = Unused /\ Path(t, k, d)
<1>1. t.cap \in Nat \ {0} /\ t.slot \in [Slots(t) -> Cell]
  BY ShapeFields
<1>2. PICK b \in Slots(t) : At(t, k, b) = z
  BY <1>1, AtIsOnto
<1>3. Stops(t, k, b)
  BY <1>2 DEF Stops
<1>4. PICK f \in Slots(t) :
         /\ f <= b /\ Stops(t, k, f) /\ \A e \in 0 .. f - 1 : ~Stops(t, k, e)
         /\ Probe(t, k) = At(t, k, f)
  BY <1>1, <1>3, ProbeStops
<1>5. At(t, k, f) \in Slots(t)
  BY <1>1, AtIs
<1>6. t.slot[At(t, k, f)] = Unused
  BY <1>4, <1>5 DEF Stops, Used
<1>7. Path(t, k, f)
  BY <1>4 DEF Path, Stops
<1>8. \A c \in Slots(t) : At(t, k, c) = z => f <= c
  <2> SUFFICES ASSUME NEW c \in Slots(t), At(t, k, c) = z PROVE f <= c
    OBVIOUS
  <2>1. c = b
    BY <1>1, <1>2, AtIsInjective
  <2> QED BY <1>4, <2>1
<1> QED
  BY <1>3, <1>4, <1>5, <1>6, <1>7, <1>8 DEF ProbeEnds

(* A slot that becomes used keeps every link.                              *)
LEMMA LinksStay ==
    ASSUME NEW t, NEW u, u.cap = t.cap, NEW i \in Slots(t),
           t.slot[i] # Unused => u.slot[i].key = t.slot[i].key,
           \A j \in Slots(t) : t.slot[j] # Unused => u.slot[j] # Unused,
           Setting, t.cap \in Nat \ {0}, t.slot[i].key \in Key, t.slot[i] # Unused, LinkedAt(t, i)
    PROVE  LinkedAt(u, i)
<1> DEFINE k == t.slot[i].key
<1>1. PICK d \in Slots(t) : At(t, k, d) = i /\ Path(t, k, d)
  BY DEF LinkedAt
<1>2. u.slot[i].key = k /\ k \in Key
  OBVIOUS
<1> HIDE DEF k
<1>3. \A e : At(u, k, e) = At(t, k, e)
  BY DEF At
<1>4. \A e \in 0 .. d - 1 : e \in Slots(t)
  BY DEF Slots
<1>5. Path(u, k, d)
  BY <1>1, <1>2, <1>3, <1>4, AtIs DEF Path
<1> QED
  BY <1>1, <1>2, <1>3, <1>5 DEF LinkedAt, Slots

LEMMA SumsAlike ==
    ASSUME NEW t, Shape(t)
    PROVE  SumOf(Updated(t)) = SumOf(t)
<1> DEFINE u == Updated(t)
<1>1. u.slot = t.slot /\ u.size = t.size /\ Used(u) = Used(t)
  BY UpdatedFields
<1> HIDE DEF u
<1>2. \A x : Occurs(u, x) = Occurs(t, x)
  BY <1>1 DEF Occurs
<1>3. \A x : Occurs(u, x) % 2 = Occurs(t, x) % 2
  BY Zenon, <1>2
<1>4. {x \in Key \union Value : Occurs(u, x) % 2 = 1} = {x \in Key \union Value : Occurs(t, x) % 2 = 1}
  BY Zenon, <1>3
<1>5. SumOf(u) = SumOf(t)
  BY Zenon, <1>1, <1>4 DEF SumOf
<1> QED
  BY <1>5 DEF u

LEMMA PlaceFields ==
    ASSUME Setting, NEW t, Shape(t), NEW k \in Key, NEW v \in Value, Position(t, k) \in Slots(t)
    PROVE  LET u == Place(t, k, v)
               i == Position(t, k)
           IN  /\ Shape(u) /\ u.cap = t.cap /\ u.compr = t.compr
               /\ u.size = IF t.slot[i] = Unused THEN t.size + 1 ELSE t.size
               /\ u.slot[i] = Pair(k, v) /\ \A j \in Slots(t) \ {i} : u.slot[j] = t.slot[j]
               /\ Slots(u) = Slots(t) /\ Used(u) = Used(t) \union {i}
               /\ u.sum = SumOf(u)
<1> DEFINE i == Position(t, k)
           s == Stored(t, i, k, v)
<1>1. Place(t, k, v) = Updated(s)
  BY DEF Place, Stored, Position
<1> HIDE DEF i
<1>2. /\ Shape(s) /\ s.cap = t.cap /\ s.compr = t.compr
      /\ s.size = IF t.slot[i] = Unused THEN t.size + 1 ELSE t.size
      /\ s.slot[i] = Pair(k, v) /\ \A j \in Slots(t) \ {i} : s.slot[j] = t.slot[j]
      /\ Slots(s) = Slots(t) /\ Used(s) = Used(t) \union {i}
  BY StoredFields DEF i
<1> HIDE DEF s
<1> QED
  BY <1>1, <1>2, UpdatedFields, SumsAlike DEF i

(* A key that is not there goes to the first unused slot of its probe.     *)
LEMMA PutNew ==
    ASSUME Setting, NEW t, Shape(t), ~t.compr, NEW k \in Key, NEW v \in Value,
           \A i \in Used(t) : t.slot[i].key # k,
           NEW z \in Slots(t), t.slot[z] = Unused
    PROVE  LET u == Place(t, k, v)
               p == Probe(t, k)
           IN  /\ ProbeEnds(t, k)
               /\ Shape(u) /\ u.cap = t.cap /\ ~u.compr /\ u.size = t.size + 1
               /\ p \in Slots(t) /\ t.slot[p] = Unused /\ u.slot[p] = Pair(k, v)
               /\ \A j \in Slots(t) \ {p} : u.slot[j] = t.slot[j]
               /\ Slots(u) = Slots(t) /\ Used(u) = Used(t) \union {p}
               /\ u.sum = SumOf(u)
               /\ LinkedAt(u, p)
               /\ \A i \in Used(t) : LinkedAt(t, i) => LinkedAt(u, i)
<1> DEFINE u == Place(t, k, v)
           p == Probe(t, k)
<1>1. ProbeEnds(t, k)
  BY ProbeMisses
<1>2. PICK d \in Slots(t) :
         /\ p = At(t, k, d) /\ At(t, k, d) \in Slots(t)
         /\ t.slot[At(t, k, d)] = Unused /\ Path(t, k, d)
  BY ProbeMisses
<1>3. Position(t, k) = p
  BY DEF Position
<1> HIDE DEF p
<1>4. /\ Shape(u) /\ u.cap = t.cap /\ ~u.compr /\ u.size = t.size + 1
      /\ u.slot[p] = Pair(k, v) /\ \A j \in Slots(t) \ {p} : u.slot[j] = t.slot[j]
      /\ Slots(u) = Slots(t) /\ Used(u) = Used(t) \union {p} /\ u.sum = SumOf(u)
  BY <1>2, <1>3, PlaceFields
<1> HIDE DEF u
<1>5. t.cap \in Nat \ {0} /\ t.slot \in [Slots(t) -> Cell]
  BY ShapeFields
<1>6. \A j \in Slots(t) : t.slot[j] # Unused => u.slot[j] = t.slot[j]
  BY <1>2, <1>4
<1>7. LinkedAt(u, p)
  <2>1. u.slot[p].key = k
    BY <1>4, EntriesAreUsed
  <2>2. \A e : At(u, k, e) = At(t, k, e)
    BY <1>4 DEF At
  <2>3. \A e \in 0 .. d - 1 : e \in Slots(t)
    BY <1>5 DEF Slots
  <2>4. Path(u, k, d)
    BY <1>2, <1>5, <1>6, <2>2, <2>3, AtIs DEF Path
  <2> QED BY <1>2, <1>4, <2>1, <2>2, <2>4 DEF LinkedAt
<1>8. ASSUME NEW i \in Used(t), LinkedAt(t, i) PROVE LinkedAt(u, i)
  <2>1. i \in Slots(t) /\ t.slot[i] # Unused
    BY DEF Used
  <2>2. t.slot[i].key \in Key
    BY <1>5, <2>1, EntriesAreUsed
  <2> QED BY <1>4, <1>5, <1>6, <1>8, <2>1, <2>2, LinksStay
<1> QED
  BY <1>1, <1>2, <1>4, <1>7, <1>8 DEF p, u

(* A key that is there keeps its slot.                                     *)
LEMMA PutOld ==
    ASSUME Setting, NEW t, Shape(t), ~t.compr, Distinct(t), NEW v \in Value,
           NEW i \in Used(t), LinkedAt(t, i)
    PROVE  LET u == Place(t, t.slot[i].key, v)
           IN  /\ ProbeEnds(t, t.slot[i].key)
               /\ Shape(u) /\ u.cap = t.cap /\ ~u.compr /\ u.size = t.size
               /\ u.slot[i] = Pair(t.slot[i].key, v)
               /\ \A j \in Slots(t) \ {i} : u.slot[j] = t.slot[j]
               /\ Slots(u) = Slots(t) /\ Used(u) = Used(t)
               /\ u.sum = SumOf(u)
               /\ \A j \in Used(t) : LinkedAt(t, j) => LinkedAt(u, j)
<1> DEFINE k == t.slot[i].key
           u == Place(t, k, v)
<1>1. t.cap \in Nat \ {0} /\ t.slot \in [Slots(t) -> Cell] /\ i \in Slots(t) /\ t.slot[i] # Unused
  BY ShapeFields DEF Used
<1>2. k \in Key
  BY <1>1, EntriesAreUsed
<1>3. ProbeEnds(t, k) /\ Position(t, k) = i
  BY ProbeFinds DEF Position
<1> HIDE DEF k
<1>4. /\ Shape(u) /\ u.cap = t.cap /\ ~u.compr /\ u.size = t.size
      /\ u.slot[i] = Pair(k, v) /\ \A j \in Slots(t) \ {i} : u.slot[j] = t.slot[j]
      /\ Slots(u) = Slots(t) /\ Used(u) = Used(t) \union {i} /\ u.sum = SumOf(u)
  BY <1>1, <1>2, <1>3, PlaceFields
<1> HIDE DEF u
<1>5. Used(u) = Used(t)
  BY <1>4
<1>6. ASSUME NEW j \in Used(t), LinkedAt(t, j) PROVE LinkedAt(u, j)
  <2>1. j \in Slots(t) /\ t.slot[j] # Unused
    BY DEF Used
  <2>2. t.slot[j].key \in Key
    BY <1>1, <2>1, EntriesAreUsed
  <2>3. u.slot[j].key = t.slot[j].key
    BY <1>2, <1>4, <2>1, EntriesAreUsed DEF k
  <2>4. \A x \in Slots(t) : t.slot[x] # Unused => u.slot[x] # Unused
    BY <1>4, <1>5 DEF Used
  <2> QED BY <1>1, <1>4, <1>6, <2>1, <2>2, <2>3, <2>4, LinksStay
<1> QED
  BY <1>3, <1>4, <1>5, <1>6 DEF k, u

(* What HasPair says of the entries.                                         *)
LEMMA HoldsSlots ==
    ASSUME Setting, NEW t, Shape(t), NEW k \in Key, NEW v \in Value
    PROVE  /\ HasPair(t, k, v) <=> \E i \in Used(t) : t.slot[i] = Pair(k, v)
           /\ HasPair(t, k, v) <=> \E i \in Used(t) : t.slot[i].key = k /\ t.slot[i].value = v
<1>1. \A i \in Slots(t) : t.slot[i] = Pair(k, v) => i \in Used(t)
  BY EntriesAreUsed, Pair(k, v) \in Cell DEF Used, Cell
<1>s. t.slot \in [Slots(t) -> Cell]
  BY ShapeFields
<1>2. \A i \in Used(t) : i \in Slots(t) /\ t.slot[i] \in Entry
  BY <1>s, EntriesAreUsed DEF Used
<1>3. \A i \in Used(t) : t.slot[i] = Pair(k, v) <=> t.slot[i].key = k /\ t.slot[i].value = v
  BY <1>2, EntriesAreUsed
<1> QED
  BY <1>1, <1>2, <1>3 DEF HasPair

(* A put into an open table with an unused slot.                           *)
LEMMA OpenPut ==
    ASSUME Setting, NEW t, Open(t), t.size < t.cap, NEW k \in Key, NEW v \in Value
    PROVE  LET u == Place(t, k, v)
           IN  /\ ProbeEnds(t, k)
               /\ Open(u) /\ u.cap = t.cap /\ u.sum = SumOf(u)
               /\ u.size \in {t.size, t.size + 1}
               /\ \A x \in Key, w \in Value :
                      HasPair(u, x, w) <=> (x = k /\ w = v) \/ (x # k /\ HasPair(t, x, w))
<1> DEFINE u == Place(t, k, v)
<1>1. /\ Shape(t) /\ ~t.compr /\ Distinct(t) /\ Linked(t) /\ t.size = Cardinality(Used(t))
      /\ t.cap \in Nat \ {0} /\ t.slot \in [Slots(t) -> Cell]
      /\ Used(t) \in SUBSET Slots(t) /\ IsFiniteSet(Used(t))
  BY ShapeFields DEF Open
<1>2. CASE \E i \in Used(t) : t.slot[i].key = k
  <2>1. PICK i \in Used(t) : t.slot[i].key = k
    BY <1>2
  <2>2. LinkedAt(t, i)
    BY <1>1 DEF Linked
  <2>3. /\ ProbeEnds(t, k)
        /\ Shape(u) /\ u.cap = t.cap /\ ~u.compr /\ u.size = t.size
        /\ u.slot[i] = Pair(k, v)
        /\ \A j \in Slots(t) \ {i} : u.slot[j] = t.slot[j]
        /\ Slots(u) = Slots(t) /\ Used(u) = Used(t)
        /\ u.sum = SumOf(u)
        /\ \A j \in Used(t) : LinkedAt(t, j) => LinkedAt(u, j)
    BY <1>1, <2>1, <2>2, PutOld
  <2> HIDE DEF u
  <2>4. \A j \in Used(t) : u.slot[j].key = t.slot[j].key
    BY <1>1, <2>1, <2>3, EntriesAreUsed
  <2>5. Distinct(u)
    BY <1>1, <2>3, <2>4 DEF Distinct
  <2>6. Linked(u)
    BY <1>1, <2>3 DEF Linked
  <2>7. ASSUME NEW x \in Key, NEW w \in Value
        PROVE  HasPair(u, x, w) <=> (x = k /\ w = v) \/ (x # k /\ HasPair(t, x, w))
    <3>1. \A j \in Used(t) : t.slot[j].key = k => j = i
      BY <1>1, <2>1 DEF Distinct
    <3>2. CASE x = k
      <4>1. \A j \in Used(u) : u.slot[j].key = k => j = i
        BY <2>3, <2>4, <3>1
      <4>2. Pair(k, v).value = v
        BY EntriesAreUsed
      <4> QED BY <2>1, <2>3, <3>2, <4>1, <4>2, HoldsSlots
    <3>3. CASE x # k
      <4>1. \A j \in Used(u) : u.slot[j].key = x => j \in Slots(t) \ {i}
        BY <1>1, <2>1, <2>3, <2>4, <3>3
      <4>2. \A j \in Used(t) : t.slot[j].key = x => j \in Slots(t) \ {i}
        BY <1>1, <2>1, <3>3
      <4>3. HasPair(u, x, w) <=> HasPair(t, x, w)
        BY <1>1, <2>3, <4>1, <4>2, HoldsSlots
      <4> QED BY <3>3, <4>3
    <3> QED BY <3>2, <3>3
  <2> QED
    BY <1>1, <2>3, <2>5, <2>6, <2>7 DEF Open, u
<1>3. CASE ~ \E i \in Used(t) : t.slot[i].key = k
  <2>1. PICK z \in Slots(t) : t.slot[z] = Unused
    BY <1>1, UnusedExists
  <2> DEFINE p == Probe(t, k)
  <2>2. /\ ProbeEnds(t, k)
        /\ Shape(u) /\ u.cap = t.cap /\ ~u.compr /\ u.size = t.size + 1
        /\ p \in Slots(t) /\ t.slot[p] = Unused /\ u.slot[p] = Pair(k, v)
        /\ \A j \in Slots(t) \ {p} : u.slot[j] = t.slot[j]
        /\ Slots(u) = Slots(t) /\ Used(u) = Used(t) \union {p}
        /\ u.sum = SumOf(u)
        /\ LinkedAt(u, p)
        /\ \A i \in Used(t) : LinkedAt(t, i) => LinkedAt(u, i)
    BY <1>1, <1>3, <2>1, PutNew
  <2> HIDE DEF u, p
  <2>3. p \notin Used(t) /\ \A j \in Used(t) : j \in Slots(t) \ {p} /\ u.slot[j] = t.slot[j]
    BY <1>1, <2>2 DEF Used
  <2>4. u.slot[p].key = k /\ u.slot[p].value = v
    BY <2>2, EntriesAreUsed
  <2>5. Distinct(u)
    BY <1>1, <1>3, <2>2, <2>3, <2>4 DEF Distinct
  <2>6. Linked(u)
    BY <1>1, <2>2 DEF Linked
  <2>7. u.size = Cardinality(Used(u))
    <3>1. Cardinality(Used(t) \union {p}) = Cardinality(Used(t)) + 1
      BY <1>1, <2>3, FS_AddElement
    <3> QED BY <1>1, <2>2, <3>1
  <2>8. ASSUME NEW x \in Key, NEW w \in Value
        PROVE  HasPair(u, x, w) <=> (x = k /\ w = v) \/ (x # k /\ HasPair(t, x, w))
    <3>1. CASE x = k
      <4>1. \A j \in Used(u) : u.slot[j].key = k => j = p
        BY <1>3, <2>2, <2>3
      <4> QED BY <2>2, <2>4, <3>1, <4>1, HoldsSlots
    <3>2. CASE x # k
      <4>1. \A j \in Used(u) : u.slot[j].key = x => j \in Used(t)
        BY <2>2, <2>4, <3>2
      <4>2. HasPair(u, x, w) <=> HasPair(t, x, w)
        BY <1>1, <2>2, <2>3, <4>1, HoldsSlots
      <4> QED BY <3>2, <4>2
    <3> QED BY <3>1, <3>2
  <2> QED
    BY <1>1, <2>2, <2>5, <2>6, <2>7, <2>8 DEF Open, u
<1> QED
  BY <1>2, <1>3

-----------------------------------------------------------------------------
(* The step of a resize: the entry of one slot into the new table.         *)
Moved(u, e) == IF e = Unused THEN u ELSE Place(u, e.key, e.value)

(* A resize is the last of a sequence of tables, one for each old slot.    *)
LEMMA ResizedStepByStep ==
    ASSUME NEW t, Shape(t)
    PROVE  \E c : /\ c[0] = Bigger(t)
                  /\ \A p \in 1 .. t.cap : c[p] = Moved(c[p - 1], t.slot[p - 1])
                  /\ Resized(t) = c[t.cap]
<1> DEFINE n == t.cap
           Steps(f, b) == /\ f[0] = Bigger(t)
                          /\ \A p \in 1 .. b : f[p] = Moved(f[p - 1], t.slot[p - 1])
           S == {b \in 0 .. n : \E f : Steps(f, b)}
<1>0. n \in Nat
  BY ShapeFields
<1> HIDE DEF n
<1>1. 0 \in S
  <2>1. Steps([p \in {0} |-> Bigger(t)], 0)
    OBVIOUS
  <2> HIDE DEF Steps
  <2> QED BY <1>0, <2>1
<1>2. ASSUME NEW k \in 0 .. n, k \in S, k < n
      PROVE  k + 1 \in S
  <2>1. PICK f : Steps(f, k)
    BY <1>2
  <2> DEFINE g == [p \in 0 .. k + 1 |-> IF p = k + 1 THEN Moved(f[k], t.slot[(k + 1) - 1]) ELSE f[p]]
  <2>2. /\ g[k + 1] = Moved(f[k], t.slot[(k + 1) - 1])
        /\ \A p \in 0 .. k : g[p] = f[p]
    BY <1>0, <1>2
  <2> HIDE DEF g
  <2>3. g[0] = Bigger(t)
    BY <1>0, <1>2, <2>1, <2>2
  <2>4. ASSUME NEW p \in 1 .. k + 1 PROVE g[p] = Moved(g[p - 1], t.slot[p - 1])
    <3>1. p - 1 \in 0 .. k
      BY <1>0, <1>2
    <3>2. CASE p = k + 1
      <4>1. p - 1 = k
        BY <1>0, <1>2, <3>2
      <4> QED BY <1>0, <1>2, <2>2, <3>1, <3>2, <4>1
    <3>3. CASE p # k + 1
      <4>1. p \in 1 .. k /\ p \in 0 .. k
        BY <1>0, <1>2, <3>3
      <4> QED BY <2>1, <2>2, <3>1, <4>1
    <3> QED BY <3>2, <3>3
  <2>5. Steps(g, k + 1)
    BY <2>3, <2>4
  <2>6. k + 1 \in 0 .. n
    BY <1>0, <1>2
  <2> QED BY <2>5, <2>6
<1>3. S = 0 .. n
  <2>1. S \in SUBSET (0 .. n)
    OBVIOUS
  <2> HIDE DEF S
  <2> QED BY <1>0, <1>1, <1>2, <2>1, IntervalInduction
<1>4. PICK f : Steps(f, n)
  <2> HIDE DEF Steps
  <2>1. n \in 0 .. n
    BY <1>0
  <2>2. n \in S
    BY <1>3, <2>1
  <2> QED BY <2>2
<1> DEFINE Whole(g) == [p \in 0 .. n |-> IF p = 0 THEN Bigger(t) ELSE Moved(g[p - 1], t.slot[p - 1])]
           c == CHOOSE g : g = Whole(g)
<1>5. c = Whole(c)
  <2> DEFINE g == [p \in 0 .. n |-> f[p]]
  <2>1. \A p \in 0 .. n : g[p] = IF p = 0 THEN Bigger(t) ELSE Moved(g[p - 1], t.slot[p - 1])
    <3> SUFFICES ASSUME NEW p \in 0 .. n
                 PROVE  g[p] = IF p = 0 THEN Bigger(t) ELSE Moved(g[p - 1], t.slot[p - 1])
      OBVIOUS
    <3>1. CASE p = 0
      BY <1>4, <3>1
    <3>2. CASE p # 0
      <4>1. p \in 1 .. n /\ p - 1 \in 0 .. n
        BY <1>0, <3>2
      <4> QED BY <1>4, <3>2, <4>1
    <3> QED BY <3>1, <3>2
  <2>2. g = Whole(g)
    BY <2>1
  <2> HIDE DEF g, Whole
  <2> QED BY <2>2
<1>6. Resized(t) = c[n]
  BY DEF Resized, Moved, n
<1> HIDE DEF c
<1>7. c[0] = Bigger(t) /\ \A p \in 1 .. n : c[p] = Moved(c[p - 1], t.slot[p - 1])
  <2>1. c[0] = Bigger(t)
    BY <1>0, <1>5
  <2>2. ASSUME NEW p \in 1 .. n PROVE c[p] = Moved(c[p - 1], t.slot[p - 1])
    <3>1. p \in 0 .. n /\ p # 0
      BY <1>0
    <3> QED BY <1>5, <3>1
  <2> QED BY <2>1, <2>2
<1> QED
  BY <1>6, <1>7 DEF n

(* So is a removal, one for each slot of the rest of the cluster.          *)
LaterCluster(t, x) == IF t.compr THEN <<>> ELSE Cluster(t, Position(t, x))
LEMMA EmptiedStepByStep ==
    ASSUME NEW t, NEW x, LaterCluster(t, x) \in Seq(Nat)
    PROVE  \E c : /\ c[0] = Vacated(t, Position(t, x))
                  /\ \A p \in 1 .. Len(LaterCluster(t, x)) : c[p] = PutBack(c[p - 1], LaterCluster(t, x)[p])
                  /\ Emptied(t, x) = c[Len(LaterCluster(t, x))]
<1> DEFINE n == Len(LaterCluster(t, x))
           Steps(f, b) == /\ f[0] = Vacated(t, Position(t, x))
                          /\ \A p \in 1 .. b : f[p] = PutBack(f[p - 1], LaterCluster(t, x)[p])
           S == {b \in 0 .. n : \E f : Steps(f, b)}
<1>0. n \in Nat
  OBVIOUS
<1> HIDE DEF n
<1>1. 0 \in S
  <2>1. Steps([p \in {0} |-> Vacated(t, Position(t, x))], 0)
    OBVIOUS
  <2> HIDE DEF Steps
  <2> QED BY <1>0, <2>1
<1>2. ASSUME NEW k \in 0 .. n, k \in S, k < n
      PROVE  k + 1 \in S
  <2>1. PICK f : Steps(f, k)
    BY <1>2
  <2> DEFINE g == [p \in 0 .. k + 1 |-> IF p = k + 1 THEN PutBack(f[k], LaterCluster(t, x)[k + 1]) ELSE f[p]]
  <2>2. /\ g[k + 1] = PutBack(f[k], LaterCluster(t, x)[k + 1])
        /\ \A p \in 0 .. k : g[p] = f[p]
    BY <1>0, <1>2
  <2> HIDE DEF g
  <2>3. g[0] = Vacated(t, Position(t, x))
    BY <1>0, <1>2, <2>1, <2>2
  <2>4. ASSUME NEW p \in 1 .. k + 1 PROVE g[p] = PutBack(g[p - 1], LaterCluster(t, x)[p])
    <3>1. p - 1 \in 0 .. k
      BY <1>0, <1>2
    <3>2. CASE p = k + 1
      <4>1. p - 1 = k
        BY <1>0, <1>2, <3>2
      <4> QED BY <1>0, <1>2, <2>2, <3>1, <3>2, <4>1
    <3>3. CASE p # k + 1
      <4>1. p \in 1 .. k /\ p \in 0 .. k
        BY <1>0, <1>2, <3>3
      <4> QED BY <2>1, <2>2, <3>1, <4>1
    <3> QED BY <3>2, <3>3
  <2>5. Steps(g, k + 1)
    BY <2>3, <2>4
  <2>6. k + 1 \in 0 .. n
    BY <1>0, <1>2
  <2> QED BY <2>5, <2>6
<1>3. S = 0 .. n
  <2>1. S \in SUBSET (0 .. n)
    OBVIOUS
  <2> HIDE DEF S
  <2> QED BY <1>0, <1>1, <1>2, <2>1, IntervalInduction
<1>4. PICK f : Steps(f, n)
  <2> HIDE DEF Steps
  <2>1. n \in 0 .. n
    BY <1>0
  <2>2. n \in S
    BY <1>3, <2>1
  <2> QED BY <2>2
<1> DEFINE Whole(g) == [p \in 0 .. n |-> IF p = 0 THEN Vacated(t, Position(t, x)) ELSE PutBack(g[p - 1], LaterCluster(t, x)[p])]
           c == CHOOSE g : g = Whole(g)
<1>5. c = Whole(c)
  <2> DEFINE g == [p \in 0 .. n |-> f[p]]
  <2>1. \A p \in 0 .. n : g[p] = IF p = 0 THEN Vacated(t, Position(t, x)) ELSE PutBack(g[p - 1], LaterCluster(t, x)[p])
    <3> SUFFICES ASSUME NEW p \in 0 .. n
                 PROVE  g[p] = IF p = 0 THEN Vacated(t, Position(t, x)) ELSE PutBack(g[p - 1], LaterCluster(t, x)[p])
      OBVIOUS
    <3>1. CASE p = 0
      BY <1>4, <3>1
    <3>2. CASE p # 0
      <4>1. p \in 1 .. n /\ p - 1 \in 0 .. n
        BY <1>0, <3>2
      <4> QED BY <1>4, <3>2, <4>1
    <3> QED BY <3>1, <3>2
  <2>2. g = Whole(g)
    BY <2>1
  <2> HIDE DEF g, Whole
  <2> QED BY <2>2
<1>6. Emptied(t, x) = c[n]
  BY DEF Emptied, LaterCluster, n
<1> HIDE DEF c
<1>7. c[0] = Vacated(t, Position(t, x)) /\ \A p \in 1 .. n : c[p] = PutBack(c[p - 1], LaterCluster(t, x)[p])
  <2>1. c[0] = Vacated(t, Position(t, x))
    BY <1>0, <1>5
  <2>2. ASSUME NEW p \in 1 .. n PROVE c[p] = PutBack(c[p - 1], LaterCluster(t, x)[p])
    <3>1. p \in 0 .. n /\ p # 0
      BY <1>0
    <3> QED BY <1>5, <3>1
  <2> QED BY <2>1, <2>2
<1> QED
  BY <1>6, <1>7 DEF n

-----------------------------------------------------------------------------
(* A resize keeps the entries, and leaves more empty slots than entries.   *)
LEMMA ResizedIs ==
    ASSUME Setting, NEW t, Open(t)
    PROVE  LET u == Resized(t)
           IN  /\ Open(u) /\ u.cap = 2 * t.cap /\ u.size <= t.cap
               /\ \A x \in Key, w \in Value : HasPair(u, x, w) <=> HasPair(t, x, w)
<1>1. /\ Shape(t) /\ ~t.compr /\ Distinct(t)
      /\ t.cap \in Nat \ {0} /\ t.slot \in [Slots(t) -> Cell] /\ Slots(t) = 0 .. t.cap - 1
  BY ShapeFields DEF Open
<1>2. PICK c : /\ c[0] = Bigger(t)
               /\ \A p \in 1 .. t.cap : c[p] = Moved(c[p - 1], t.slot[p - 1])
               /\ Resized(t) = c[t.cap]
  BY <1>1, ResizedStepByStep
<1> DEFINE n == t.cap
           Right(u, p) ==
               /\ Open(u) /\ u.cap = 2 * n /\ u.size <= p
               /\ \A x \in Key, w \in Value :
                      HasPair(u, x, w) <=> \E j \in 0 .. p - 1 : t.slot[j] = Pair(x, w)
           S == {p \in 0 .. n : Right(c[p], p)}
<1>3. 0 \in S
  <2> DEFINE u == Bigger(t)
  <2>1. /\ Shape(u) /\ u.cap = 2 * n /\ u.compr = t.compr /\ u.size = 0
        /\ \A i \in Slots(u) : u.slot[i] = Unused
        /\ Used(u) = {}
    BY <1>1, BiggerFields
  <2> HIDE DEF u
  <2>2. Distinct(u) /\ Linked(u)
    BY <2>1 DEF Distinct, Linked
  <2>3. Cardinality(Used(u)) = 0
    BY <2>1, FS_EmptySet
  <2>4. Open(u)
    BY <1>1, <2>1, <2>2, <2>3 DEF Open
  <2>5. \A x \in Key, w \in Value : ~HasPair(u, x, w)
    BY <2>1, HoldsSlots
  <2>6. Right(u, 0)
    BY <1>1, <2>1, <2>4, <2>5
  <2> QED BY <1>1, <1>2, <2>6 DEF u
<1>4. ASSUME NEW p \in 0 .. n, p \in S, p < n
      PROVE  p + 1 \in S
  <2> DEFINE u == c[p]
             w0 == c[p + 1]
             e == t.slot[p]
  <2>1. p + 1 \in 1 .. n /\ (p + 1) - 1 = p /\ p \in Slots(t) /\ p \in Nat /\ n \in Nat
    BY <1>1, <1>4
  <2>2. w0 = Moved(u, e)
    BY <1>2, <2>1
  <2>3. Right(u, p)
    BY <1>4
  <2>4. e \in Cell
    BY <1>1, <2>1
  <2>5. \A j \in 0 .. (p + 1) - 1 : j \in 0 .. p - 1 \/ j = p
    BY <2>1
  <2>6. \A j \in 0 .. p - 1 : j \in 0 .. (p + 1) - 1 /\ j # p /\ j \in Slots(t)
    <3>1. p \in 0 .. n - 1 /\ Slots(t) = 0 .. n - 1 /\ n \in Nat
      BY <1>1, <2>1
    <3> HIDE DEF n
    <3> QED BY <3>1
  <2>7. p \in 0 .. (p + 1) - 1
    BY <2>1
  <2>8. u.size \in Int
    BY <2>3 DEF Open, Shape, Tables
  <2>9. CASE e = Unused
    <3>1. w0 = u
      BY <2>2, <2>9 DEF Moved
    <3>2. \A x \in Key, w \in Value : e # Pair(x, w)
      BY <2>9, EntriesAreUsed
    <3> HIDE DEF w0, u
    <3>3. \A x \in Key, w \in Value :
            (\E j \in 0 .. (p + 1) - 1 : t.slot[j] = Pair(x, w))
                <=> \E j \in 0 .. p - 1 : t.slot[j] = Pair(x, w)
      BY <2>5, <2>6, <3>2
    <3>4. u.size <= p + 1
      BY <2>1, <2>3, <2>8
    <3>5. Right(w0, p + 1)
      BY <2>3, <3>1, <3>3, <3>4
    <3> QED BY <2>1, <3>5 DEF w0
  <2>10. CASE e # Unused
    <3> DEFINE k == e.key
               v == e.value
    <3>1. k \in Key /\ v \in Value /\ e = Pair(k, v) /\ p \in Used(t)
      BY <2>1, <2>4, <2>10, EntriesAreUsed DEF Used
    <3>2. w0 = Place(u, k, v)
      BY <2>2, <2>10 DEF Moved
    <3>3. u.size < u.cap
      BY <1>4, <2>1, <2>3, <2>8
    <3> HIDE DEF w0, u, k, v
    <3>4. /\ Open(w0) /\ w0.cap = u.cap
          /\ w0.size \in {u.size, u.size + 1}
          /\ \A x \in Key, w \in Value :
                 HasPair(w0, x, w) <=> (x = k /\ w = v) \/ (x # k /\ HasPair(u, x, w))
      BY <2>3, <3>1, <3>2, <3>3, OpenPut
    <3>5. ASSUME NEW x \in Key, NEW w \in Value
          PROVE  HasPair(w0, x, w) <=> \E j \in 0 .. (p + 1) - 1 : t.slot[j] = Pair(x, w)
      <4>1. Pair(x, w).key = x /\ Pair(x, w).value = w /\ Pair(k, v).key = k /\ Pair(k, v).value = v
        BY <3>1, EntriesAreUsed
      <4>2. \A j \in 0 .. p - 1 : t.slot[j] = Pair(x, w) => x # k
        <5> SUFFICES ASSUME NEW j \in 0 .. p - 1, t.slot[j] = Pair(x, w), x = k PROVE FALSE
          OBVIOUS
        <5>1. j \in Used(t)
          BY <2>6, EntriesAreUsed DEF Used
        <5>2. t.slot[j].key = t.slot[p].key
          BY <3>1, <4>1
        <5>3. j = p
          BY <1>1, <3>1, <5>1, <5>2 DEF Distinct
        <5> QED BY <2>6, <5>3
      <4>3. HasPair(u, x, w) <=> \E j \in 0 .. p - 1 : t.slot[j] = Pair(x, w)
        BY <2>3
      <4>4. t.slot[p] = Pair(x, w) <=> x = k /\ w = v
        BY <3>1, <4>1
      <4> QED BY <2>5, <2>6, <2>7, <3>4, <4>2, <4>3, <4>4
    <3>6. w0.size <= p + 1
      BY <2>1, <2>3, <2>8, <3>4
    <3>7. Right(w0, p + 1)
      BY <2>3, <3>4, <3>5, <3>6
    <3> QED BY <2>1, <3>7 DEF w0
  <2> QED
    BY <2>9, <2>10
<1>5. S = 0 .. n
  <2>1. S \in SUBSET (0 .. n) /\ n \in Nat
    BY <1>1
  <2> HIDE DEF S, n
  <2> QED BY <1>3, <1>4, <2>1, IntervalInduction
<1>6. Right(c[n], n)
  <2>1. n \in 0 .. n
    BY <1>1
  <2> QED BY <1>5, <2>1
<1>7. \A x \in Key, w \in Value :
        HasPair(t, x, w) <=> \E j \in 0 .. n - 1 : t.slot[j] = Pair(x, w)
  BY <1>1 DEF HasPair
<1> QED
  BY <1>2, <1>6, <1>7

(* An open table with room for one more entry, as the load test leaves it. *)
Roomy(t) == Open(t) /\ t.cap > 2 /\ 2 * t.size <= t.cap + 2

LEMMA InsertedIs ==
    ASSUME Setting, NEW t, Roomy(t), NEW k \in Key, NEW v \in Value
    PROVE  LET u == Inserted(t, k, v)
           IN  /\ ProbeEnds(Grown(t), k)
               /\ Roomy(u) /\ u.sum = SumOf(u)
               /\ \A x \in Key, w \in Value :
                      HasPair(u, x, w) <=> (x = k /\ w = v) \/ (x # k /\ HasPair(t, x, w))
<1> DEFINE g == Grown(t)
           u == Place(g, k, v)
<1>1. Open(t) /\ t.cap \in Nat /\ t.cap > 2 /\ t.size \in Int /\ ~t.compr
  BY ShapeFields DEF Roomy, Open
<1>2. /\ Open(g) /\ g.cap \in Nat /\ g.cap > 2 /\ g.size \in Int /\ 2 * g.size <= g.cap
      /\ \A x \in Key, w \in Value : HasPair(g, x, w) <=> HasPair(t, x, w)
  <2>1. CASE Loaded(t)
    <3>1. g = Resized(t)
      BY <1>1, <2>1 DEF Grown
    <3>2. /\ Open(g) /\ g.cap = 2 * t.cap /\ g.size <= t.cap
          /\ \A x \in Key, w \in Value : HasPair(g, x, w) <=> HasPair(t, x, w)
      BY <1>1, <3>1, ResizedIs
    <3> HIDE DEF g
    <3>3. g.size \in Int
      BY <3>2, ShapeFields DEF Open
    <3> QED BY <1>1, <3>2, <3>3
  <2>2. CASE ~Loaded(t)
    <3>1. g = t
      BY <2>2 DEF Grown
    <3> HIDE DEF g
    <3> QED BY <1>1, <2>2, <3>1 DEF Loaded
  <2> QED BY <2>1, <2>2
<1>3. Inserted(t, k, v) = u
  BY DEF Inserted
<1> HIDE DEF g
<1>4. g.size < g.cap
  BY <1>2
<1>5. /\ ProbeEnds(g, k)
      /\ Open(u) /\ u.cap = g.cap /\ u.sum = SumOf(u)
      /\ u.size \in {g.size, g.size + 1}
      /\ \A x \in Key, w \in Value :
             HasPair(u, x, w) <=> (x = k /\ w = v) \/ (x # k /\ HasPair(g, x, w))
  BY <1>2, <1>4, OpenPut
<1> HIDE DEF u
<1>6. Roomy(u)
  BY <1>2, <1>5 DEF Roomy
<1> QED
  BY <1>2, <1>3, <1>5, <1>6 DEF g

LEMMA RoomyHasUnused ==
    ASSUME NEW t, Roomy(t)
    PROVE  t.size < t.cap /\ \E z \in Slots(t) : t.slot[z] = Unused
<1>1. Shape(t) /\ t.cap \in Nat /\ t.cap > 2 /\ t.size \in Int /\ 2 * t.size <= t.cap + 2
      /\ t.size = Cardinality(Used(t))
  BY ShapeFields DEF Roomy, Open
<1>2. t.size < t.cap
  BY <1>1
<1> QED
  BY <1>1, <1>2, UnusedExists

(* Where the probe of a key ends in a roomy table.                         *)
LEMMA RoomyProbe ==
    ASSUME Setting, NEW t, Roomy(t), NEW k \in Key
    PROVE  /\ ProbeEnds(t, k) /\ Position(t, k) = Probe(t, k) /\ Probe(t, k) \in Slots(t)
           /\ \/ /\ ~Found(t, k)
                 /\ \A i \in Used(t) : t.slot[i].key # k
              \/ /\ Found(t, k)
                 /\ Probe(t, k) \in Used(t) /\ t.slot[Probe(t, k)].key = k
<1>1. Shape(t) /\ ~t.compr /\ Distinct(t) /\ Linked(t) /\ Used(t) \in SUBSET Slots(t)
  BY ShapeFields DEF Roomy, Open
<1>2. CASE \E i \in Used(t) : t.slot[i].key = k
  <2>1. PICK i \in Used(t) : t.slot[i].key = k
    BY <1>2
  <2>2. LinkedAt(t, i)
    BY <1>1 DEF Linked
  <2>3. ProbeEnds(t, k) /\ Probe(t, k) = i
    BY <1>1, <2>1, <2>2, ProbeFinds
  <2> QED BY <1>1, <2>1, <2>3 DEF Found, Position, Used
<1>3. CASE ~ \E i \in Used(t) : t.slot[i].key = k
  <2>1. PICK z \in Slots(t) : t.slot[z] = Unused
    BY RoomyHasUnused
  <2>2. ProbeEnds(t, k) /\ Probe(t, k) \in Slots(t) /\ t.slot[Probe(t, k)] = Unused
    BY <1>1, <1>3, <2>1, ProbeMisses
  <2> QED BY <1>1, <1>3, <2>2 DEF Found, Position
<1> QED
  BY <1>2, <1>3

-----------------------------------------------------------------------------
(* The slots after the one that is emptied.                                *)
After(t, i, d) == (i + d) % t.cap

LEMMA AfterIs ==
    ASSUME NEW t, t.cap \in Nat \ {0}, NEW i \in Slots(t)
    PROVE  /\ \A d \in 0 .. t.cap : After(t, i, d) \in Slots(t) /\ After(t, i, d) = Wrap(i + d, t.cap)
           /\ After(t, i, 0) = i /\ After(t, i, t.cap) = i
<1> DEFINE n == t.cap
<1>1. n \in Nat \ {0} /\ i \in 0 .. n - 1 /\ i \in Nat /\ Slots(t) = 0 .. n - 1
  BY DEF Slots
<1> HIDE DEF n
<1>2. i % n = i
  BY <1>1
<1>3. \A d \in 0 .. n : After(t, i, d) \in 0 .. n - 1 /\ After(t, i, d) = Wrap(i + d, n)
  BY <1>1, <1>2, WrapsAnywhere DEF After, n
<1>4. After(t, i, 0) = i /\ After(t, i, n) = i
  BY <1>1, <1>3 DEF Wrap
<1> QED
  BY <1>1, <1>3, <1>4 DEF n

LEMMA AfterIsInjective ==
    ASSUME NEW t, t.cap \in Nat \ {0}, NEW i \in Slots(t),
           NEW d \in 0 .. t.cap - 1, NEW e \in 0 .. t.cap - 1, After(t, i, d) = After(t, i, e)
    PROVE  d = e
<1>1. t.cap \in Nat \ {0} /\ i \in 0 .. t.cap - 1 /\ d \in 0 .. t.cap /\ e \in 0 .. t.cap
  BY DEF Slots
<1>2. Wrap(i + d, t.cap) = Wrap(i + e, t.cap)
  BY <1>1, AfterIs
<1> QED
  BY <1>1, <1>2 DEF Wrap

LEMMA AfterIsOnto ==
    ASSUME NEW t, t.cap \in Nat \ {0}, NEW i \in Slots(t), NEW z \in Slots(t)
    PROVE  \E d \in 0 .. t.cap - 1 : After(t, i, d) = z
<1> DEFINE n == t.cap
           d == IF z >= i THEN z - i ELSE (z - i) + n
<1>1. n \in Nat \ {0} /\ i \in 0 .. n - 1 /\ z \in 0 .. n - 1
  BY DEF Slots
<1> HIDE DEF n
<1>2. d \in 0 .. n - 1 /\ d \in 0 .. n /\ Wrap(i + d, n) = z
  BY <1>1 DEF Wrap
<1> HIDE DEF d
<1>3. After(t, i, d) = z
  BY <1>2, AfterIs DEF n
<1> QED
  BY <1>2, <1>3 DEF n

LEMMA ClusterIs ==
    ASSUME Setting, NEW t, Roomy(t), NEW i \in Used(t)
    PROVE  \E n \in 0 .. t.cap - 2 :
              /\ Cluster(t, i) = [d \in 1 .. n |-> After(t, i, d)]
              /\ \A d \in 0 .. n : After(t, i, d) \in Used(t)
              /\ t.slot[After(t, i, n + 1)] = Unused
<1>1. /\ t.cap \in Nat \ {0} /\ t.cap > 2 /\ Slots(t) = 0 .. t.cap - 1
      /\ i \in Slots(t) /\ t.slot[i] # Unused
  BY ShapeFields DEF Roomy, Open, Used
<1> DEFINE T == {d \in 1 .. t.cap : t.slot[After(t, i, d)] = Unused}
           First(d) == /\ t.slot[After(t, i, d)] = Unused \/ d = t.cap
                       /\ \A e \in 1 .. d - 1 : t.slot[After(t, i, e)] # Unused
           b == CHOOSE d \in 1 .. t.cap : First(d)
<1>2. PICK z \in Slots(t) : t.slot[z] = Unused
  BY RoomyHasUnused
<1>3. PICK d0 \in 0 .. t.cap - 1 : After(t, i, d0) = z
  BY <1>1, AfterIsOnto
<1>4. After(t, i, 0) = i /\ After(t, i, t.cap) = i
  BY <1>1, AfterIs
<1>5. d0 # 0 /\ d0 \in 1 .. t.cap - 1 /\ d0 \in T
  <2>1. d0 # 0
    BY <1>1, <1>2, <1>3, <1>4
  <2> QED BY <1>1, <1>2, <1>3, <2>1
<1>6. T # {} /\ T \subseteq Nat
  BY <1>5
<1>7. PICK g \in T : \A y \in T : g <= y
  BY <1>6, LeastNat
<1>8. g \in 1 .. t.cap /\ First(g)
  <2>1. \A e \in 1 .. g - 1 : e \in 1 .. t.cap /\ ~(g <= e)
    BY <1>1
  <2> QED BY <1>7, <2>1
<1>9. b \in 1 .. t.cap /\ First(b)
  <2> HIDE DEF First, T
  <2> QED BY <1>8
<1>10. Cluster(t, i) = [d \in 1 .. b - 1 |-> After(t, i, d)]
  BY DEF Cluster, After
<1> HIDE DEF b
<1>11. b <= d0
  BY <1>1, <1>5, <1>9
<1>12. b # t.cap
  BY <1>1, <1>5, <1>9, <1>11
<1>13. t.slot[After(t, i, b)] = Unused
  BY <1>9, <1>12
<1>14. b - 1 \in 0 .. t.cap - 2 /\ (b - 1) + 1 = b
  BY <1>1, <1>9, <1>12
<1>15. \A d \in 0 .. b - 1 : After(t, i, d) \in Used(t)
  <2> SUFFICES ASSUME NEW d \in 0 .. b - 1 PROVE After(t, i, d) \in Used(t)
    OBVIOUS
  <2>1. d \in 0 .. t.cap /\ (d = 0 \/ d \in 1 .. b - 1)
    BY <1>1, <1>9
  <2>2. After(t, i, d) \in Slots(t)
    BY <1>1, <2>1, AfterIs
  <2>3. t.slot[After(t, i, d)] # Unused
    BY <1>1, <1>4, <1>9, <2>1
  <2> QED BY <2>2, <2>3 DEF Used
<1> QED
  BY <1>10, <1>13, <1>14, <1>15

(* A probe that reaches the cluster goes on along it.                      *)
LEMMA Advance ==
    ASSUME Setting, NEW t, t.cap \in Nat \ {0}, NEW k \in Key, NEW i \in Slots(t),
           NEW g \in Nat, NEW r \in Nat, NEW x \in 0 .. t.cap,
           At(t, k, g) = After(t, i, r)
    PROVE  At(t, k, g + x) = After(t, i, r + x)
<1> DEFINE n == t.cap
           a == hash[k] + g
           b == i + r
<1>1. n \in Nat \ {0} /\ hash[k] \in Nat /\ i \in Nat /\ a \in Nat /\ b \in Nat /\ x \in 0 .. n
  BY DEF Setting, Slots
<1>2. At(t, k, g) = a % n /\ After(t, i, r) = b % n
  BY DEF At, After
<1>3. hash[k] + (g + x) = a + x /\ i + (r + x) = b + x
  BY <1>1
<1>4. At(t, k, g + x) = (a + x) % n /\ After(t, i, r + x) = (b + x) % n
  BY <1>3 DEF At, After
<1> HIDE DEF a, b, n
<1>5. (a + x) % n = Wrap((a % n) + x, n) /\ (b + x) % n = Wrap((b % n) + x, n)
  BY <1>1, WrapsAnywhere
<1> QED
  BY <1>2, <1>4, <1>5

(* So it ends in the cluster, when it ends at an entry: the slot behind    *)
(* the cluster is unused.                                                  *)
LEMMA ClusterEnds ==
    ASSUME Setting, NEW t, t.cap \in Nat \ {0}, NEW i \in Slots(t), NEW n \in 0 .. t.cap - 2,
           t.slot[After(t, i, n + 1)] = Unused,
           NEW k \in Key, NEW d \in Slots(t), Path(t, k, d), t.slot[At(t, k, d)] # Unused,
           NEW g \in 0 .. d, NEW r \in 0 .. n, At(t, k, g) = After(t, i, r)
    PROVE  r + (d - g) \in r .. n /\ At(t, k, d) = After(t, i, r + (d - g))
<1> DEFINE x == (n + 1) - r
<1>1. t.cap \in Nat /\ d \in 0 .. t.cap - 1 /\ x \in 0 .. t.cap /\ g \in Nat /\ r \in Nat
      /\ d - g \in 0 .. t.cap /\ g + (d - g) = d /\ r + x = n + 1 /\ g + x \in Nat
  BY DEF Slots
<1>2. At(t, k, g + x) = After(t, i, n + 1)
  BY <1>1, Advance
<1>3. At(t, k, d) = After(t, i, r + (d - g))
  BY <1>1, Advance
<1>4. ~(g + x \in 0 .. d - 1) /\ g + x # d
  BY <1>2 DEF Path
<1>5. d - g < x
  BY <1>1, <1>4
<1> QED
  BY <1>1, <1>3, <1>5

-----------------------------------------------------------------------------
(* Half way through a removal: the slots of the cluster that are still to  *)
(* be put back, the entries no probe for which passes one of those, and    *)
(* what holds when s of the n slots have been put back.                    *)
Pending(t, i, n, s) == {After(t, i, r) : r \in s + 1 .. n}

Clear(t, i, n, u, q, s) ==
    \E d \in Slots(t) :
        /\ At(u, u.slot[q].key, d) = q /\ Path(u, u.slot[q].key, d)
        /\ \A e \in 0 .. d - 1 : At(u, u.slot[q].key, e) \notin Pending(t, i, n, s)

Partly(t, i, n, u, s) ==
    /\ Shape(u) /\ u.cap = t.cap /\ ~u.compr
    /\ u.size = t.size - 1 /\ u.size = Cardinality(Used(u))
    /\ Distinct(u) /\ Used(u) \subseteq Used(t)
    /\ \A x \in Key, w \in Value :
           HasPair(u, x, w) <=> x # t.slot[i].key /\ HasPair(t, x, w)
    /\ \A q \in Pending(t, i, n, s) : u.slot[q] = t.slot[q]
    /\ \A q \in Used(u) : q \notin Pending(t, i, n, s) => Clear(t, i, n, u, q, s)

(* The cluster behind the slot i: n used slots and an unused one.          *)
Behind(t, i, n) ==
    /\ n \in 0 .. t.cap - 2
    /\ \A d \in 0 .. n : After(t, i, d) \in Used(t)
    /\ t.slot[After(t, i, n + 1)] = Unused

LEMMA VacatedIsPartly ==
    ASSUME Setting, NEW t, Roomy(t), NEW i \in Used(t), NEW n, Behind(t, i, n)
    PROVE  Partly(t, i, n, Vacated(t, i), 0)
<1> DEFINE u == Vacated(t, i)
           k == t.slot[i].key
<1>1. /\ Shape(t) /\ ~t.compr /\ Distinct(t) /\ Linked(t)
      /\ t.cap \in Nat \ {0} /\ t.slot \in [Slots(t) -> Cell] /\ t.size \in Int
      /\ t.size = Cardinality(Used(t)) /\ Slots(t) = 0 .. t.cap - 1
      /\ Used(t) \in SUBSET Slots(t) /\ IsFiniteSet(Used(t))
  BY ShapeFields DEF Roomy, Open
<1>2. i \in Slots(t)
  BY <1>1
<1>3. /\ Shape(u) /\ u.cap = t.cap /\ ~u.compr /\ u.size = t.size - 1
      /\ u.slot[i] = Unused /\ \A j \in Slots(t) \ {i} : u.slot[j] = t.slot[j]
      /\ Slots(u) = Slots(t) /\ Used(u) = Used(t) \ {i}
  BY <1>1, <1>2, VacatedFields
<1> HIDE DEF u
<1>4. k \in Key
  BY <1>1, EntriesAreUsed DEF Used
<1> HIDE DEF k
<1>5. u.size = Cardinality(Used(u))
  <2>1. Cardinality(Used(t) \ {i}) = Cardinality(Used(t)) - 1
    BY <1>1, FS_RemoveElement
  <2> QED BY <1>1, <1>3, <2>1
<1>6. \A j \in Used(u) : j \in Used(t) /\ j \in Slots(t) \ {i} /\ u.slot[j] = t.slot[j]
  BY <1>1, <1>3
<1>7. Distinct(u)
  BY <1>1, <1>6 DEF Distinct
<1>8. ASSUME NEW x \in Key, NEW w \in Value
      PROVE  HasPair(u, x, w) <=> x # k /\ HasPair(t, x, w)
  <2>1. HasPair(u, x, w) <=> \E j \in Used(u) : u.slot[j].key = x /\ u.slot[j].value = w
    BY <1>3, HoldsSlots
  <2>2. HasPair(t, x, w) <=> \E j \in Used(t) : t.slot[j].key = x /\ t.slot[j].value = w
    BY <1>1, HoldsSlots
  <2>3. \A j \in Used(t) : t.slot[j].key = k <=> j = i
    BY <1>1 DEF Distinct, k
  <2>4. \A j \in Used(t) : j \in Used(u) <=> j # i
    BY <1>3
  <2> QED BY <1>6, <2>1, <2>2, <2>3, <2>4
<1>9. n \in 0 .. t.cap - 2 /\ n \in Nat
  BY <1>1 DEF Behind
<1>10. \A r \in 0 .. n : r \in 0 .. t.cap - 1 /\ After(t, i, r) \in Used(t)
  BY <1>1, <1>9 DEF Behind
<1>11. After(t, i, 0) = i
  BY <1>1, <1>2, AfterIs
<1>12. \A r \in 0 + 1 .. n : r \in 0 .. n /\ After(t, i, r) # i
  <2>1. \A r \in 0 + 1 .. n : r \in 0 .. n /\ r # 0 /\ r \in 0 .. t.cap - 1 /\ 0 \in 0 .. t.cap - 1
    BY <1>1, <1>9
  <2> QED BY <1>1, <1>2, <1>11, <2>1, AfterIsInjective
<1>13. \A q \in Pending(t, i, n, 0) : u.slot[q] = t.slot[q]
  BY <1>1, <1>3, <1>10, <1>12 DEF Pending
<1>14. ASSUME NEW q \in Used(u), q \notin Pending(t, i, n, 0)
       PROVE  Clear(t, i, n, u, q, 0)
  <2> DEFINE b == u.slot[q].key
  <2>1. q \in Used(t) /\ b = t.slot[q].key /\ LinkedAt(t, q) /\ q # i
    BY <1>1, <1>6 DEF Linked
  <2>2. b \in Key
    BY <1>1, <2>1, EntriesAreUsed DEF Used
  <2> HIDE DEF b
  <2>3. PICK d \in Slots(t) : At(t, b, d) = q /\ Path(t, b, d)
    BY <2>1 DEF LinkedAt
  <2>4. \A e : At(u, b, e) = At(t, b, e)
    BY <1>3 DEF At
  <2>5. ASSUME NEW e \in 0 .. d - 1, NEW r \in 0 .. n, At(t, b, e) = After(t, i, r)
        PROVE  FALSE
    <3>1. e \in 0 .. d /\ d - e \in Nat /\ d - e > 0
      BY <1>1
    <3>2. t.slot[At(t, b, d)] # Unused
      BY <2>1, <2>3 DEF Used
    <3>3. r + (d - e) \in r .. n /\ At(t, b, d) = After(t, i, r + (d - e))
      <4>1. t.cap \in Nat \ {0} /\ n \in 0 .. t.cap - 2 /\ t.slot[After(t, i, n + 1)] = Unused
        BY <1>1, <1>9 DEF Behind
      <4>2. Path(t, b, d) /\ At(t, b, e) = After(t, i, r)
        BY <2>3, <2>5
      <4> QED BY <1>2, <2>2, <3>1, <3>2, <4>1, <4>2, ClusterEnds
    <3>4. r + (d - e) \in 0 + 1 .. n
      BY <1>9, <3>1, <3>3
    <3> QED BY <1>14, <2>3, <3>3, <3>4 DEF Pending
  <2>6. ASSUME NEW e \in 0 .. d - 1
        PROVE  u.slot[At(u, b, e)] # Unused /\ At(u, b, e) \notin Pending(t, i, n, 0)
    <3>1. t.slot[At(t, b, e)] # Unused
      BY <2>3 DEF Path
    <3>2. At(t, b, e) \in Slots(t)
      BY <1>1, <2>2, AtIs
    <3>3. 0 \in 0 .. n
      BY <1>9
    <3>4. At(t, b, e) # i
      BY <1>11, <2>5, <3>3
    <3>5. At(t, b, e) \notin Pending(t, i, n, 0)
      BY <1>12, <2>5 DEF Pending
    <3> QED BY <1>3, <2>4, <3>1, <3>2, <3>4, <3>5
  <2>7. Path(u, b, d) /\ At(u, b, d) = q
    BY <2>3, <2>4, <2>6 DEF Path
  <2> QED BY <2>6, <2>7 DEF Clear, b
<1>15. Used(u) \subseteq Used(t)
  BY <1>3
<1> QED
  BY <1>3, <1>5, <1>7, <1>8, <1>13, <1>14, <1>15 DEF Partly, u, k

LEMMA PutBackIsPartly ==
    ASSUME Setting, NEW t, Roomy(t), NEW i \in Used(t), NEW n, Behind(t, i, n),
           NEW s \in 0 .. n, s < n, NEW u, Partly(t, i, n, u, s)
    PROVE  Partly(t, i, n, PutBack(u, After(t, i, s + 1)), s + 1)
<1> DEFINE j == After(t, i, s + 1)
           k == u.slot[j].key
           v == u.slot[j].value
           w == Vacated(u, j)
           y == PutBack(u, j)
           p == Probe(w, k)
<1>1. /\ Shape(t) /\ ~t.compr /\ Distinct(t) /\ Linked(t)
      /\ t.cap \in Nat \ {0} /\ t.cap > 2 /\ t.slot \in [Slots(t) -> Cell] /\ t.size \in Int
      /\ 2 * t.size <= t.cap + 2
      /\ Slots(t) = 0 .. t.cap - 1 /\ Used(t) \in SUBSET Slots(t) /\ i \in Slots(t)
  BY ShapeFields DEF Roomy, Open
<1>2. n \in 0 .. t.cap - 2 /\ t.slot[After(t, i, n + 1)] = Unused /\ n \in Nat /\ s \in Nat
  BY <1>1 DEF Behind
<1>3. \A r \in 0 .. n : r \in 0 .. t.cap - 1 /\ After(t, i, r) \in Used(t)
  BY <1>1, <1>2 DEF Behind
<1>4. \A r, x \in 0 .. n : After(t, i, r) = After(t, i, x) => r = x
  <2> SUFFICES ASSUME NEW r \in 0 .. n, NEW x \in 0 .. n, After(t, i, r) = After(t, i, x)
               PROVE  r = x
    OBVIOUS
  <2>1. r \in 0 .. t.cap - 1 /\ x \in 0 .. t.cap - 1
    BY <1>3
  <2> QED BY <1>1, <2>1, AfterIsInjective
<1>5. s + 1 \in 0 .. n /\ s + 1 \in s + 1 .. n
  BY <1>2
<1>6. j \in Used(t) /\ j \in Slots(t) /\ t.slot[j] # Unused /\ j \in Pending(t, i, n, s)
  BY <1>1, <1>3, <1>5 DEF Pending, Used
<1>7. Pending(t, i, n, s) = Pending(t, i, n, s + 1) \union {j} /\ j \notin Pending(t, i, n, s + 1)
  <2>1. \A r \in s + 1 .. n : r = s + 1 \/ r \in (s + 1) + 1 .. n
    BY <1>2
  <2>2. \A r \in (s + 1) + 1 .. n : r \in s + 1 .. n /\ r \in 0 .. n /\ r # s + 1
    BY <1>2
  <2> QED BY <1>4, <1>5, <2>1, <2>2 DEF Pending
<1>8. \A q \in Pending(t, i, n, s) : q \in Used(t) /\ q \in Slots(t)
  <2>1. \A r \in s + 1 .. n : r \in 0 .. n
    BY <1>2
  <2> QED BY <1>1, <1>3, <2>1 DEF Pending
<1>9. /\ Shape(u) /\ u.cap = t.cap /\ ~u.compr
      /\ u.size = t.size - 1 /\ u.size = Cardinality(Used(u))
      /\ Distinct(u) /\ Used(u) \subseteq Used(t)
      /\ \A x \in Key, z \in Value :
             HasPair(u, x, z) <=> x # t.slot[i].key /\ HasPair(t, x, z)
      /\ \A q \in Pending(t, i, n, s) : u.slot[q] = t.slot[q]
      /\ \A q \in Used(u) : q \notin Pending(t, i, n, s) => Clear(t, i, n, u, q, s)
  BY DEF Partly
<1>10. u.slot \in [Slots(u) -> Cell] /\ Slots(u) = Slots(t) /\ IsFiniteSet(Used(u))
       /\ Used(u) \in SUBSET Slots(u)
  BY <1>9, ShapeFields DEF Slots
<1>11. u.slot[j] = t.slot[j] /\ j \in Used(u) /\ u.slot[j] # Unused
  BY <1>6, <1>9, <1>10 DEF Used
<1>12. k \in Key /\ v \in Value /\ u.slot[j] = Pair(k, v) /\ k = t.slot[j].key
  BY <1>6, <1>10, <1>11, EntriesAreUsed
<1> HIDE DEF j
<1>13. /\ Shape(w) /\ w.cap = t.cap /\ ~w.compr /\ w.size = t.size - 2
       /\ w.slot[j] = Unused /\ \A q \in Slots(t) \ {j} : w.slot[q] = u.slot[q]
       /\ Slots(w) = Slots(t) /\ Used(w) = Used(u) \ {j}
  <2>1. j \in Slots(u)
    BY <1>6, <1>10
  <2>2. /\ Shape(w) /\ w.cap = u.cap /\ w.compr = u.compr /\ w.size = u.size - 1
        /\ w.slot[j] = Unused /\ \A q \in Slots(u) \ {j} : w.slot[q] = u.slot[q]
        /\ Slots(w) = Slots(u) /\ Used(w) = Used(u) \ {j}
    BY <1>9, <2>1, VacatedFields
  <2> HIDE DEF w
  <2> QED BY <1>1, <1>9, <1>10, <2>2
<1>14. y = Place(w, k, v)
  <2> HIDE DEF w
  <2>1. ~Loaded(w)
    BY <1>1, <1>13 DEF Loaded
  <2>2. Grown(w) = w
    BY <2>1 DEF Grown
  <2> QED BY <2>2 DEF PutBack, Inserted, w
<1> HIDE DEF k, v, w, y
<1>15. \A q \in Used(w) : w.slot[q] = u.slot[q] /\ w.slot[q].key # k /\ q \in Slots(t) /\ q # j
  BY <1>10, <1>11, <1>12, <1>13 DEF Distinct, k, Partly
<1>16. /\ Shape(y) /\ y.cap = t.cap /\ ~y.compr /\ y.size = t.size - 1
       /\ p \in Slots(t) /\ w.slot[p] = Unused /\ y.slot[p] = Pair(k, v)
       /\ \A q \in Slots(t) \ {p} : y.slot[q] = w.slot[q]
       /\ Slots(y) = Slots(t) /\ Used(y) = Used(w) \union {p}
  <2>1. w.size + 1 = t.size - 1
    BY <1>1, <1>13
  <2> QED BY <1>6, <1>12, <1>13, <1>14, <1>15, <2>1, PutNew
<1>17. PICK f \in Slots(t) :
          /\ \A b \in Slots(t) : At(w, k, b) = j => f <= b
          /\ p = At(w, k, f) /\ Path(w, k, f)
  BY <1>6, <1>12, <1>13, <1>15, ProbeMisses
<1> HIDE DEF p
<1>18. PICK d \in Slots(t) : At(t, k, d) = j /\ Path(t, k, d)
  BY <1>1, <1>6, <1>12 DEF Linked, LinkedAt
<1>19. /\ \A e : At(u, k, e) = At(t, k, e) /\ At(w, k, e) = At(t, k, e) /\ At(y, k, e) = At(t, k, e)
       /\ f <= d /\ f \in Nat /\ d \in Nat
  <2>1. \A e : At(u, k, e) = At(t, k, e) /\ At(w, k, e) = At(t, k, e) /\ At(y, k, e) = At(t, k, e)
    BY <1>9, <1>13, <1>16 DEF At
  <2> QED BY <1>1, <1>17, <1>18, <2>1
(* The new place was used before the removal, and is no pending one.       *)
<1>20. p \in Used(t)
  <2>1. CASE f = d
    BY <1>6, <1>17, <1>18, <1>19, <2>1
  <2>2. CASE f # d
    <3>1. f \in 0 .. d - 1
      BY <1>19, <2>2
    <3> QED BY <1>16, <1>17, <1>18, <1>19, <3>1 DEF Path, Used
  <2> QED BY <2>1, <2>2
<1>21. p \notin Pending(t, i, n, s + 1) /\ p \notin Used(w)
  <2>1. \A q \in Pending(t, i, n, s + 1) : w.slot[q] # Unused
    <3> SUFFICES ASSUME NEW q \in Pending(t, i, n, s + 1) PROVE w.slot[q] # Unused
      OBVIOUS
    <3>1. q \in Pending(t, i, n, s) /\ q # j
      BY <1>7
    <3>2. w.slot[q] = t.slot[q] /\ q \in Used(t)
      BY <1>8, <1>9, <1>13, <3>1
    <3> QED BY <3>2 DEF Used
  <2> QED BY <1>16, <2>1 DEF Used
(* Its probe passes no pending slot: behind one the cluster goes on to an  *)
(* unused slot, and the entry was found before that.                       *)
<1>22. ASSUME NEW g \in 0 .. f - 1 PROVE At(t, k, g) \notin Pending(t, i, n, s)
  <2> SUFFICES ASSUME NEW r \in s + 1 .. n, At(t, k, g) = After(t, i, r) PROVE FALSE
    BY DEF Pending
  <2>1. r \in 0 .. n /\ g \in 0 .. d /\ d - g > 0 /\ r \in Nat /\ g \in Nat
    BY <1>2, <1>19
  <2>2. t.slot[At(t, k, d)] # Unused
    BY <1>6, <1>18
  <2>3. t.cap \in Nat \ {0} /\ n \in 0 .. t.cap - 2 /\ t.slot[After(t, i, n + 1)] = Unused
    BY <1>1, <1>2
  <2>4. r + (d - g) \in r .. n /\ At(t, k, d) = After(t, i, r + (d - g))
    <3>1. i \in Slots(t) /\ k \in Key /\ Path(t, k, d)
      BY <1>1, <1>12, <1>18
    <3> QED BY <2>1, <2>2, <2>3, <3>1, ClusterEnds
  <2>5. After(t, i, s + 1) = After(t, i, r + (d - g)) /\ r + (d - g) \in 0 .. n
    BY <1>2, <1>18, <2>1, <2>4 DEF j
  <2>6. s + 1 = r + (d - g)
    BY <1>4, <1>5, <2>5
  <2> QED BY <1>2, <1>19, <2>1, <2>6
(* What the table holds now.                                               *)
<1>23. \A q \in Used(w) : q \in Slots(t) \ {p} /\ y.slot[q] = u.slot[q]
  BY <1>15, <1>16, <1>21
<1>24. y.slot[p].key = k /\ y.slot[p].value = v
  BY <1>12, <1>16, EntriesAreUsed
<1>25. y.size = Cardinality(Used(y))
  <2>1. Cardinality(Used(u) \ {j}) = Cardinality(Used(u)) - 1 /\ IsFiniteSet(Used(u) \ {j})
    BY <1>10, <1>11, FS_RemoveElement
  <2>2. Cardinality(Used(w) \union {p}) = Cardinality(Used(w)) + 1
    BY <1>13, <1>21, <2>1, FS_AddElement
  <2> QED BY <1>1, <1>9, <1>13, <1>16, <2>1, <2>2
<1>26. Distinct(y)
  <2>1. \A a, b \in Used(w) : u.slot[a].key = u.slot[b].key => a = b
    BY <1>9, <1>13 DEF Distinct
  <2>2. \A a \in Used(w) : y.slot[a].key # k
    BY <1>15, <1>23
  <2> QED BY <1>16, <1>23, <1>24, <2>1, <2>2 DEF Distinct
<1>27. Used(y) \subseteq Used(t)
  BY <1>9, <1>13, <1>16, <1>20
<1>28. ASSUME NEW x \in Key, NEW z \in Value
       PROVE  HasPair(y, x, z) <=> x # t.slot[i].key /\ HasPair(t, x, z)
  <2>1. HasPair(y, x, z) <=> \E q \in Used(y) : y.slot[q].key = x /\ y.slot[q].value = z
    BY <1>16, HoldsSlots
  <2>2. HasPair(u, x, z) <=> \E q \in Used(u) : u.slot[q].key = x /\ u.slot[q].value = z
    BY <1>9, HoldsSlots
  <2>3. \A q \in Used(u) : q \in Used(w) \/ q = j
    BY <1>13
  <2>4. \A q \in Used(w) : q \in Used(u)
    BY <1>13
  <2>5. HasPair(y, x, z) <=> HasPair(u, x, z)
    BY <1>11, <1>16, <1>23, <1>24, <2>1, <2>2, <2>3, <2>4 DEF k, v
  <2> QED BY <1>9, <2>5
<1>29. ASSUME NEW q \in Pending(t, i, n, s + 1) PROVE y.slot[q] = t.slot[q]
  <2>1. q \in Pending(t, i, n, s) /\ q # j /\ q # p /\ q \in Slots(t)
    BY <1>7, <1>8, <1>21
  <2> QED BY <1>9, <1>13, <1>16, <2>1
<1>30. ASSUME NEW q \in Used(y), q \notin Pending(t, i, n, s + 1)
       PROVE  Clear(t, i, n, y, q, s + 1)
  <2>1. \A a \in Slots(t) : w.slot[a] # Unused => y.slot[a] # Unused
    BY <1>16, <1>21 DEF Used
  <2>2. CASE q = p
    <3>1. \A e \in 0 .. f - 1 : /\ At(y, k, e) \notin Pending(t, i, n, s + 1)
                                /\ y.slot[At(y, k, e)] # Unused
      <4> SUFFICES ASSUME NEW e \in 0 .. f - 1
                   PROVE  /\ At(y, k, e) \notin Pending(t, i, n, s + 1)
                          /\ y.slot[At(y, k, e)] # Unused
        OBVIOUS
      <4>1. e \in Slots(t)
        BY <1>1
      <4>2. At(t, k, e) \in Slots(t)
        BY <1>1, <1>12, <4>1, AtIs
      <4>3. w.slot[At(w, k, e)] # Unused
        BY <1>17 DEF Path
      <4> QED BY <1>7, <1>19, <1>22, <2>1, <4>2, <4>3
    <3> QED BY <1>17, <1>19, <1>24, <2>2, <3>1 DEF Clear, Path
  <2>3. CASE q # p
    <3> DEFINE b == u.slot[q].key
    <3>1. q \in Used(w) /\ q \in Used(u) /\ q # j /\ y.slot[q].key = b
      BY <1>13, <1>16, <1>23, <2>3
    <3>2. q \notin Pending(t, i, n, s)
      BY <1>7, <1>30, <3>1
    <3>3. b \in Key
      BY <1>10, <3>1, EntriesAreUsed DEF Used
    <3>4. PICK c \in Slots(t) :
             /\ At(u, b, c) = q /\ Path(u, b, c)
             /\ \A e \in 0 .. c - 1 : At(u, b, e) \notin Pending(t, i, n, s)
      BY <1>9, <3>1, <3>2 DEF Clear
    <3> HIDE DEF b
    <3>5. \A e : At(y, b, e) = At(u, b, e) /\ At(u, b, e) = At(t, b, e)
      BY <1>9, <1>16 DEF At
    <3>6. \A e \in 0 .. c - 1 : /\ At(y, b, e) \notin Pending(t, i, n, s + 1)
                                /\ y.slot[At(y, b, e)] # Unused
      <4> SUFFICES ASSUME NEW e \in 0 .. c - 1
                   PROVE  /\ At(y, b, e) \notin Pending(t, i, n, s + 1)
                          /\ y.slot[At(y, b, e)] # Unused
        OBVIOUS
      <4>1. e \in Slots(t)
        BY <1>1
      <4>2. At(t, b, e) \in Slots(t)
        BY <1>1, <3>3, <4>1, AtIs
      <4>3. u.slot[At(u, b, e)] # Unused /\ At(u, b, e) \notin Pending(t, i, n, s)
        BY <3>4 DEF Path
      <4>4. At(u, b, e) # j
        BY <1>7, <4>3
      <4>5. w.slot[At(u, b, e)] # Unused
        BY <1>13, <3>5, <4>2, <4>3, <4>4
      <4> QED BY <1>7, <2>1, <3>5, <4>2, <4>3, <4>5
    <3>7. At(y, b, c) = q /\ Path(y, b, c)
      BY <3>4, <3>5, <3>6 DEF Path
    <3> QED BY <3>1, <3>6, <3>7 DEF Clear
  <2> QED BY <2>2, <2>3
<1>31. Partly(t, i, n, y, s + 1)
  BY <1>16, <1>25, <1>26, <1>27, <1>28, <1>29, <1>30 DEF Partly
<1> QED
  BY <1>31 DEF y, j

(* A removal takes out the entry of its key and restores the links.        *)
LEMMA WithoutIs ==
    ASSUME Setting, NEW t, Roomy(t), NEW k \in Key, Found(t, k)
    PROVE  LET u == Without(t, k)
           IN  /\ Roomy(u) /\ u.sum = SumOf(u)
               /\ \A x \in Key, w \in Value : HasPair(u, x, w) <=> x # k /\ HasPair(t, x, w)
<1> DEFINE i == Position(t, k)
           c0 == LaterCluster(t, k)
           e == Emptied(t, k)
<1>1. i \in Used(t) /\ t.slot[i].key = k
  BY RoomyProbe
<1>2. /\ t.cap \in Nat \ {0} /\ t.cap > 2 /\ ~t.compr /\ t.size \in Int /\ 2 * t.size <= t.cap + 2
      /\ Slots(t) = 0 .. t.cap - 1 /\ i \in Slots(t)
  BY <1>1, ShapeFields DEF Roomy, Open
<1> HIDE DEF i
<1>6. c0 = Cluster(t, i)
  BY <1>2 DEF LaterCluster, i
<1>3. PICK n \in 0 .. t.cap - 2 :
         /\ c0 = [d \in 1 .. n |-> After(t, i, d)]
         /\ \A d \in 0 .. n : After(t, i, d) \in Used(t)
         /\ t.slot[After(t, i, n + 1)] = Unused
  BY <1>1, <1>6, ClusterIs
<1>4. Behind(t, i, n) /\ n \in Nat
  BY <1>2, <1>3 DEF Behind
<1> HIDE DEF c0
<1>5. c0 \in Seq(Nat) /\ Len(c0) = n /\ \A d \in 1 .. n : c0[d] = After(t, i, d)
  <2>1. \A d \in 1 .. n : After(t, i, d) \in Nat
    <3> SUFFICES ASSUME NEW d \in 1 .. n PROVE After(t, i, d) \in Nat
      OBVIOUS
    <3>1. d \in 0 .. t.cap
      BY <1>2, <1>4
    <3>2. After(t, i, d) \in Slots(t)
      BY <1>2, <3>1, AfterIs
    <3> QED BY <1>2, <3>2
  <2> QED BY <1>3, <1>4, <2>1
<1>7. PICK c : /\ c[0] = Vacated(t, i)
               /\ \A p \in 1 .. n : c[p] = PutBack(c[p - 1], c0[p])
               /\ e = c[n]
  <2>1. LaterCluster(t, k) \in Seq(Nat)
    BY <1>5 DEF c0
  <2>2. \E c : /\ c[0] = Vacated(t, Position(t, k))
               /\ \A p \in 1 .. Len(LaterCluster(t, k)) : c[p] = PutBack(c[p - 1], LaterCluster(t, k)[p])
               /\ Emptied(t, k) = c[Len(LaterCluster(t, k))]
    BY <2>1, EmptiedStepByStep
  <2> QED BY <1>5, <2>2 DEF i, c0
<1> HIDE DEF e
<1> DEFINE S == {p \in 0 .. n : Partly(t, i, n, c[p], p)}
<1>8. 0 \in S
  <2>1. Partly(t, i, n, Vacated(t, i), 0)
    BY <1>1, <1>4, VacatedIsPartly
  <2> QED BY <1>4, <1>7, <2>1
<1>9. ASSUME NEW p \in 0 .. n, p \in S, p < n PROVE p + 1 \in S
  <2>1. p + 1 \in 1 .. n /\ p + 1 \in 0 .. n /\ (p + 1) - 1 = p
    BY <1>4, <1>9
  <2>2. c[p + 1] = PutBack(c[p], After(t, i, p + 1))
    BY <1>5, <1>7, <2>1
  <2>3. Partly(t, i, n, c[p + 1], p + 1)
    BY <1>1, <1>4, <1>9, <2>2, PutBackIsPartly
  <2> QED BY <2>1, <2>3
<1>10. Partly(t, i, n, e, n)
  <2>1. S \in SUBSET (0 .. n) /\ n \in 0 .. n
    BY <1>4
  <2>2. S = 0 .. n
    <3> HIDE DEF S
    <3> QED BY <1>4, <1>8, <1>9, <2>1, IntervalInduction
  <2> QED BY <1>7, <2>1, <2>2
<1>11. Pending(t, i, n, n) = {}
  BY <1>4 DEF Pending
<1>12. /\ Shape(e) /\ e.cap = t.cap /\ ~e.compr
       /\ e.size = t.size - 1 /\ e.size = Cardinality(Used(e)) /\ Distinct(e)
       /\ \A x \in Key, w \in Value : HasPair(e, x, w) <=> x # k /\ HasPair(t, x, w)
       /\ \A q \in Used(e) : Clear(t, i, n, e, q, n)
  BY <1>1, <1>10, <1>11 DEF Partly
<1>13. Linked(e)
  BY <1>12 DEF Linked, LinkedAt, Clear, Slots
<1>14. Without(t, k) = Updated(e)
  BY DEF Without, e
<1> DEFINE u == Updated(e)
<1>15. /\ Shape(u) /\ u.cap = e.cap /\ u.size = e.size
       /\ u.compr = e.compr /\ u.slot = e.slot /\ u.sum = SumOf(e)
       /\ Slots(u) = Slots(e) /\ Used(u) = Used(e) /\ SumOf(u) = SumOf(e)
  BY <1>12, UpdatedFields, SumsAlike
<1> HIDE DEF u
<1>16. Distinct(u) /\ Linked(u)
  <2>1. \A x, d : At(u, x, d) = At(e, x, d)
    BY <1>15 DEF At
  <2> QED BY <1>12, <1>13, <1>15, <2>1 DEF Distinct, Linked, LinkedAt, Path
<1>17. \A x \in Key, w \in Value : HasPair(u, x, w) <=> HasPair(e, x, w)
  BY <1>15 DEF HasPair
<1>18. Roomy(u)
  BY <1>2, <1>12, <1>15, <1>16 DEF Roomy, Open
<1> QED
  BY <1>12, <1>14, <1>15, <1>17, <1>18 DEF u

-----------------------------------------------------------------------------
(* The two forms of a table between calls, and its checksum.               *)
InPlace(t) ==
    /\ Shape(t) /\ t.compr
    /\ \A i \in Used(t) : t.slot[i].key = i
    /\ t.size = Cardinality(Used(t))

Sound(t) == (Roomy(t) \/ InPlace(t)) /\ t.sum = SumOf(t)

LEMMA SoundTable ==
    ASSUME Setting, NEW t, Sound(t)
    PROVE  /\ Shape(t) /\ Distinct(t) /\ t.size = Cardinality(Used(t))
           /\ \A i \in Used(t) : /\ i \in Slots(t) /\ t.slot[i] # Unused /\ t.slot[i] \in Entry
                                 /\ t.slot[i].key \in Key /\ t.slot[i].value \in Value
           /\ \A x \in Key, v, w \in Value : HasPair(t, x, v) /\ HasPair(t, x, w) => v = w
<1>1. Shape(t) /\ Distinct(t) /\ t.size = Cardinality(Used(t))
  BY DEF Sound, Roomy, Open, InPlace, Distinct
<1>2. t.slot \in [Slots(t) -> Cell]
  BY <1>1, ShapeFields
<1>3. \A i \in Used(t) : /\ i \in Slots(t) /\ t.slot[i] # Unused /\ t.slot[i] \in Entry
                         /\ t.slot[i].key \in Key /\ t.slot[i].value \in Value
  BY <1>2, EntriesAreUsed DEF Used
<1>4. ASSUME NEW x \in Key, NEW v \in Value, NEW w \in Value, HasPair(t, x, v), HasPair(t, x, w)
      PROVE  v = w
  <2>1. PICK i \in Used(t) : t.slot[i].key = x /\ t.slot[i].value = v
    BY <1>1, <1>4, HoldsSlots
  <2>2. PICK j \in Used(t) : t.slot[j].key = x /\ t.slot[j].value = w
    BY <1>1, <1>4, HoldsSlots
  <2> QED BY <1>1, <2>1, <2>2 DEF Distinct
<1> QED
  BY <1>1, <1>3, <1>4

(* A lookup finds exactly what the table holds.                            *)
LEMMA Answers ==
    ASSUME Setting, NEW t, Sound(t), NEW k \in Key
    PROVE  /\ ProbeEnds(t, k)
           /\ Found(t, k) => Lookup(t, k) \in Value /\ HasPair(t, k, Lookup(t, k))
           /\ ~Found(t, k) => Lookup(t, k) = Absent /\ \A v \in Value : ~HasPair(t, k, v)
<1>1. /\ Shape(t) /\ Distinct(t)
      /\ \A i \in Used(t) : /\ i \in Slots(t) /\ t.slot[i] # Unused /\ t.slot[i] \in Entry
                            /\ t.slot[i].key \in Key /\ t.slot[i].value \in Value
  BY SoundTable
<1>2. /\ ProbeEnds(t, k)
      /\ Found(t, k) => Position(t, k) \in Used(t) /\ t.slot[Position(t, k)].key = k
      /\ ~Found(t, k) => \A i \in Used(t) : t.slot[i].key # k
  <2>1. CASE Roomy(t)
    BY <2>1, RoomyProbe
  <2>2. CASE InPlace(t)
    <3>1. Position(t, k) = k /\ t.compr /\ (Found(t, k) <=> k < t.cap /\ t.slot[k] # Unused)
      BY <2>2 DEF InPlace, Position, Found
    <3>2. k \in Nat /\ t.cap \in Nat
      BY <1>1, ShapeFields DEF Setting, ConstantsOK
    <3>3. k \in Slots(t) <=> k < t.cap
      BY <3>2 DEF Slots
    <3> QED BY <1>1, <2>2, <3>1, <3>3 DEF InPlace, ProbeEnds, Used
  <2> QED BY <2>1, <2>2 DEF Sound
<1>3. CASE Found(t, k)
  <2> DEFINE i == Position(t, k)
  <2>1. i \in Used(t) /\ t.slot[i].key = k /\ Lookup(t, k) = t.slot[i].value
    BY <1>2, <1>3 DEF Lookup
  <2> HIDE DEF i
  <2> QED BY <1>1, <1>2, <1>3, <2>1, HoldsSlots
<1>4. CASE ~Found(t, k)
  <2>1. Lookup(t, k) = Absent
    BY <1>4 DEF Lookup
  <2>2. \A v \in Value : ~HasPair(t, k, v)
    BY <1>1, <1>2, <1>4, HoldsSlots
  <2> QED BY <1>2, <1>4, <2>1, <2>2
<1> QED
  BY <1>3, <1>4

LEMMA ContentsAre ==
    ASSUME Setting, NEW t, Sound(t)
    PROVE  /\ Contents(t) \in [Key -> Value \union {Absent}] /\ Absent \notin Value
           /\ \A k \in Key, v \in Value : Contents(t)[k] = v <=> HasPair(t, k, v)
<1>1. /\ Shape(t) /\ Distinct(t)
      /\ \A i \in Used(t) : /\ i \in Slots(t) /\ t.slot[i] # Unused /\ t.slot[i] \in Entry
                            /\ t.slot[i].key \in Key /\ t.slot[i].value \in Value
  BY SoundTable
<1>2. Absent \notin Value
  BY DEF Setting, ConstantsOK, Absent
<1>3. ASSUME NEW k \in Key
      PROVE  /\ Contents(t)[k] \in Value \union {Absent}
             /\ \A v \in Value : Contents(t)[k] = v <=> HasPair(t, k, v)
  <2>1. \A i \in Slots(t) : t.slot[i].key = k => i \in Used(t)
    BY EntriesAreUsed DEF Used
  <2>2. CASE \E i \in Slots(t) : t.slot[i].key = k
    <3> DEFINE j == CHOOSE i \in Slots(t) : t.slot[i].key = k
    <3>1. j \in Slots(t) /\ t.slot[j].key = k
      BY <2>2
    <3>2. Contents(t)[k] = t.slot[j].value
      BY <2>2 DEF Contents
    <3> HIDE DEF j
    <3>3. j \in Used(t) /\ t.slot[j].value \in Value
      BY <1>1, <2>1, <3>1
    <3>4. \A i \in Used(t) : t.slot[i].key = k => i = j
      BY <1>1, <3>1, <3>3 DEF Distinct
    <3>5. \A v \in Value : HasPair(t, k, v) <=> t.slot[j].value = v
      BY <1>1, <3>1, <3>3, <3>4, HoldsSlots
    <3> QED BY <3>2, <3>3, <3>5
  <2>3. CASE ~ \E i \in Slots(t) : t.slot[i].key = k
    <3>1. Contents(t)[k] = Absent
      BY <2>3 DEF Contents
    <3>2. \A v \in Value : ~HasPair(t, k, v)
      BY <1>1, <2>3, HoldsSlots
    <3> QED BY <1>2, <3>1, <3>2
  <2> QED BY <2>2, <2>3
<1>4. Contents(t) \in [Key -> Value \union {Absent}]
  BY <1>3 DEF Contents
<1> QED
  BY <1>2, <1>3, <1>4

(* Tables that hold the same have the same contents.                       *)
LEMMA SameContents ==
    ASSUME Setting, NEW t, Sound(t), NEW u, Sound(u)
    PROVE  Contents(t) = Contents(u)
             <=> \A x \in Key, w \in Value : HasPair(t, x, w) <=> HasPair(u, x, w)
<1> DEFINE a == Contents(t)
           b == Contents(u)
<1>1. /\ a \in [Key -> Value \union {Absent}] /\ b \in [Key -> Value \union {Absent}]
      /\ Absent \notin Value
      /\ \A k \in Key, v \in Value : a[k] = v <=> HasPair(t, k, v)
      /\ \A k \in Key, v \in Value : b[k] = v <=> HasPair(u, k, v)
  BY ContentsAre
<1> HIDE DEF a, b
<1>2. ASSUME \A x \in Key, w \in Value : HasPair(t, x, w) <=> HasPair(u, x, w)
      PROVE  a = b
  <2>1. \A k \in Key : a[k] = b[k]
    BY <1>1, <1>2
  <2> QED BY <1>1, <2>1
<1>3. ASSUME a = b, NEW x \in Key, NEW w \in Value
      PROVE  HasPair(t, x, w) <=> HasPair(u, x, w)
  BY <1>1, <1>3
<1> QED
  BY <1>2, <1>3 DEF a, b

(* A put and a removal change the contents at their key.                   *)
HoldsAlso(u, t, k, v) ==
    \A x \in Key, w \in Value :
        HasPair(u, x, w) <=> (x = k /\ w = v) \/ (x # k /\ HasPair(t, x, w))

LEMMA ContentsPut ==
    ASSUME Setting, NEW t, Sound(t), NEW u, Sound(u), NEW k \in Key, NEW v \in Value,
           HoldsAlso(u, t, k, v)
    PROVE  Contents(u) = [Contents(t) EXCEPT ![k] = v]
<1> DEFINE a == Contents(t)
           b == Contents(u)
<1>1. /\ a \in [Key -> Value \union {Absent}] /\ b \in [Key -> Value \union {Absent}]
      /\ Absent \notin Value
      /\ \A x \in Key, w \in Value : a[x] = w <=> HasPair(t, x, w)
      /\ \A x \in Key, w \in Value : b[x] = w <=> HasPair(u, x, w)
  BY ContentsAre
<1> HIDE DEF a, b
<1>2. b[k] = v
  BY <1>1 DEF HoldsAlso
<1>3. \A x \in Key : x # k => b[x] = a[x]
  BY <1>1 DEF HoldsAlso
<1>4. b = [a EXCEPT ![k] = v]
  BY <1>1, <1>2, <1>3
<1> QED
  BY <1>4 DEF a, b

LEMMA ContentsRemove ==
    ASSUME Setting, NEW t, Sound(t), NEW u, Sound(u), NEW k \in Key,
           \A x \in Key, w \in Value : HasPair(u, x, w) <=> x # k /\ HasPair(t, x, w)
    PROVE  Contents(u) = [Contents(t) EXCEPT ![k] = Absent]
<1> DEFINE a == Contents(t)
           b == Contents(u)
<1>1. /\ a \in [Key -> Value \union {Absent}] /\ b \in [Key -> Value \union {Absent}]
      /\ Absent \notin Value
      /\ \A x \in Key, w \in Value : a[x] = w <=> HasPair(t, x, w)
      /\ \A x \in Key, w \in Value : b[x] = w <=> HasPair(u, x, w)
  BY ContentsAre
<1> HIDE DEF a, b
<1>2. b[k] = Absent
  BY <1>1
<1>3. \A x \in Key : x # k => b[x] = a[x]
  BY <1>1
<1>4. b = [a EXCEPT ![k] = Absent]
  BY <1>1, <1>2, <1>3
<1> QED
  BY <1>4 DEF a, b

-----------------------------------------------------------------------------
(* The empty map.                                                          *)
LEMMA NewIsSound ==
    ASSUME Setting
    PROVE  /\ Sound(NewMap) /\ ~NewMap.compr
           /\ \A x \in Key, w \in Value : ~HasPair(NewMap, x, w)
<1> DEFINE u == NewMap
           s == EmptySlots(InitialCapacity)
<1>1. InitialCapacity \in Nat \ {0} /\ InitialCapacity > 2
  BY DEF Setting, ConstantsOK
<1>2. s \in [0 .. InitialCapacity - 1 -> Cell] /\ \A i \in 0 .. InitialCapacity - 1 : s[i] = Unused
  BY DEF EmptySlots, Cell
<1>3. s \in Rows
  BY <1>1, <1>2 DEF Rows
<1>4. /\ u.cap = InitialCapacity /\ ~u.compr /\ u.slot = s /\ u.size = 0
      /\ u.sum = [odd |-> {}, size |-> 0]
  BY DEF NewMap
<1>5. u \in Tables
  <2>1. [odd |-> {}, size |-> 0] \in Sums
    BY DEF Sums
  <2> HIDE DEF s
  <2> QED BY <1>1, <1>3, <2>1 DEF NewMap, Tables, s
<1> HIDE DEF u, s
<1>6. Slots(u) = 0 .. InitialCapacity - 1
  BY <1>4 DEF Slots
<1>7. \A i \in Slots(u) : u.slot[i] = Unused
  BY <1>2, <1>4, <1>6
<1>8. Used(u) = {}
  BY <1>7 DEF Used
<1>9. Shape(u)
  BY <1>2, <1>4, <1>5, <1>6 DEF Shape
<1>10. Roomy(u)
  <2>1. Cardinality(Used(u)) = 0
    BY <1>8, FS_EmptySet
  <2> QED BY <1>1, <1>4, <1>8, <1>9, <2>1 DEF Roomy, Open, Distinct, Linked
<1>11. u.sum = SumOf(u)
  <2>1. \A x : Occurs(u, x) = 0
    <3>1. Cardinality({}) = 0
      BY FS_EmptySet
    <3>2. \A x : {i \in Used(u) : u.slot[i].key = x} = {} /\ {i \in Used(u) : u.slot[i].value = x} = {}
      BY <1>8
    <3> QED BY <3>1, <3>2 DEF Occurs
  <2>2. {x \in Key \union Value : Occurs(u, x) % 2 = 1} = {}
    BY <2>1
  <2> QED BY <1>4, <2>2 DEF SumOf
<1>12. \A x \in Key, w \in Value : ~HasPair(u, x, w)
  BY <1>8, <1>9, HoldsSlots
<1> QED
  BY <1>4, <1>10, <1>11, <1>12 DEF Sound, u

(* A put into a compressed table, at the index of its key.                 *)
LEMMA InPlacePut ==
    ASSUME Setting, NEW t, InPlace(t), NEW k \in Key, k < t.cap, NEW v \in Value
    PROVE  LET u == Inserted(t, k, v)
           IN  /\ InPlace(u) /\ u.sum = SumOf(u)
               /\ \A x \in Key, w \in Value :
                      HasPair(u, x, w) <=> (x = k /\ w = v) \/ (x # k /\ HasPair(t, x, w))
<1> DEFINE u == Place(t, k, v)
<1>1. Shape(t) /\ t.compr /\ t.cap \in Nat /\ t.size \in Int /\ t.size = Cardinality(Used(t))
      /\ (\A i \in Used(t) : t.slot[i].key = i) /\ IsFiniteSet(Used(t))
  BY ShapeFields DEF InPlace
<1>2. Inserted(t, k, v) = u
  BY <1>1 DEF Inserted, Grown
<1>3. Position(t, k) = k /\ k \in Slots(t)
  BY <1>1 DEF Position, Slots, Setting, ConstantsOK
<1>4. /\ Shape(u) /\ u.cap = t.cap /\ u.compr
      /\ u.size = IF t.slot[k] = Unused THEN t.size + 1 ELSE t.size
      /\ u.slot[k] = Pair(k, v) /\ \A j \in Slots(t) \ {k} : u.slot[j] = t.slot[j]
      /\ Slots(u) = Slots(t) /\ Used(u) = Used(t) \union {k}
      /\ u.sum = SumOf(u)
  BY <1>1, <1>3, PlaceFields
<1> HIDE DEF u
<1>5. u.slot[k].key = k /\ u.slot[k].value = v
  BY <1>4, EntriesAreUsed
<1>6. \A j \in Used(u) : j = k \/ (j \in Used(t) /\ u.slot[j] = t.slot[j])
  BY <1>4 DEF Used
<1>7. \A j \in Used(t) : j = k \/ (j \in Used(u) /\ u.slot[j] = t.slot[j])
  BY <1>4 DEF Used
<1>8. \A j \in Used(u) : u.slot[j].key = j
  BY <1>1, <1>5, <1>6
<1>9. u.size = Cardinality(Used(u))
  <2>1. k \in Used(t) <=> t.slot[k] # Unused
    BY <1>3 DEF Used
  <2>2. Cardinality(Used(t) \union {k}) = IF k \in Used(t) THEN Cardinality(Used(t)) ELSE Cardinality(Used(t)) + 1
    BY <1>1, FS_AddElement
  <2> QED BY <1>1, <1>4, <2>1, <2>2
<1>10. ASSUME NEW x \in Key, NEW w \in Value
       PROVE  HasPair(u, x, w) <=> (x = k /\ w = v) \/ (x # k /\ HasPair(t, x, w))
  <2>1. HasPair(u, x, w) <=> \E j \in Used(u) : u.slot[j].key = x /\ u.slot[j].value = w
    BY <1>4, HoldsSlots
  <2>2. HasPair(t, x, w) <=> \E j \in Used(t) : t.slot[j].key = x /\ t.slot[j].value = w
    BY <1>1, HoldsSlots
  <2>3. k \in Used(u)
    BY <1>4
  <2> QED BY <1>1, <1>5, <1>6, <1>7, <1>8, <2>1, <2>2, <2>3
<1> QED
  BY <1>2, <1>4, <1>8, <1>9, <1>10 DEF InPlace

(* A removal from a compressed table empties the slot of the key.          *)
LEMMA InPlaceWithout ==
    ASSUME Setting, NEW t, InPlace(t), NEW k \in Key, Found(t, k)
    PROVE  LET u == Without(t, k)
           IN  /\ InPlace(u) /\ u.sum = SumOf(u)
               /\ \A x \in Key, w \in Value : HasPair(u, x, w) <=> x # k /\ HasPair(t, x, w)
<1> DEFINE e == Vacated(t, k)
           u == Updated(e)
<1>1. Shape(t) /\ t.compr /\ t.cap \in Nat /\ t.size \in Int /\ t.size = Cardinality(Used(t))
      /\ (\A i \in Used(t) : t.slot[i].key = i) /\ IsFiniteSet(Used(t))
  BY ShapeFields DEF InPlace
<1>2. Position(t, k) = k /\ k \in Slots(t) /\ k \in Used(t)
  BY <1>1 DEF Position, Slots, Used, Found, Setting, ConstantsOK
<1>3. Emptied(t, k) = e
  <2>1. LaterCluster(t, k) = <<>>
    BY <1>1 DEF LaterCluster
  <2>2. LaterCluster(t, k) \in Seq(Nat) /\ Len(LaterCluster(t, k)) = 0
    BY <2>1
  <2>3. \E c : /\ c[0] = Vacated(t, Position(t, k))
               /\ \A p \in 1 .. Len(LaterCluster(t, k)) : c[p] = PutBack(c[p - 1], LaterCluster(t, k)[p])
               /\ Emptied(t, k) = c[Len(LaterCluster(t, k))]
    BY <2>2, EmptiedStepByStep
  <2> QED BY <1>2, <2>2, <2>3
<1>4. Without(t, k) = u
  BY <1>3 DEF Without
<1>5. /\ Shape(e) /\ e.cap = t.cap /\ e.compr /\ e.size = t.size - 1
      /\ e.slot[k] = Unused /\ \A j \in Slots(t) \ {k} : e.slot[j] = t.slot[j]
      /\ Slots(e) = Slots(t) /\ Used(e) = Used(t) \ {k}
  BY <1>1, <1>2, VacatedFields
<1> HIDE DEF e
<1>6. /\ Shape(u) /\ u.cap = e.cap /\ u.size = e.size
      /\ u.compr = e.compr /\ u.slot = e.slot /\ u.sum = SumOf(e)
      /\ Slots(u) = Slots(e) /\ Used(u) = Used(e) /\ SumOf(u) = SumOf(e)
  BY <1>5, UpdatedFields, SumsAlike
<1> HIDE DEF u
<1>7. \A j \in Used(u) : j \in Used(t) /\ j # k /\ u.slot[j] = t.slot[j]
  BY <1>5, <1>6 DEF Used
<1>8. \A j \in Used(t) : j # k => j \in Used(u)
  BY <1>5, <1>6
<1>9. u.size = Cardinality(Used(u))
  <2>1. Cardinality(Used(t) \ {k}) = Cardinality(Used(t)) - 1
    BY <1>1, <1>2, FS_RemoveElement
  <2> QED BY <1>1, <1>5, <1>6, <2>1
<1>10. ASSUME NEW x \in Key, NEW w \in Value
       PROVE  HasPair(u, x, w) <=> x # k /\ HasPair(t, x, w)
  <2>1. HasPair(u, x, w) <=> \E j \in Used(u) : u.slot[j].key = x /\ u.slot[j].value = w
    BY <1>6, HoldsSlots
  <2>2. HasPair(t, x, w) <=> \E j \in Used(t) : t.slot[j].key = x /\ t.slot[j].value = w
    BY <1>1, HoldsSlots
  <2> QED BY <1>1, <1>7, <1>8, <2>1, <2>2
<1>11. InPlace(u)
  BY <1>1, <1>5, <1>6, <1>7, <1>9 DEF InPlace
<1> QED
  BY <1>4, <1>6, <1>10, <1>11

-----------------------------------------------------------------------------
(* Sets that a function takes to one another one to one are as large.      *)
LEMMA ImageSize ==
    ASSUME NEW S, IsFiniteSet(S), NEW T, NEW f \in [S -> T],
           \A x, y \in S : f[x] = f[y] => x = y,
           \A z \in T : \E x \in S : f[x] = z
    PROVE  IsFiniteSet(T) /\ Cardinality(T) = Cardinality(S)
<1>1. f \in Injection(S, T)
  BY DEF Injection, IsInjective
<1>2. f \in Surjection(S, T)
  BY DEF Surjection
<1>3. ExistsBijection(S, T)
  BY <1>1, <1>2 DEF ExistsBijection, Bijection
<1> QED
  BY <1>3, FS_Bijection

(* A table has as many keys as entries.                                    *)
LEMMA KeysAre ==
    ASSUME Setting, NEW t, Sound(t)
    PROVE  /\ IsFiniteSet(Keys(t)) /\ Cardinality(Keys(t)) = t.size
           /\ Keys(t) \subseteq Key
           /\ \A x \in Key : x \in Keys(t) <=> \E w \in Value : HasPair(t, x, w)
<1> DEFINE f == [i \in Used(t) |-> t.slot[i].key]
<1>1. /\ Shape(t) /\ Distinct(t) /\ t.size = Cardinality(Used(t))
      /\ \A i \in Used(t) : t.slot[i].key \in Key /\ t.slot[i].value \in Value
  BY SoundTable
<1>2. f \in [Used(t) -> Keys(t)] /\ \A i \in Used(t) : f[i] = t.slot[i].key
  BY DEF Keys
<1> HIDE DEF f
<1>3. \A x, y \in Used(t) : f[x] = f[y] => x = y
  BY <1>1, <1>2 DEF Distinct
<1>4. \A z \in Keys(t) : \E x \in Used(t) : f[x] = z
  BY <1>2 DEF Keys
<1>5. IsFiniteSet(Used(t))
  BY <1>1, ShapeFields
<1>6. IsFiniteSet(Keys(t)) /\ Cardinality(Keys(t)) = Cardinality(Used(t))
  BY <1>2, <1>3, <1>4, <1>5, ImageSize
<1>7. \A x \in Key : x \in Keys(t) <=> \E w \in Value : HasPair(t, x, w)
  BY <1>1, HoldsSlots DEF Keys
<1> QED
  BY <1>1, <1>6, <1>7 DEF Keys

Packed(t, n, s, z) == [t EXCEPT !.cap = n, !.compr = TRUE, !.slot = s, !.size = z]

LEMMA CompressedFields ==
    ASSUME NEW t, Shape(t), NEW n \in Nat \ {0}, NEW s \in [0 .. n - 1 -> Cell],
           NEW z \in Int
    PROVE  LET u == Packed(t, n, s, z)
           IN  /\ Shape(u) /\ u.cap = n /\ u.compr /\ u.slot = s /\ u.size = z
               /\ Slots(u) = 0 .. n - 1
<1> DEFINE u == Packed(t, n, s, z)
<1>1. s \in Rows
  BY DEF Rows
<1>2. t \in Tables
  BY DEF Shape
<1>3. u \in Tables
  BY <1>1, <1>2 DEF Tables, Packed
<1>4. u.cap = n /\ u.compr /\ u.slot = s /\ u.size = z
  BY <1>2 DEF Tables, Packed
<1> HIDE DEF u
<1>5. Slots(u) = 0 .. n - 1
  BY <1>4 DEF Slots
<1> QED
  BY <1>3, <1>4, <1>5 DEF Shape, u

(* Compression keeps the entries.                                          *)
LEMMA CompressedIs ==
    ASSUME Setting, NEW t, Sound(t), Roomy(t), \A k \in Keys(t) : k < t.cap
    PROVE  LET u == Compressed(t)
           IN  /\ InPlace(u) /\ u.sum = SumOf(u)
               /\ \A x \in Key, w \in Value : HasPair(u, x, w) <=> HasPair(t, x, w)
<1>1. /\ Shape(t) /\ ~t.compr /\ Distinct(t) /\ t.cap \in Nat \ {0} /\ t.size = Cardinality(Used(t))
      /\ t.slot \in [Slots(t) -> Cell] /\ IsFiniteSet(Used(t)) /\ t.size \in Int
      /\ \A i \in Used(t) : /\ i \in Slots(t) /\ t.slot[i] # Unused /\ t.slot[i] \in Entry
                            /\ t.slot[i].key \in Key /\ t.slot[i].value \in Value
  <2>1. t.cap \in Nat \ {0} /\ t.slot \in [Slots(t) -> Cell] /\ IsFiniteSet(Used(t)) /\ t.size \in Int
    BY ShapeFields DEF Roomy, Open
  <2> QED BY <2>1, SoundTable DEF Roomy, Open
<1>2. Keys(t) \subseteq Key /\ Key \subseteq Nat /\ Cardinality(Keys(t)) = t.size
  BY KeysAre DEF Setting, ConstantsOK
<1>n. \A k \in Keys(t) : k \in Nat /\ k <= t.cap - 1
  <2> SUFFICES ASSUME NEW k \in Keys(t) PROVE k \in Nat /\ k <= t.cap - 1
    OBVIOUS
  <2>1. k \in Nat /\ k < t.cap /\ t.cap \in Nat
    BY <1>1, <1>2
  <2> QED BY <2>1
<1>3. CASE Keys(t) = {}
  <2> DEFINE u == [t EXCEPT !.compr = TRUE, !.size = 0]
  <2>1. Compressed(t) = u
    BY <1>3 DEF Compressed
  <2>2. t.size = 0 /\ Used(t) = {}
    <3>1. Used(t) = {}
      BY <1>3 DEF Keys
    <3> QED BY <1>1, <3>1, FS_EmptySet
  <2>3. /\ u.cap = t.cap /\ u.compr /\ u.slot = t.slot /\ u.size = 0 /\ u.sum = t.sum
    BY <1>1 DEF Shape, Tables
  <2>t. u \in Tables
    <3>1. t \in Tables /\ 0 \in Int
      BY <1>1 DEF Shape
    <3> QED BY <3>1, TablesExcept
  <2> HIDE DEF u
  <2>4. Slots(u) = Slots(t)
    BY <2>3 DEF Slots
  <2>5. Used(u) = {}
    BY <2>2, <2>3, <2>4 DEF Used
  <2>6. Shape(u)
    BY <1>1, <2>3, <2>4, <2>t DEF Shape
  <2>7. InPlace(u)
    BY <2>2, <1>1, <2>3, <2>5, <2>6 DEF InPlace
  <2>8. SumOf(u) = SumOf(t)
    <3>1. \A x : Occurs(u, x) = Occurs(t, x)
      BY <2>2, <2>3, <2>5 DEF Occurs
    <3>2. \A x : Occurs(u, x) % 2 = Occurs(t, x) % 2
      BY Zenon, <3>1
    <3>3. {x \in Key \union Value : Occurs(u, x) % 2 = 1} = {x \in Key \union Value : Occurs(t, x) % 2 = 1}
      BY Zenon, <3>2
    <3>4. u.size = t.size
      BY <2>2, <2>3
    <3> QED BY Zenon, <3>3, <3>4 DEF SumOf
  <2>9. u.sum = SumOf(u)
    BY <2>3, <2>8 DEF Sound
  <2>10. \A x \in Key, w \in Value : HasPair(u, x, w) <=> HasPair(t, x, w)
    BY <2>3, <2>4 DEF HasPair
  <2> QED BY <2>1, <2>7, <2>9, <2>10
<1>4. CASE Keys(t) # {}
  <2> DEFINE top == CHOOSE k \in Keys(t) : \A j \in Keys(t) : j =< k
  <2>1. top \in Keys(t) /\ \A j \in Keys(t) : j =< top
    <3> DEFINE T == {(t.cap - 1) - k : k \in Keys(t)}
    <3>1. T \subseteq Nat /\ T # {}
      BY <1>1, <1>n, <1>4
    <3>2. PICK y \in T : \A z \in T : y <= z
      BY <3>1, LeastNat
    <3>3. PICK k \in Keys(t) : y = (t.cap - 1) - k
      BY <3>2
    <3>4. \A j \in Keys(t) : j =< k
      <4> SUFFICES ASSUME NEW j \in Keys(t) PROVE j =< k
        OBVIOUS
      <4>1. (t.cap - 1) - k <= (t.cap - 1) - j
        BY <3>2, <3>3
      <4> QED BY <1>1, <1>n, <4>1
    <3> QED BY <3>4
  <2> HIDE DEF top
  <2>2. top \in Nat /\ top + 1 \in Nat \ {0} /\ (top + 1) - 1 = top
    BY <1>n, <2>1
  <2> DEFINE s == [k \in 0 .. top |->
                    IF k \in Keys(t)
                    THEN t.slot[CHOOSE i \in Used(t) : t.slot[i].key = k]
                    ELSE Unused]
             z == Cardinality(Used(t))
             e == Packed(t, top + 1, s, z)
             u == Updated(e)
  <2>3. Compressed(t) = u
    BY <1>4 DEF Compressed, Packed, top
  <2>4. \A k \in 0 .. top : k \notin Keys(t) => s[k] = Unused
    OBVIOUS
  <2>5. ASSUME NEW i \in Used(t)
        PROVE  t.slot[i].key \in 0 .. top /\ s[t.slot[i].key] = t.slot[i]
    <3> DEFINE k == t.slot[i].key
               j == CHOOSE y \in Used(t) : t.slot[y].key = k
    <3>1. k \in Keys(t) /\ k \in 0 .. top
      <4>1. k \in Keys(t)
        BY DEF Keys
      <4> HIDE DEF k
      <4> QED BY <1>n, <2>1, <2>2, <4>1
    <3>2. j \in Used(t) /\ t.slot[j].key = k
      OBVIOUS
    <3>3. j = i
      <4> HIDE DEF j
      <4> QED BY <1>1, <3>2 DEF Distinct
    <3>4. s[k] = t.slot[j]
      BY <3>1
    <3> QED BY <3>1, <3>3, <3>4
  <2> HIDE DEF s
  <2>6. \A k \in 0 .. top : k \in Keys(t) =>
           s[k] \in Entry /\ s[k].key = k /\ \E i \in Used(t) : s[k] = t.slot[i]
    <3> SUFFICES ASSUME NEW k \in 0 .. top, k \in Keys(t)
                 PROVE  s[k] \in Entry /\ s[k].key = k /\ \E i \in Used(t) : s[k] = t.slot[i]
      OBVIOUS
    <3>1. PICK i \in Used(t) : t.slot[i].key = k
      BY DEF Keys
    <3> QED BY <1>1, <2>5, <3>1
  <2>7. s \in [0 .. (top + 1) - 1 -> Cell]
    <3>1. s = [k \in 0 .. top |-> s[k]]
      BY DEF s
    <3>2. \A k \in 0 .. top : s[k] \in Cell
      BY <2>4, <2>6 DEF Cell
    <3> QED BY <2>2, <3>1, <3>2
  <2>8. /\ Shape(e) /\ e.cap = top + 1 /\ e.compr /\ e.slot = s /\ e.size = z
        /\ Slots(e) = 0 .. (top + 1) - 1
    <3>1. z \in Int
      BY <1>1
    <3> HIDE DEF z
    <3> QED BY <1>1, <2>2, <2>7, <3>1, CompressedFields
  <2> HIDE DEF e, z
  <2>9. /\ Shape(u) /\ u.cap = e.cap /\ u.size = e.size
        /\ u.compr = e.compr /\ u.slot = e.slot /\ u.sum = SumOf(e)
        /\ Slots(u) = Slots(e) /\ Used(u) = Used(e) /\ SumOf(u) = SumOf(e)
    BY <2>8, UpdatedFields, SumsAlike
  <2> HIDE DEF u
  <2>10. Used(u) = Keys(t)
    <3>1. \A k \in Keys(t) : k \in 0 .. top
      BY <1>n, <2>1, <2>2
    <3>2. \A k \in Keys(t) : s[k] # Unused
      BY <2>6, <3>1, EntriesAreUsed
    <3> QED BY <2>2, <2>4, <2>8, <2>9, <3>1, <3>2 DEF Used
  <2>11. \A i \in Used(u) : i \in 0 .. top /\ u.slot[i].key = i
    <3>1. \A i \in Keys(t) : i \in 0 .. top
      BY <1>n, <2>1, <2>2
    <3> QED BY <2>6, <2>8, <2>9, <2>10, <3>1
  <2>12. InPlace(u)
    BY <1>1, <1>2, <2>8, <2>9, <2>10, <2>11 DEF InPlace, z
  <2>13. ASSUME NEW x \in Key, NEW w \in Value PROVE HasPair(u, x, w) <=> HasPair(t, x, w)
    <3>1. HasPair(u, x, w) <=> \E j \in Used(u) : u.slot[j] = Pair(x, w)
      BY <2>9, HoldsSlots
    <3>2. HasPair(t, x, w) <=> \E j \in Used(t) : t.slot[j] = Pair(x, w)
      BY <1>1, HoldsSlots
    <3>3. \A j \in Used(u) : \E i \in Used(t) : u.slot[j] = t.slot[i]
      BY <2>6, <2>8, <2>9, <2>10, <2>11
    <3>4. \A i \in Used(t) : t.slot[i].key \in Used(u) /\ u.slot[t.slot[i].key] = t.slot[i]
      BY <2>5, <2>8, <2>9, <2>10 DEF Keys
    <3> QED BY <3>1, <3>2, <3>3, <3>4
  <2> QED BY <2>3, <2>9, <2>12, <2>13
<1> QED
  BY <1>3, <1>4

-----------------------------------------------------------------------------
(* The checksum depends on the entries alone, wherever they stand.         *)
Entries(t) == {e \in Entry : HasPair(t, e.key, e.value)}

LEMMA OccursIs ==
    ASSUME Setting, NEW t, Sound(t), NEW x
    PROVE  Occurs(t, x) = Cardinality({e \in Entries(t) : e.key = x})
                          + Cardinality({e \in Entries(t) : e.value = x})
<1>1. /\ Shape(t) /\ Distinct(t)
      /\ \A i \in Used(t) : /\ i \in Slots(t) /\ t.slot[i] \in Entry
                            /\ t.slot[i].key \in Key /\ t.slot[i].value \in Value
  BY SoundTable
<1>2. IsFiniteSet(Used(t))
  BY <1>1, ShapeFields
<1>3. \A e \in Entry : e \in Entries(t) <=> \E i \in Used(t) : t.slot[i] = e
  <2> SUFFICES ASSUME NEW e \in Entry
               PROVE  e \in Entries(t) <=> \E i \in Used(t) : t.slot[i] = e
    OBVIOUS
  <2>1. e.key \in Key /\ e.value \in Value /\ e = Pair(e.key, e.value)
    BY EntriesAreUsed
  <2>2. HasPair(t, e.key, e.value) <=> \E i \in Used(t) : t.slot[i] = e
    BY <1>1, <2>1, HoldsSlots
  <2> QED BY <2>2 DEF Entries
<1>4. \A i \in Used(t) : t.slot[i] \in Entries(t)
  BY <1>1, <1>3
<1>5. \A e \in Entries(t) : \E i \in Used(t) : t.slot[i] = e
  BY <1>3 DEF Entries
<1>6. ASSUME NEW S \in SUBSET Used(t), NEW T \in SUBSET Entries(t),
             \A i \in Used(t) : i \in S <=> t.slot[i] \in T
      PROVE  Cardinality(S) = Cardinality(T)
  <2> DEFINE f == [i \in S |-> t.slot[i]]
  <2>1. f \in [S -> T] /\ \A i \in S : f[i] = t.slot[i]
    BY <1>6
  <2> HIDE DEF f
  <2>2. \A i, j \in S : f[i] = f[j] => i = j
    BY <1>1, <2>1 DEF Distinct
  <2>3. \A z \in T : \E i \in S : f[i] = z
    BY <1>5, <1>6, <2>1
  <2>4. IsFiniteSet(S)
    BY <1>2, FS_Subset
  <2> QED BY <2>1, <2>2, <2>3, <2>4, ImageSize
<1>7. Cardinality({i \in Used(t) : t.slot[i].key = x}) = Cardinality({e \in Entries(t) : e.key = x})
  <2> DEFINE S == {i \in Used(t) : t.slot[i].key = x}
             T == {e \in Entries(t) : e.key = x}
  <2>1. S \in SUBSET Used(t) /\ T \in SUBSET Entries(t) /\ \A i \in Used(t) : i \in S <=> t.slot[i] \in T
    BY <1>4
  <2> HIDE DEF S, T
  <2>2. Cardinality(S) = Cardinality(T)
    BY <1>6, <2>1
  <2> QED BY <2>2 DEF S, T
<1>8. Cardinality({i \in Used(t) : t.slot[i].value = x}) = Cardinality({e \in Entries(t) : e.value = x})
  <2> DEFINE S == {i \in Used(t) : t.slot[i].value = x}
             T == {e \in Entries(t) : e.value = x}
  <2>1. S \in SUBSET Used(t) /\ T \in SUBSET Entries(t) /\ \A i \in Used(t) : i \in S <=> t.slot[i] \in T
    BY <1>4
  <2> HIDE DEF S, T
  <2>2. Cardinality(S) = Cardinality(T)
    BY <1>6, <2>1
  <2> QED BY <2>2 DEF S, T
<1> QED
  BY <1>7, <1>8 DEF Occurs

(* map_equals says whether two maps hold the same.                         *)
LEMMA EqualsIs ==
    ASSUME Setting, NEW a, Sound(a), NEW b, Sound(b)
    PROVE  Equals(a, b) <=> Contents(a) = Contents(b)
<1>1. /\ IsFiniteSet(Keys(a)) /\ Cardinality(Keys(a)) = a.size /\ Keys(a) \subseteq Key
      /\ \A x \in Key : x \in Keys(a) <=> \E w \in Value : HasPair(a, x, w)
  BY KeysAre
<1>2. /\ IsFiniteSet(Keys(b)) /\ Cardinality(Keys(b)) = b.size /\ Keys(b) \subseteq Key
      /\ \A x \in Key : x \in Keys(b) <=> \E w \in Value : HasPair(b, x, w)
  BY KeysAre
<1>3. /\ Shape(a)
      /\ \A i \in Used(a) : a.slot[i].key \in Key /\ a.slot[i].value \in Value
  BY SoundTable
<1>4. \A x \in Key, v, w \in Value : HasPair(b, x, v) /\ HasPair(b, x, w) => v = w
  BY SoundTable
<1>5. Absent \notin Value
  BY DEF Setting, ConstantsOK, Absent
<1>6. ASSUME NEW i \in Used(a)
      PROVE  Lookup(b, a.slot[i].key) = a.slot[i].value
               <=> HasPair(b, a.slot[i].key, a.slot[i].value)
  <2> DEFINE x == a.slot[i].key
             w == a.slot[i].value
  <2>1. x \in Key /\ w \in Value
    BY <1>3
  <2> HIDE DEF x, w
  <2>2. Lookup(b, x) = w <=> HasPair(b, x, w)
    BY <1>4, <1>5, <2>1, Answers
  <2> QED BY <2>2 DEF x, w
<1>7. ASSUME Equals(a, b) PROVE Contents(a) = Contents(b)
  <2>1. a.size = b.size /\ \A i \in Used(a) : Lookup(b, a.slot[i].key) = a.slot[i].value
    BY <1>7 DEF Equals
  <2>2. \A x \in Key, w \in Value : HasPair(a, x, w) => HasPair(b, x, w)
    <3> SUFFICES ASSUME NEW x \in Key, NEW w \in Value, HasPair(a, x, w) PROVE HasPair(b, x, w)
      OBVIOUS
    <3>1. PICK i \in Used(a) : a.slot[i].key = x /\ a.slot[i].value = w
      BY <1>3, HoldsSlots
    <3> QED BY <1>6, <2>1, <3>1
  <2>3. Keys(a) \in SUBSET Keys(b)
    BY <1>1, <1>2, <2>2
  <2>4. Keys(a) = Keys(b)
    BY <1>1, <1>2, <2>1, <2>3, FS_Subset
  <2>5. \A x \in Key, w \in Value : HasPair(b, x, w) => HasPair(a, x, w)
    BY <1>1, <1>2, <1>4, <2>2, <2>4
  <2>6. \A x \in Key, w \in Value : HasPair(a, x, w) <=> HasPair(b, x, w)
    BY <2>2, <2>5
  <2> QED BY <2>6, SameContents
<1>8. ASSUME Contents(a) = Contents(b) PROVE Equals(a, b)
  <2>1. \A x \in Key, w \in Value : HasPair(a, x, w) <=> HasPair(b, x, w)
    BY <1>8, SameContents
  <2>2. Keys(a) = Keys(b)
    BY <1>1, <1>2, <2>1
  <2>3. a.size = b.size
    BY <1>1, <1>2, <2>2
  <2>4. \A e \in Entry : e.key \in Key /\ e.value \in Value
    BY DEF Entry
  <2>5. Entries(a) = Entries(b)
    BY <2>1, <2>4 DEF Entries
  <2>6. \A x : Occurs(a, x) = Occurs(b, x)
    BY <2>5, OccursIs
  <2>7. SumOf(a) = SumOf(b)
    <3>1. \A x : Occurs(a, x) % 2 = Occurs(b, x) % 2
      BY Zenon, <2>6
    <3>2. {x \in Key \union Value : Occurs(a, x) % 2 = 1} = {x \in Key \union Value : Occurs(b, x) % 2 = 1}
      BY Zenon, <3>1
    <3> QED BY Zenon, <2>3, <3>2 DEF SumOf
  <2>8. a.sum = b.sum
    BY <2>7 DEF Sound
  <2>9. \A i \in Used(a) : Lookup(b, a.slot[i].key) = a.slot[i].value
    <3> SUFFICES ASSUME NEW i \in Used(a) PROVE HasPair(b, a.slot[i].key, a.slot[i].value)
      BY <1>6
    <3>1. HasPair(a, a.slot[i].key, a.slot[i].value)
      BY <1>3, HoldsSlots
    <3> QED BY <1>3, <2>1, <3>1
  <2> QED BY <2>3, <2>8, <2>9 DEF Equals
<1> QED
  BY <1>7, <1>8

-----------------------------------------------------------------------------
(* The invariant.                                                          *)
Inv == Setting /\ Sound(m) /\ Sound(other)

LEMMA InvPrimed ==
    ASSUME Setting, NEW u, Sound(u), NEW w, Sound(w), m' = u, other' = w, hash' = hash
    PROVE  Inv'
<1>1. Sound(m)'
  <2>1. Shape(m)' <=> Shape(u)
    BY DEF Shape, Slots
  <2>2. Used(m)' = Used(u)
    BY DEF Used, Slots
  <2>3. Distinct(m)' <=> Distinct(u)
    BY DEF Distinct, Used, Slots
  <2>4. (m.cap)' = u.cap /\ (m.size)' = u.size /\ (m.compr)' = u.compr
        /\ (m.slot)' = u.slot /\ (m.sum)' = u.sum
    OBVIOUS
  <2>5. Linked(m)' <=> Linked(u)
    BY DEF Linked, LinkedAt, Path, At, Used, Slots
  <2>6. SumOf(m)' = SumOf(u)
    BY DEF SumOf, Occurs, Used, Slots
  <2>7. Roomy(m)' <=> Roomy(u)
    BY <2>1, <2>2, <2>3, <2>4, <2>5 DEF Roomy, Open
  <2>8. InPlace(m)' <=> InPlace(u)
    BY <2>1, <2>2, <2>4 DEF InPlace
  <2> QED BY <2>4, <2>6, <2>7, <2>8 DEF Sound
<1>2. Sound(other)'
  <2>1. Shape(other)' <=> Shape(w)
    BY DEF Shape, Slots
  <2>2. Used(other)' = Used(w)
    BY DEF Used, Slots
  <2>3. Distinct(other)' <=> Distinct(w)
    BY DEF Distinct, Used, Slots
  <2>4. (other.cap)' = w.cap /\ (other.size)' = w.size /\ (other.compr)' = w.compr
        /\ (other.slot)' = w.slot /\ (other.sum)' = w.sum
    OBVIOUS
  <2>5. Linked(other)' <=> Linked(w)
    BY DEF Linked, LinkedAt, Path, At, Used, Slots
  <2>6. SumOf(other)' = SumOf(w)
    BY DEF SumOf, Occurs, Used, Slots
  <2>7. Roomy(other)' <=> Roomy(w)
    BY <2>1, <2>2, <2>3, <2>4, <2>5 DEF Roomy, Open
  <2>8. InPlace(other)' <=> InPlace(w)
    BY <2>1, <2>2, <2>4 DEF InPlace
  <2> QED BY <2>4, <2>6, <2>7, <2>8 DEF Sound
<1>3. Setting'
  BY DEF Setting, ConstantsOK
<1> QED
  BY <1>1, <1>2, <1>3 DEF Inv

LEMMA AbstractPrimed ==
    ASSUME NEW u, NEW w, m' = u, other' = w
    PROVE  /\ Contents(m)' = Contents(u) /\ Contents(other)' = Contents(w)
           /\ (m.compr)' = u.compr
<1>1. Contents(m)' = Contents(u)
  BY DEF Contents, Slots
<1>2. Contents(other)' = Contents(w)
  BY DEF Contents, Slots
<1> QED
  BY <1>1, <1>2

LEMMA InitIsSound ==
    ASSUME ConstantsOK, Init
    PROVE  Inv /\ Abstract!Init
<1>1. Setting
  BY DEF Setting, ConstantsOK, Init
<1>2. /\ m = NewMap /\ other = NewMap /\ reply = <<"init">> /\ Sound(NewMap) /\ ~NewMap.compr
      /\ \A x \in Key, w \in Value : ~HasPair(NewMap, x, w)
  BY <1>1, NewIsSound DEF Init
<1>3. /\ Contents(NewMap) \in [Key -> Value \union {Absent}]
      /\ \A k \in Key, v \in Value : Contents(NewMap)[k] = v <=> HasPair(NewMap, k, v)
  BY <1>1, <1>2, ContentsAre
<1>4. \A k \in Key : Contents(NewMap)[k] = Absent
  BY <1>2, <1>3
<1>5. Contents(NewMap) = [k \in Key |-> Absent]
  BY <1>3, <1>4
<1>6. NewMap.compr = FALSE
  BY DEF NewMap
<1>7. Contents(m) = [k \in Key |-> Abstract!Absent] /\ Contents(other) = Contents(m) /\ m.compr = FALSE
  BY <1>2, <1>5, <1>6 DEF Abstract!Absent, Absent
<1> QED
  BY <1>1, <1>2, <1>7 DEF Inv, Abstract!Init

(* One call.                                                               *)
LEMMA PutStep ==
    ASSUME Inv, NEW k \in Key, NEW v \in Value, Put(k, v)
    PROVE  Inv' /\ (Abstract!Put(k, v) \/ Abstract!Refuse(k))
<1>1. Setting /\ Sound(m) /\ Sound(other) /\ hash' = hash /\ other' = other
  BY DEF Inv, Put
<1>2. CASE HasRoom(m, k)
  <2> DEFINE u == Inserted(m, k, v)
  <2>1. m' = u /\ reply' = <<"put", TRUE>>
    BY <1>2 DEF Put
  <2>2. /\ Sound(u) /\ u.compr = m.compr
        /\ \A x \in Key, w \in Value :
               HasPair(u, x, w) <=> (x = k /\ w = v) \/ (x # k /\ HasPair(m, x, w))
    <3>1. CASE Roomy(m)
      <4>1. /\ Roomy(u) /\ u.sum = SumOf(u)
            /\ \A x \in Key, w \in Value :
                   HasPair(u, x, w) <=> (x = k /\ w = v) \/ (x # k /\ HasPair(m, x, w))
        BY <1>1, <3>1, InsertedIs
      <4> HIDE DEF u
      <4>2. u.compr = FALSE /\ m.compr = FALSE
        BY <3>1, <4>1, ShapeFields DEF Roomy, Open
      <4> QED BY <4>1, <4>2 DEF Sound
    <3>2. CASE InPlace(m)
      <4>1. k < m.cap
        BY <1>2, <3>2 DEF HasRoom, InPlace
      <4>2. /\ InPlace(u) /\ u.sum = SumOf(u)
            /\ \A x \in Key, w \in Value :
                   HasPair(u, x, w) <=> (x = k /\ w = v) \/ (x # k /\ HasPair(m, x, w))
        BY <1>1, <3>2, <4>1, InPlacePut
      <4> HIDE DEF u
      <4>3. u.compr = TRUE /\ m.compr = TRUE
        BY <3>2, <4>2, ShapeFields DEF InPlace
      <4> QED BY <4>2, <4>3 DEF Sound
    <3> QED BY <1>1, <3>1, <3>2 DEF Sound
  <2> HIDE DEF u
  <2>3. Contents(u) = [Contents(m) EXCEPT ![k] = v]
    <3>1. Setting /\ Sound(m) /\ Sound(u)
      BY <1>1, <2>2
    <3>2. HoldsAlso(u, m, k, v)
      BY <2>2 DEF HoldsAlso
    <3> QED BY <3>1, <3>2, ContentsPut
  <2>4. Inv'
    BY <1>1, <2>1, <2>2, InvPrimed
  <2>5. Contents(m)' = Contents(u) /\ Contents(other)' = Contents(other) /\ (m.compr)' = m.compr
    BY <1>1, <2>1, <2>2, AbstractPrimed
  <2> QED BY <2>1, <2>3, <2>4, <2>5 DEF Abstract!Put
<1>3. CASE ~HasRoom(m, k)
  <2>1. m' = m /\ reply' = <<"put", FALSE>>
    <3>1. HasRoom(m, k) = FALSE
      BY <1>3 DEF HasRoom
    <3> QED BY <3>1 DEF Put
  <2>2. m.compr /\ ~(k < m.cap) /\ InPlace(m) /\ m.compr = TRUE
    <3>1. m.compr /\ ~(k < m.cap)
      BY <1>3 DEF HasRoom
    <3>2. InPlace(m)
      BY <1>1, <3>1 DEF Sound, Roomy, Open
    <3> QED BY <3>1, <3>2, ShapeFields DEF InPlace
  <2>3. \A w \in Value : ~HasPair(m, k, w)
    <3> SUFFICES ASSUME NEW w \in Value, HasPair(m, k, w) PROVE FALSE
      OBVIOUS
    <3>1. PICK i \in Used(m) : m.slot[i].key = k
      BY <1>1, <2>2, HoldsSlots DEF InPlace
    <3>2. i = k /\ i \in 0 .. m.cap - 1 /\ m.cap \in Nat
      BY <2>2, <3>1, ShapeFields DEF InPlace
    <3> QED BY <2>2, <3>2
  <2>4. Contents(m)[k] = Absent
    BY <1>1, <2>3, ContentsAre
  <2>5. Inv'
    BY <1>1, <2>1, InvPrimed
  <2>6. Contents(m)' = Contents(m) /\ Contents(other)' = Contents(other) /\ (m.compr)' = m.compr
    BY <1>1, <2>1, AbstractPrimed
  <2> QED BY <2>1, <2>2, <2>4, <2>5, <2>6 DEF Abstract!Refuse, Abstract!Absent, Absent
<1> QED
  BY <1>2, <1>3

LEMMA GetStep ==
    ASSUME Inv, NEW k \in Key, Get(k)
    PROVE  Inv' /\ Abstract!Get(k)
<1>1. Setting /\ Sound(m) /\ Sound(other) /\ hash' = hash /\ other' = other /\ m' = m
  BY DEF Inv, Get
<1>2. Inv'
  BY <1>1, InvPrimed
<1>3. Contents(m)' = Contents(m) /\ Contents(other)' = Contents(other) /\ (m.compr)' = m.compr
  BY <1>1, AbstractPrimed
<1>4. /\ Contents(m)[k] \in Value \union {Absent} /\ Absent \notin Value
      /\ \A v \in Value : Contents(m)[k] = v <=> HasPair(m, k, v)
  BY <1>1, ContentsAre
<1>5. CASE Found(m, k)
  <2>1. Lookup(m, k) \in Value /\ HasPair(m, k, Lookup(m, k)) /\ reply' = <<"get", k, TRUE, Lookup(m, k)>>
    BY <1>1, <1>5, Answers DEF Get
  <2>2. Contents(m)[k] = Lookup(m, k) /\ Contents(m)[k] # Absent
    BY <1>4, <2>1
  <2> QED BY <1>2, <1>3, <2>1, <2>2 DEF Abstract!Get, Abstract!Absent, Absent
<1>6. CASE ~Found(m, k)
  <2>1. reply' = <<"get", k, FALSE>> /\ \A v \in Value : ~HasPair(m, k, v)
    BY <1>1, <1>6, Answers DEF Get
  <2>2. Contents(m)[k] = Absent
    BY <1>4, <2>1
  <2> QED BY <1>2, <1>3, <2>1, <2>2 DEF Abstract!Get, Abstract!Absent, Absent
<1> QED
  BY <1>5, <1>6

LEMMA RemoveStep ==
    ASSUME Inv, NEW k \in Key, Remove(k)
    PROVE  Inv' /\ Abstract!Remove(k)
<1>1. Setting /\ Sound(m) /\ Sound(other) /\ hash' = hash /\ other' = other
      /\ reply' = <<"remove", k, Found(m, k)>>
  BY DEF Inv, Remove
<1>2. /\ Contents(m) \in [Key -> Value \union {Absent}]
      /\ Contents(m)[k] \in Value \union {Absent} /\ Absent \notin Value
      /\ \A v \in Value : Contents(m)[k] = v <=> HasPair(m, k, v)
  BY <1>1, ContentsAre
<1>3. Found(m, k) \in BOOLEAN
  BY DEF Found
<1>4. CASE Found(m, k)
  <2> DEFINE u == Without(m, k)
  <2>1. m' = u
    BY <1>4 DEF Remove
  <2>2. /\ Sound(u) /\ u.compr = m.compr
        /\ \A x \in Key, w \in Value : HasPair(u, x, w) <=> x # k /\ HasPair(m, x, w)
    <3>1. CASE Roomy(m)
      <4>1. /\ Roomy(u) /\ u.sum = SumOf(u)
            /\ \A x \in Key, w \in Value : HasPair(u, x, w) <=> x # k /\ HasPair(m, x, w)
        BY <1>1, <1>4, <3>1, WithoutIs
      <4> HIDE DEF u
      <4>2. u.compr = FALSE /\ m.compr = FALSE
        BY <3>1, <4>1, ShapeFields DEF Roomy, Open
      <4> QED BY <4>1, <4>2 DEF Sound
    <3>2. CASE InPlace(m)
      <4>1. /\ InPlace(u) /\ u.sum = SumOf(u)
            /\ \A x \in Key, w \in Value : HasPair(u, x, w) <=> x # k /\ HasPair(m, x, w)
        BY <1>1, <1>4, <3>2, InPlaceWithout
      <4> HIDE DEF u
      <4>2. u.compr = TRUE /\ m.compr = TRUE
        BY <3>2, <4>1, ShapeFields DEF InPlace
      <4> QED BY <4>1, <4>2 DEF Sound
    <3> QED BY <1>1, <3>1, <3>2 DEF Sound
  <2> HIDE DEF u
  <2>3. Contents(u) = [Contents(m) EXCEPT ![k] = Absent]
    BY <1>1, <2>2, ContentsRemove
  <2>4. Inv'
    BY <1>1, <2>1, <2>2, InvPrimed
  <2>5. Contents(m)' = Contents(u) /\ Contents(other)' = Contents(other) /\ (m.compr)' = m.compr
    BY <1>1, <2>1, <2>2, AbstractPrimed
  <2>6. Contents(m)[k] # Absent
    <3>1. Lookup(m, k) \in Value /\ HasPair(m, k, Lookup(m, k))
      BY <1>1, <1>4, Answers
    <3> QED BY <1>2, <3>1
  <2>7. Found(m, k) = (Contents(m)[k] # Absent)
    BY <1>3, <1>4, <2>6
  <2> QED BY <1>1, <2>3, <2>4, <2>5, <2>7 DEF Abstract!Remove, Abstract!Absent, Absent
<1>5. CASE ~Found(m, k)
  <2>1. m' = m
    BY <1>5 DEF Remove
  <2>2. Contents(m)[k] = Absent
    <3>1. \A v \in Value : ~HasPair(m, k, v)
      BY <1>1, <1>5, Answers
    <3> QED BY <1>2, <3>1
  <2>3. [Contents(m) EXCEPT ![k] = Absent] = Contents(m)
    BY <1>2, <2>2
  <2>4. Inv'
    BY <1>1, <2>1, InvPrimed
  <2>5. Contents(m)' = Contents(m) /\ Contents(other)' = Contents(other) /\ (m.compr)' = m.compr
    BY <1>1, <2>1, AbstractPrimed
  <2>6. Found(m, k) = (Contents(m)[k] # Absent)
    BY <1>3, <1>5, <2>2
  <2> QED BY <1>1, <2>3, <2>4, <2>5, <2>6 DEF Abstract!Remove, Abstract!Absent, Absent
<1> QED
  BY <1>4, <1>5

LEMMA CopyStep ==
    ASSUME Inv, Copy
    PROVE  Inv' /\ Abstract!Copy
<1>1. Setting /\ Sound(m) /\ hash' = hash /\ other' = m /\ m' = m /\ reply' = <<"copy", TRUE>>
  BY DEF Inv, Copy
<1>2. Inv'
  BY <1>1, InvPrimed
<1>3. Contents(m)' = Contents(m) /\ Contents(other)' = Contents(m) /\ (m.compr)' = m.compr
  BY <1>1, AbstractPrimed
<1> QED
  BY <1>1, <1>2, <1>3 DEF Abstract!Copy

LEMMA CompareStep ==
    ASSUME Inv, Compare
    PROVE  Inv' /\ Abstract!Equal
<1>1. /\ Setting /\ Sound(m) /\ Sound(other) /\ hash' = hash /\ other' = other /\ m' = m
      /\ reply' = <<"equals", Equals(m, other)>>
  BY DEF Inv, Compare
<1>2. Inv'
  BY <1>1, InvPrimed
<1>3. Contents(m)' = Contents(m) /\ Contents(other)' = Contents(other) /\ (m.compr)' = m.compr
  BY <1>1, AbstractPrimed
<1>4. Equals(m, other) = (Contents(m) = Contents(other))
  <2>1. Equals(m, other) \in BOOLEAN
    BY DEF Equals
  <2>2. Equals(m, other) <=> Contents(m) = Contents(other)
    BY <1>1, EqualsIs
  <2> QED BY <2>1, <2>2
<1> QED
  BY <1>1, <1>2, <1>3, <1>4 DEF Abstract!Equal

LEMMA CompressStep ==
    ASSUME Inv, Compress
    PROVE  Inv' /\ Abstract!Fix
<1>1. /\ Setting /\ Sound(m) /\ Sound(other) /\ hash' = hash /\ other' = other
      /\ reply' = <<"compress", TRUE>>
  BY DEF Inv, Compress
<1> DEFINE u == IF m.compr THEN m ELSE Compressed(m)
<1>2. m' = u
  BY DEF Compress
<1>3. /\ Sound(u) /\ u.compr = TRUE
      /\ \A x \in Key, w \in Value : HasPair(u, x, w) <=> HasPair(m, x, w)
  <2>1. CASE m.compr
    <3>1. u = m
      BY <2>1
    <3>2. m.compr = TRUE
      BY <1>1, <2>1, SoundTable, ShapeFields
    <3> HIDE DEF u
    <3> QED BY <1>1, <3>1, <3>2
  <2>2. CASE ~m.compr
    <3>1. u = Compressed(m)
      BY <2>2
    <3>2. Roomy(m) /\ \A k \in Keys(m) : k < m.cap
      BY <1>1, <2>2 DEF Sound, InPlace, Compress
    <3>3. /\ InPlace(u) /\ u.sum = SumOf(u)
          /\ \A x \in Key, w \in Value : HasPair(u, x, w) <=> HasPair(m, x, w)
      BY <1>1, <3>1, <3>2, CompressedIs
    <3> HIDE DEF u
    <3>4. u.compr = TRUE
      BY <3>3, ShapeFields DEF InPlace
    <3> QED BY <3>3, <3>4 DEF Sound
  <2> QED BY <2>1, <2>2
<1> HIDE DEF u
<1>4. Inv'
  BY <1>1, <1>2, <1>3, InvPrimed
<1>5. Contents(m)' = Contents(u) /\ Contents(other)' = Contents(other) /\ (m.compr)' = TRUE
  BY <1>1, <1>2, <1>3, AbstractPrimed
<1>6. Contents(u) = Contents(m)
  BY <1>1, <1>3, SameContents
<1> QED
  BY <1>1, <1>4, <1>5, <1>6 DEF Abstract!Fix

LEMMA StepIsSound ==
    ASSUME Inv, [Next]_vars
    PROVE  Inv' /\ [Abstract!Next]_<<Contents(m), Contents(other), m.compr, reply>>
<1>1. ASSUME NEW k \in Key, NEW v \in Value, Put(k, v)
      PROVE  Inv' /\ Abstract!Next
  <2>1. Inv' /\ (Abstract!Put(k, v) \/ Abstract!Refuse(k))
    BY <1>1, PutStep
  <2> QED BY <2>1 DEF Abstract!Next
<1>2. ASSUME NEW k \in Key, Get(k)
      PROVE  Inv' /\ Abstract!Next
  <2>1. Inv' /\ Abstract!Get(k)
    BY <1>2, GetStep
  <2> QED BY <2>1 DEF Abstract!Next
<1>3. ASSUME NEW k \in Key, Remove(k)
      PROVE  Inv' /\ Abstract!Next
  <2>1. Inv' /\ Abstract!Remove(k)
    BY <1>3, RemoveStep
  <2> QED BY <2>1 DEF Abstract!Next
<1>4. CASE Copy
  BY <1>4, CopyStep DEF Abstract!Next
<1>5. CASE Compare
  BY <1>5, CompareStep DEF Abstract!Next
<1>6. CASE Compress
  BY <1>6, CompressStep DEF Abstract!Next
<1>7. CASE UNCHANGED vars
  <2>1. Setting /\ Sound(m) /\ Sound(other) /\ hash' = hash /\ other' = other /\ m' = m /\ reply' = reply
    BY <1>7 DEF Inv, vars
  <2>2. Inv'
    BY <2>1, InvPrimed
  <2>3. Contents(m)' = Contents(m) /\ Contents(other)' = Contents(other) /\ (m.compr)' = m.compr
    BY <2>1, AbstractPrimed
  <2> QED BY <2>1, <2>2, <2>3
<1> QED
  BY <1>1, <1>2, <1>3, <1>4, <1>5, <1>6, <1>7 DEF Next

(* The tables are sound after every history of calls: type, distinct keys, *)
(* links, the number of the entries, the room the load test leaves, and    *)
(* the checksum.                                                           *)
THEOREM AlwaysSound ==
    ASSUME ConstantsOK
    PROVE  Spec => []Inv
<1>1. Init => Inv
  BY InitIsSound
<1>2. Inv /\ [Next]_vars => Inv'
  BY StepIsSound
<1> QED
  BY <1>1, <1>2, PTL DEF Spec

(* No entry is ever out of the reach of its probe, and no uncompressed     *)
(* table fills up, so that every probe ends: map_get, map_put and          *)
(* map_remove of std/map.c.                                                *)
THEOREM EntriesStayReachable ==
    ASSUME ConstantsOK
    PROVE  Spec => []EntriesReachable
<1>1. Inv => EntriesReachable
  <2> SUFFICES ASSUME Inv, ~m.compr
               PROVE  /\ Used(m) # Slots(m)
                      /\ \A i \in Used(m) :
                            ProbeEnds(m, m.slot[i].key) /\ Probe(m, m.slot[i].key) = i
    BY DEF EntriesReachable
  <2>1. Setting /\ Roomy(m)
    BY DEF Inv, Sound, InPlace
  <2>2. Used(m) # Slots(m)
    BY <2>1, RoomyHasUnused DEF Used
  <2>3. Shape(m) /\ Distinct(m) /\ Linked(m)
    BY <2>1 DEF Roomy, Open
  <2>4. \A i \in Used(m) : ProbeEnds(m, m.slot[i].key) /\ Probe(m, m.slot[i].key) = i
    BY <2>1, <2>3, ProbeFinds DEF Linked
  <2> QED BY <2>2, <2>4
<1> QED
  BY <1>1, AlwaysSound, PTL

(* Every answer of map_t is the one of a partial function from keys to     *)
(* values, whatever the hash function, the capacity and the calls.         *)
THEOREM IsKeyValue ==
    ASSUME ConstantsOK
    PROVE  Spec => MapIsKeyValue
<1>1. Init => Abstract!Init
  BY InitIsSound
<1>2. Inv /\ [Next]_vars => [Abstract!Next]_<<Contents(m), Contents(other), m.compr, reply>>
  BY StepIsSound
<1> QED
  BY <1>1, <1>2, AlwaysSound, PTL DEF Spec, MapIsKeyValue, Abstract!Spec

(* No probe of map_get, map_put or map_remove goes round for ever, before  *)
(* or after the table grows: a call is never kept from returning.          *)
EveryProbeEnds ==
    \A k \in Key : /\ ProbeEnds(m, k)
                   /\ \A v \in Value : HasRoom(m, k) => ProbeEnds(Grown(m), k)

THEOREM ProbesEnd ==
    ASSUME ConstantsOK
    PROVE  Spec => []EveryProbeEnds
<1>1. Inv => EveryProbeEnds
  <2> SUFFICES ASSUME Inv, NEW k \in Key
               PROVE  ProbeEnds(m, k) /\ \A v \in Value : HasRoom(m, k) => ProbeEnds(Grown(m), k)
    BY DEF EveryProbeEnds
  <2>1. Setting /\ Sound(m) /\ ProbeEnds(m, k)
    BY Answers DEF Inv
  <2>2. CASE Roomy(m)
    BY <2>1, <2>2, InsertedIs
  <2>3. CASE InPlace(m)
    BY <2>1, <2>3 DEF InPlace, Grown, ProbeEnds
  <2> QED BY <2>1, <2>2, <2>3 DEF Sound
<1> QED
  BY <1>1, AlwaysSound, PTL
-----------------------------------------------------------------------------
(* The heap.                                                               *)

LEMMA MinIsLeast ==
    ASSUME NEW T, T \subseteq Nat, T # {}
    PROVE  Min(T) \in T /\ \A y \in T : Min(T) <= y
  BY LeastNat DEF Min

(* What a loop computes: G takes the value so far and the index.           *)
Loops(n, S, x, G) ==
    {f \in [0 .. n -> S] : f[0] = x /\ \A k \in 1 .. n : f[k] = G[<<f[k - 1], k - 1>>]}

LEMMA Iterates ==
    ASSUME NEW n \in Nat, NEW S, NEW x \in S, NEW G \in [S \X (0 .. n) -> S]
    PROVE  Loops(n, S, x, G) # {}
<1> DEFINE Upto(f, mid) == /\ f \in [0 .. mid -> S] /\ f[0] = x
                         /\ \A k \in 1 .. mid : f[k] = G[<<f[k - 1], k - 1>>]
           T == {mid \in 0 .. n : \E f : Upto(f, mid)}
<1>1. 0 \in T
  <2> DEFINE f == [k \in 0 .. 0 |-> x]
  <2>1. Upto(f, 0)
    OBVIOUS
  <2>2. \E e : Upto(e, 0)
    <3> HIDE DEF Upto, f
    <3> QED BY <2>1
  <2> QED BY <2>2
<1>2. ASSUME NEW p \in 0 .. n, p \in T, p < n PROVE p + 1 \in T
  <2>1. PICK f : Upto(f, p)
    BY <1>2
  <2> DEFINE g == [k \in 0 .. p + 1 |-> IF k <= p THEN f[k] ELSE G[<<f[p], p>>]]
  <2>2. f[p] \in S /\ p \in 0 .. n /\ <<f[p], p>> \in S \X (0 .. n)
    BY <2>1
  <2>3. G[<<f[p], p>>] \in S
    BY <2>2
  <2>4. g \in [0 .. p + 1 -> S]
    BY <2>1, <2>3
  <2>5. g[0] = x
    BY <2>1
  <2>6. ASSUME NEW k \in 1 .. p + 1 PROVE g[k] = G[<<g[k - 1], k - 1>>]
    <3>1. CASE k <= p
      <4>1. k \in 1 .. p /\ k - 1 \in 0 .. p + 1 /\ k - 1 <= p /\ k \in 0 .. p + 1
        BY <3>1
      <4> QED BY <2>1, <3>1, <4>1
    <3>2. CASE k = p + 1
      <4>1. k - 1 = p /\ ~(k <= p) /\ p \in 0 .. p + 1 /\ k \in 0 .. p + 1
        BY <3>2
      <4> QED BY <4>1
    <3> QED BY <3>1, <3>2
  <2>7. Upto(g, p + 1)
    BY <2>4, <2>5, <2>6
  <2>8. \E e : Upto(e, p + 1)
    <3> HIDE DEF Upto, g
    <3> QED BY <2>7
  <2> QED BY <1>2, <2>8
<1>3. T = 0 .. n
  <2> HIDE DEF T
  <2>1. T \in SUBSET (0 .. n)
    BY DEF T
  <2> QED BY <1>1, <1>2, <2>1, IntervalInduction
<1>4. PICK f : Upto(f, n)
  BY <1>3
<1> QED
  BY <1>4 DEF Loops
-----------------------------------------------------------------------------
(* Size classes.                                                           *)
LEMMA ClassIsLeast ==
    ASSUME NEW n \in Int
    PROVE  /\ Class(n) \in 0 .. 31
           /\ Class(n) = 31 \/ n <= 2 ^ Class(n)
           /\ \A j \in 0 .. Class(n) - 1 : n > 2 ^ j
<1> DEFINE T == {i \in 0 .. 31 : i = 31 \/ n <= 2 ^ i}
<1>1. T \subseteq Nat /\ 31 \in T
  OBVIOUS
<1>2. PICK x \in T : \A y \in T : x <= y
  <2> HIDE DEF T
  <2> QED BY <1>1, LeastNat
<1>3. \A j \in 0 .. 31 : 2 ^ j \in Int
  OBVIOUS
<1>4. \A j \in 0 .. x - 1 : n > 2 ^ j
  <2> TAKE j \in 0 .. x - 1
  <2>1. j \in 0 .. 31 /\ j < x /\ 2 ^ j \in Int
    BY <1>3
  <2>2. j \notin T
    BY <1>2, <2>1
  <2> QED BY <2>1, <2>2
<1>5. x \in 0 .. 31 /\ (x = 31 \/ n <= 2 ^ x)
  OBVIOUS
<1> QED
  BY <1>4, <1>5 DEF Class

LEMMA ClassGrows ==
    ASSUME NEW n \in Int, NEW mid \in Int, n <= mid
    PROVE  Class(n) <= Class(mid)
<1> SUFFICES ASSUME Class(mid) < Class(n) PROVE FALSE
  BY ClassIsLeast
<1>1. Class(mid) \in 0 .. 31 /\ Class(n) \in 0 .. 31
  BY ClassIsLeast
<1> DEFINE d == Class(mid)
<1>2. d \in 0 .. Class(n) - 1 /\ d # 31
  BY <1>1
<1>3. n > 2 ^ d
  BY <1>2, ClassIsLeast
<1>4. mid <= 2 ^ d
  BY <1>2, ClassIsLeast
<1>5. 2 ^ d \in Int
  BY <1>1
<1> HIDE DEF d
<1> QED
  BY <1>3, <1>4, <1>5

LEMMA ClassOfBlock ==
    ASSUME NEW n \in Int, n <= Arena
    PROVE  Class(n) \in Classes
  BY ClassGrows, ClassIsLeast, HeapAssumption DEF Classes
-----------------------------------------------------------------------------
(* Heaps as values.                                                        *)
Pointer == Address \union {NULL}
BlockRecord == [size : Nat, free : BOOLEAN, next : Pointer, prev : Pointer,
                nextFree : Pointer, prevFree : Pointer]
Heaps == [blk : UNION {[B -> BlockRecord] : B \in SUBSET Address},
          list : [Classes -> Pointer], allocated : Int]

LEMMA HeapFields ==
    ASSUME NEW h \in Heaps
    PROVE  /\ h.blk \in [DOMAIN h.blk -> BlockRecord]
           /\ DOMAIN h.blk \in SUBSET Address
           /\ IsFiniteSet(DOMAIN h.blk) /\ Cardinality(DOMAIN h.blk) \in Nat
           /\ h.list \in [Classes -> Pointer] /\ h.allocated \in Int
           /\ NULL \notin DOMAIN h.blk /\ NULL \notin Address
           /\ \A a \in DOMAIN h.blk :
                /\ h.blk[a] \in BlockRecord /\ a \in Nat /\ a < Arena
                /\ h.blk[a].size \in Nat /\ h.blk[a].free \in BOOLEAN
                /\ h.blk[a].next \in Pointer /\ h.blk[a].prev \in Pointer
                /\ h.blk[a].nextFree \in Pointer /\ h.blk[a].prevFree \in Pointer
                /\ Class(h.blk[a].size) \in Int
<1>1. PICK B \in SUBSET Address : h.blk \in [B -> BlockRecord]
  BY DEF Heaps
<1>2. DOMAIN h.blk = B /\ NULL \notin Address
  BY <1>1, HeapAssumption DEF Address, NULL
<1>3. IsFiniteSet(DOMAIN h.blk) /\ Cardinality(DOMAIN h.blk) \in Nat
  <2>1. 0 \in Int /\ Arena - 1 \in Int
    BY HeapAssumption
  <2>2. IsFiniteSet(Address)
    BY <2>1, FS_Interval DEF Address
  <2> QED BY <1>2, <2>2, FS_Subset, FS_CardinalityType
<1>4. h.list \in [Classes -> Pointer] /\ h.allocated \in Int
  BY DEF Heaps
<1>5. ASSUME NEW a \in B
      PROVE /\ h.blk[a] \in BlockRecord /\ a \in Nat /\ a < Arena
            /\ h.blk[a].size \in Nat /\ h.blk[a].free \in BOOLEAN
            /\ h.blk[a].next \in Pointer /\ h.blk[a].prev \in Pointer
            /\ h.blk[a].nextFree \in Pointer /\ h.blk[a].prevFree \in Pointer
            /\ Class(h.blk[a].size) \in Int
  <2>1. h.blk[a] \in BlockRecord /\ a \in Address
    BY <1>1
  <2>2. h.blk[a].size \in Nat /\ a \in Nat /\ a < Arena
    BY <2>1, HeapAssumption DEF BlockRecord, Address
  <2> QED BY <2>1, <2>2, ClassIsLeast DEF BlockRecord
<1> QED
  BY <1>1, <1>2, <1>3, <1>4, <1>5

(* The same blocks of the same sizes, in the same order and use.           *)
SameBlocks(h, g) ==
    /\ DOMAIN g.blk = DOMAIN h.blk
    /\ \A x \in DOMAIN h.blk :
        /\ g.blk[x].size = h.blk[x].size
        /\ g.blk[x].next = h.blk[x].next /\ g.blk[x].prev = h.blk[x].prev

LEMMA InsertFreeFacts ==
    ASSUME NEW h \in Heaps, NEW a \in DOMAIN h.blk, Class(h.blk[a].size) \in Classes
    PROVE  LET g == InsertFree(h, a)
               i == Class(h.blk[a].size)
           IN  /\ g \in Heaps /\ SameBlocks(h, g)
               /\ g.allocated = h.allocated
               /\ g.list = [h.list EXCEPT ![i] = a]
               /\ \A x \in DOMAIN h.blk :
                    /\ g.blk[x].free = (h.blk[x].free \/ x = a)
                    /\ g.blk[x].nextFree = IF x = a THEN h.list[i] ELSE h.blk[x].nextFree
                    /\ g.blk[x].prevFree = IF x = a THEN NULL ELSE IF x = h.list[i] THEN a
                                           ELSE h.blk[x].prevFree
<1> DEFINE g == InsertFree(h, a)
           i == Class(h.blk[a].size)
           new(x) == IF x = a THEN [h.blk[x] EXCEPT !.free = TRUE, !.prevFree = NULL,
                                                    !.nextFree = h.list[i]]
                     ELSE IF x = h.list[i] THEN [h.blk[x] EXCEPT !.prevFree = a]
                     ELSE h.blk[x]
           blk == [x \in DOMAIN h.blk |-> new(x)]
<1>1. g = [h EXCEPT !.blk = blk, !.list[i] = a]
  BY DEF InsertFree
<1>2. a \in Pointer /\ NULL \in Pointer /\ h.list[i] \in Pointer
  BY HeapFields DEF Pointer
<1>3. ASSUME NEW x \in DOMAIN h.blk
      PROVE /\ new(x) \in BlockRecord
            /\ new(x).size = h.blk[x].size /\ new(x).next = h.blk[x].next
            /\ new(x).prev = h.blk[x].prev /\ new(x).free = (h.blk[x].free \/ x = a)
            /\ new(x).nextFree = IF x = a THEN h.list[i] ELSE h.blk[x].nextFree
            /\ new(x).prevFree = IF x = a THEN NULL ELSE IF x = h.list[i] THEN a
                                 ELSE h.blk[x].prevFree
  <2>1. h.blk[x] \in BlockRecord /\ h.blk[x].free \in BOOLEAN
    BY HeapFields
  <2> QED BY <1>2, <2>1 DEF BlockRecord
<1> HIDE DEF new
<1>4. blk \in [DOMAIN h.blk -> BlockRecord] /\ DOMAIN h.blk \in SUBSET Address
  BY <1>3, HeapFields
<1>5. blk \in UNION {[B -> BlockRecord] : B \in SUBSET Address}
  BY <1>4
<1>6. [h.list EXCEPT ![i] = a] \in [Classes -> Pointer] /\ h.allocated \in Int
  BY <1>2, HeapFields
<1> HIDE DEF blk
<1>7. g \in Heaps /\ g.blk = blk /\ g.list = [h.list EXCEPT ![i] = a] /\ g.allocated = h.allocated
  BY <1>1, <1>5, <1>6 DEF Heaps
<1>8. DOMAIN g.blk = DOMAIN h.blk /\ \A x \in DOMAIN h.blk : g.blk[x] = new(x)
  BY <1>7 DEF blk
<1> HIDE DEF g
<1>9. /\ SameBlocks(h, g)
      /\ \A x \in DOMAIN h.blk :
            /\ g.blk[x].free = (h.blk[x].free \/ x = a)
            /\ g.blk[x].nextFree = IF x = a THEN h.list[i] ELSE h.blk[x].nextFree
            /\ g.blk[x].prevFree = IF x = a THEN NULL ELSE IF x = h.list[i] THEN a
                                   ELSE h.blk[x].prevFree
  BY <1>3, <1>8 DEF SameBlocks
<1> QED
  BY <1>7, <1>9 DEF g

LEMMA RemoveFreeFacts ==
    ASSUME NEW h \in Heaps, NEW a \in DOMAIN h.blk, Class(h.blk[a].size) \in Classes
    PROVE  LET g == RemoveFree(h, a)
               p == h.blk[a].prevFree
               n == h.blk[a].nextFree
           IN  /\ g \in Heaps /\ SameBlocks(h, g)
               /\ g.allocated = h.allocated /\ FreeBlocks(g) = FreeBlocks(h)
               /\ g.list = IF p # NULL THEN h.list
                           ELSE [h.list EXCEPT ![Class(h.blk[a].size)] = n]
               /\ \A x \in DOMAIN h.blk :
                    /\ g.blk[x].free = h.blk[x].free
                    /\ g.blk[x].nextFree = IF x = a THEN NULL ELSE IF x = p THEN n
                                           ELSE h.blk[x].nextFree
                    /\ g.blk[x].prevFree = IF x = a THEN NULL ELSE IF x = n THEN p
                                           ELSE h.blk[x].prevFree
<1> DEFINE g == RemoveFree(h, a)
           p == h.blk[a].prevFree
           n == h.blk[a].nextFree
           new(x) == [h.blk[x] EXCEPT !.nextFree = IF x = a THEN NULL ELSE IF x = p THEN n ELSE @,
                                      !.prevFree = IF x = a THEN NULL ELSE IF x = n THEN p ELSE @]
           blk == [x \in DOMAIN h.blk |-> new(x)]
           list == IF p # NULL THEN h.list ELSE [h.list EXCEPT ![Class(h.blk[a].size)] = n]
<1>1. g = [h EXCEPT !.blk = blk, !.list = list]
  <2>1. Unlinked(h, a) = blk
    BY DEF Unlinked
  <2> QED BY <2>1 DEF RemoveFree, Heaps
<1>2. p \in Pointer /\ n \in Pointer /\ NULL \in Pointer
  BY HeapFields DEF Pointer
<1>3. ASSUME NEW x \in DOMAIN h.blk
      PROVE /\ new(x) \in BlockRecord
            /\ new(x).size = h.blk[x].size /\ new(x).next = h.blk[x].next
            /\ new(x).prev = h.blk[x].prev /\ new(x).free = h.blk[x].free
            /\ new(x).nextFree = IF x = a THEN NULL ELSE IF x = p THEN n ELSE h.blk[x].nextFree
            /\ new(x).prevFree = IF x = a THEN NULL ELSE IF x = n THEN p ELSE h.blk[x].prevFree
  <2>1. h.blk[x] \in BlockRecord
    BY HeapFields
  <2> HIDE DEF p, n
  <2> QED BY <1>2, <2>1 DEF BlockRecord
<1> HIDE DEF new
<1>4. blk \in [DOMAIN h.blk -> BlockRecord] /\ DOMAIN h.blk \in SUBSET Address
  BY <1>3, HeapFields
<1>5. blk \in UNION {[B -> BlockRecord] : B \in SUBSET Address}
  BY <1>4
<1>6. list \in [Classes -> Pointer] /\ h.allocated \in Int
  <2> HIDE DEF p, n
  <2> QED BY <1>2, HeapFields
<1> HIDE DEF blk, list
<1>7. g \in Heaps /\ g.blk = blk /\ g.list = list /\ g.allocated = h.allocated
  BY <1>1, <1>5, <1>6 DEF Heaps
<1>8. DOMAIN g.blk = DOMAIN h.blk /\ \A x \in DOMAIN h.blk : g.blk[x] = new(x)
  BY <1>7 DEF blk
<1> HIDE DEF g, p, n
<1>9. /\ SameBlocks(h, g)
      /\ \A x \in DOMAIN h.blk :
            /\ g.blk[x].free = h.blk[x].free
            /\ g.blk[x].nextFree = IF x = a THEN NULL ELSE IF x = p THEN n ELSE h.blk[x].nextFree
            /\ g.blk[x].prevFree = IF x = a THEN NULL ELSE IF x = n THEN p ELSE h.blk[x].prevFree
  BY <1>3, <1>8 DEF SameBlocks
<1>10. FreeBlocks(g) = FreeBlocks(h)
  BY <1>9 DEF FreeBlocks, SameBlocks
<1> QED
  BY <1>7, <1>9, <1>10 DEF g, p, n, list

LEMMA MergeFacts ==
    ASSUME NEW h \in Heaps, NEW a \in DOMAIN h.blk,
           h.blk[a].next \in DOMAIN h.blk, h.blk[a].next # a
    PROVE  LET g == MergeWithNext(h, a)
               s == h.blk[a].next
           IN  /\ g \in Heaps /\ DOMAIN g.blk = DOMAIN h.blk \ {s}
               /\ g.allocated = h.allocated /\ g.list = h.list
               /\ \A x \in DOMAIN g.blk :
                    /\ g.blk[x].size = IF x = a THEN h.blk[a].size + Header + h.blk[s].size
                                       ELSE h.blk[x].size
                    /\ g.blk[x].next = IF x = a THEN h.blk[s].next ELSE h.blk[x].next
                    /\ g.blk[x].prev = IF x # a /\ x = h.blk[s].next THEN a ELSE h.blk[x].prev
                    /\ g.blk[x].free = h.blk[x].free
                    /\ g.blk[x].nextFree = h.blk[x].nextFree
                    /\ g.blk[x].prevFree = h.blk[x].prevFree
<1> DEFINE g == MergeWithNext(h, a)
           s == h.blk[a].next
           new(x) == IF x = a THEN [h.blk[a] EXCEPT !.size = @ + Header + h.blk[s].size,
                                                    !.next = h.blk[s].next]
                     ELSE IF x = h.blk[s].next THEN [h.blk[x] EXCEPT !.prev = a]
                     ELSE h.blk[x]
           blk == [x \in DOMAIN h.blk \ {s} |-> new(x)]
<1>1. g = [h EXCEPT !.blk = blk]
  BY DEF MergeWithNext
<1>2. a \in Pointer /\ h.blk[s].next \in Pointer /\ h.blk[s].size \in Nat /\ h.blk[a].size \in Nat
      /\ h.blk[a].size + Header + h.blk[s].size \in Nat
  BY HeapFields, HeapAssumption DEF Pointer
<1>3. ASSUME NEW x \in DOMAIN h.blk \ {s}
      PROVE /\ new(x) \in BlockRecord
            /\ new(x).size = IF x = a THEN h.blk[a].size + Header + h.blk[s].size ELSE h.blk[x].size
            /\ new(x).next = IF x = a THEN h.blk[s].next ELSE h.blk[x].next
            /\ new(x).prev = IF x # a /\ x = h.blk[s].next THEN a ELSE h.blk[x].prev
            /\ new(x).free = h.blk[x].free
            /\ new(x).nextFree = h.blk[x].nextFree /\ new(x).prevFree = h.blk[x].prevFree
  <2>1. h.blk[x] \in BlockRecord
    BY HeapFields
  <2> HIDE DEF s
  <2> QED BY <1>2, <2>1 DEF BlockRecord
<1> HIDE DEF new
<1>4. blk \in [DOMAIN h.blk \ {s} -> BlockRecord] /\ DOMAIN h.blk \ {s} \in SUBSET Address
  BY <1>3, HeapFields
<1>5. blk \in UNION {[B -> BlockRecord] : B \in SUBSET Address}
  BY <1>4
<1> HIDE DEF blk
<1>7. g \in Heaps /\ g.blk = blk /\ g.list = h.list /\ g.allocated = h.allocated
  BY <1>1, <1>5 DEF Heaps
<1>8. DOMAIN g.blk = DOMAIN h.blk \ {s} /\ \A x \in DOMAIN g.blk : g.blk[x] = new(x)
  BY <1>7 DEF blk
<1> HIDE DEF g, s
<1>9. \A x \in DOMAIN g.blk :
            /\ g.blk[x].size = IF x = a THEN h.blk[a].size + Header + h.blk[s].size ELSE h.blk[x].size
            /\ g.blk[x].next = IF x = a THEN h.blk[s].next ELSE h.blk[x].next
            /\ g.blk[x].prev = IF x # a /\ x = h.blk[s].next THEN a ELSE h.blk[x].prev
            /\ g.blk[x].free = h.blk[x].free
            /\ g.blk[x].nextFree = h.blk[x].nextFree /\ g.blk[x].prevFree = h.blk[x].prevFree
  BY <1>3, <1>8
<1> QED
  BY <1>7, <1>8, <1>9 DEF g, s

LEMMA CutFacts ==
    ASSUME NEW h \in Heaps, NEW a \in DOMAIN h.blk, NEW n \in Nat,
           h.blk[a].size >= n + Header + 1, a + Header + h.blk[a].size <= Arena,
           Rest(a, n) \notin DOMAIN h.blk
    PROVE  LET g == Cut(h, a, n)
               r == Rest(a, n)
           IN  /\ g \in Heaps /\ DOMAIN g.blk = DOMAIN h.blk \union {r} /\ r \in Address
               /\ g.allocated = h.allocated /\ g.list = h.list
               /\ /\ g.blk[r].size = h.blk[a].size - n - Header
                  /\ g.blk[r].next = h.blk[a].next /\ g.blk[r].prev = a /\ g.blk[r].free
               /\ \A x \in DOMAIN h.blk :
                    /\ g.blk[x].size = IF x = a THEN n ELSE h.blk[x].size
                    /\ g.blk[x].next = IF x = a THEN r ELSE h.blk[x].next
                    /\ g.blk[x].prev = IF x # a /\ x = h.blk[a].next THEN r ELSE h.blk[x].prev
                    /\ g.blk[x].free = h.blk[x].free
                    /\ g.blk[x].nextFree = h.blk[x].nextFree
                    /\ g.blk[x].prevFree = h.blk[x].prevFree
<1> DEFINE g == Cut(h, a, n)
           r == Rest(a, n)
           b == h.blk[a]
           rest == [size |-> b.size - n - Header, free |-> TRUE, next |-> b.next,
                    prev |-> a, nextFree |-> NULL, prevFree |-> NULL]
           new(x) == IF x = r THEN rest
                     ELSE IF x = a THEN [b EXCEPT !.size = n, !.next = r]
                     ELSE IF x = b.next THEN [h.blk[x] EXCEPT !.prev = r]
                     ELSE h.blk[x]
           blk == [x \in DOMAIN h.blk \union {r} |-> new(x)]
<1>1. g = [h EXCEPT !.blk = blk]
  BY DEF Cut
<1>2. /\ r \in Address /\ a \in Pointer /\ r \in Pointer /\ b.next \in Pointer /\ NULL \in Pointer
      /\ b.size - n - Header \in Nat /\ b \in BlockRecord /\ r # a
  BY HeapFields, HeapAssumption DEF Pointer, Rest, Address
<1>3. rest \in BlockRecord
  <2> HIDE DEF b, r
  <2> QED BY <1>2 DEF BlockRecord
<1>4. ASSUME NEW x \in DOMAIN h.blk
      PROVE /\ new(x) \in BlockRecord
            /\ new(x).size = IF x = a THEN n ELSE h.blk[x].size
            /\ new(x).next = IF x = a THEN r ELSE h.blk[x].next
            /\ new(x).prev = IF x # a /\ x = b.next THEN r ELSE h.blk[x].prev
            /\ new(x).free = h.blk[x].free
            /\ new(x).nextFree = h.blk[x].nextFree /\ new(x).prevFree = h.blk[x].prevFree
  <2>1. h.blk[x] \in BlockRecord /\ x # r
    BY HeapFields
  <2>2. x = a => h.blk[x] = b
    OBVIOUS
  <2> HIDE DEF b, r, rest
  <2> QED BY <1>2, <2>1, <2>2 DEF BlockRecord
<1>5. new(r) = rest
  OBVIOUS
<1> HIDE DEF new
<1>6. blk \in [DOMAIN h.blk \union {r} -> BlockRecord] /\ DOMAIN h.blk \union {r} \in SUBSET Address
  <2>1. \A x \in DOMAIN h.blk \union {r} : new(x) \in BlockRecord
    <3> HIDE DEF rest
    <3> QED BY <1>3, <1>4, <1>5
  <2>2. DOMAIN h.blk \union {r} \in SUBSET Address
    BY <1>2, HeapFields
  <2> HIDE DEF r
  <2> QED BY <2>1, <2>2
<1>7. blk \in UNION {[B -> BlockRecord] : B \in SUBSET Address}
  BY <1>6
<1> HIDE DEF blk
<1>8. g \in Heaps /\ g.blk = blk /\ g.list = h.list /\ g.allocated = h.allocated
  BY <1>1, <1>7 DEF Heaps
<1>9. /\ DOMAIN g.blk = DOMAIN h.blk \union {r} /\ g.blk[r] = rest
      /\ \A x \in DOMAIN h.blk : g.blk[x] = new(x)
  BY <1>5, <1>8 DEF blk
<1>10. /\ g.blk[r].size = b.size - n - Header
       /\ g.blk[r].next = b.next /\ g.blk[r].prev = a /\ g.blk[r].free
  BY <1>9
<1> HIDE DEF g, r
<1>11. \A x \in DOMAIN h.blk :
            /\ g.blk[x].size = IF x = a THEN n ELSE h.blk[x].size
            /\ g.blk[x].next = IF x = a THEN r ELSE h.blk[x].next
            /\ g.blk[x].prev = IF x # a /\ x = b.next THEN r ELSE h.blk[x].prev
            /\ g.blk[x].free = h.blk[x].free
            /\ g.blk[x].nextFree = h.blk[x].nextFree /\ g.blk[x].prevFree = h.blk[x].prevFree
  BY <1>4, <1>9
<1> QED
  BY <1>2, <1>8, <1>9, <1>10, <1>11 DEF g, r
-----------------------------------------------------------------------------
(* The free lists.  F are the blocks in them, and d is the place of each   *)
(* in its list.                                                            *)
Kind(h, a) == Class(h.blk[a].size)
Members(h, F, i) == {x \in F : Kind(h, x) = i}

Ordered(h, F, d) ==
    /\ \A a \in F : Kind(h, a) \in Classes /\ d[a] < Cardinality(Members(h, F, Kind(h, a)))
    /\ \A a, b \in F : Kind(h, a) = Kind(h, b) /\ d[a] = d[b] => a = b
Headed(h, F, d) ==
    /\ \A i \in Classes : h.list[i] # NULL =>
            h.list[i] \in F /\ Kind(h, h.list[i]) = i /\ h.blk[h.list[i]].prevFree = NULL
    /\ \A a \in F : h.blk[a].prevFree = NULL => d[a] = 0 /\ h.list[Kind(h, a)] = a
Before(h, F, d) ==
    \A a \in F : LET p == h.blk[a].prevFree
                 IN  p # NULL => p \in F /\ Kind(h, p) = Kind(h, a) /\ d[p] + 1 = d[a]
                                 /\ h.blk[p].nextFree = a
BeforeNext(h, F, d) ==
    \A a \in F : LET n == h.blk[a].nextFree
                 IN  n # NULL => n \in F /\ Kind(h, n) = Kind(h, a) /\ d[n] = d[a] + 1
                                 /\ h.blk[n].prevFree = a
Chained(h, F, d) ==
    /\ F \subseteq DOMAIN h.blk /\ d \in [Address -> Nat]
    /\ Ordered(h, F, d) /\ Headed(h, F, d) /\ Before(h, F, d) /\ BeforeNext(h, F, d)

LEMMA InsertChains ==
    ASSUME NEW h \in Heaps, NEW F, NEW d, Chained(h, F, d),
           NEW a \in DOMAIN h.blk, a \notin F, Kind(h, a) \in Classes
    PROVE  \E e : Chained(InsertFree(h, a), F \union {a}, e)
<1> DEFINE g == InsertFree(h, a)
           i == Kind(h, a)
           G == F \union {a}
           e == [x \in Address |-> IF x = a THEN 0
                                   ELSE IF x \in F /\ Kind(h, x) = i THEN d[x] + 1 ELSE d[x]]
<1>1. /\ g \in Heaps /\ SameBlocks(h, g)
      /\ g.list = [h.list EXCEPT ![i] = a]
      /\ \A x \in DOMAIN h.blk :
            /\ g.blk[x].nextFree = IF x = a THEN h.list[i] ELSE h.blk[x].nextFree
            /\ g.blk[x].prevFree = IF x = a THEN NULL ELSE IF x = h.list[i] THEN a
                                   ELSE h.blk[x].prevFree
  BY InsertFreeFacts DEF Kind
<1> HIDE DEF g
<1>2. \A x \in DOMAIN h.blk : Kind(g, x) = Kind(h, x)
  BY <1>1 DEF SameBlocks, Kind
<1>3. /\ F \subseteq DOMAIN h.blk /\ G \subseteq DOMAIN g.blk /\ DOMAIN g.blk = DOMAIN h.blk
      /\ DOMAIN h.blk \subseteq Address /\ NULL \notin DOMAIN h.blk /\ IsFiniteSet(DOMAIN h.blk)
      /\ h.list \in [Classes -> Pointer] /\ i \in Classes /\ d \in [Address -> Nat]
      /\ \A x \in DOMAIN h.blk : Kind(h, x) \in Int
  BY <1>1, HeapFields DEF Chained, SameBlocks, Kind
<1>4. e \in [Address -> Nat]
  BY <1>3
<1>5. \A x \in F : d[x] \in Nat /\ x # a /\ e[x] = IF Kind(h, x) = i THEN d[x] + 1 ELSE d[x]
  BY <1>3
<1>6. e[a] = 0
  BY <1>3
<1> HIDE DEF e, i
<1>7. Ordered(g, G, e)
  <2>1. Members(g, G, i) = Members(h, F, i) \union {a} /\ a \notin Members(h, F, i)
    BY <1>2, <1>3 DEF Members, i
  <2>2. /\ IsFiniteSet(Members(h, F, i))
        /\ Cardinality(Members(g, G, i)) = Cardinality(Members(h, F, i)) + 1
        /\ Cardinality(Members(h, F, i)) \in Nat
    <3>1. Members(h, F, i) \subseteq DOMAIN h.blk
      BY <1>3 DEF Members
    <3> QED BY <1>3, <2>1, <3>1, FS_Subset, FS_AddElement, FS_CardinalityType
  <2>3. \A j \in Int : j # i => Members(g, G, j) = Members(h, F, j)
    BY <1>2, <1>3 DEF Members, i
  <2>4. ASSUME NEW x \in G
        PROVE Kind(g, x) \in Classes /\ e[x] < Cardinality(Members(g, G, Kind(g, x)))
    <3>1. CASE x = a
      BY <1>2, <1>3, <1>6, <2>2, <3>1 DEF i
    <3>2. CASE x \in F
      <4>1. Kind(h, x) \in Classes /\ d[x] < Cardinality(Members(h, F, Kind(h, x)))
            /\ Kind(g, x) = Kind(h, x) /\ Kind(h, x) \in Int
        BY <1>2, <1>3, <3>2 DEF Chained, Ordered
      <4>2. CASE Kind(h, x) = i
        BY <1>5, <2>2, <3>2, <4>1, <4>2
      <4>3. CASE Kind(h, x) # i
        BY <1>5, <2>3, <3>2, <4>1, <4>3
      <4> QED BY <4>2, <4>3
    <3> QED BY <3>1, <3>2
  <2>5. ASSUME NEW x \in G, NEW y \in G, Kind(g, x) = Kind(g, y), e[x] = e[y]
        PROVE x = y
    BY <1>2, <1>3, <1>5, <1>6, <2>5 DEF Chained, Ordered, i
  <2> QED BY <2>4, <2>5 DEF Ordered
<1>8. Headed(g, G, e)
  <2>1. ASSUME NEW j \in Classes, g.list[j] # NULL
        PROVE g.list[j] \in G /\ Kind(g, g.list[j]) = j /\ g.blk[g.list[j]].prevFree = NULL
    <3>1. CASE j = i
      BY <1>1, <1>2, <1>3, <3>1 DEF i
    <3>2. CASE j # i
      <4>1. g.list[j] = h.list[j] /\ h.list[j] \in F /\ Kind(h, h.list[j]) = j
            /\ h.blk[h.list[j]].prevFree = NULL
        BY <1>1, <1>3, <2>1, <3>2 DEF Chained, Headed
      <4>2. h.list[j] # h.list[i]
        BY <1>3, <3>2, <4>1 DEF Chained, Headed
      <4> QED BY <1>1, <1>2, <1>3, <1>5, <4>1, <4>2
    <3> QED BY <3>1, <3>2
  <2>2. ASSUME NEW x \in G, g.blk[x].prevFree = NULL
        PROVE e[x] = 0 /\ g.list[Kind(g, x)] = x
    <3>1. CASE x = a
      BY <1>1, <1>2, <1>3, <1>6, <3>1 DEF i
    <3>2. CASE x \in F
      <4>1. x # a /\ x # h.list[i] /\ h.blk[x].prevFree = NULL
        BY <1>1, <1>3, <1>5, <2>2, <3>2
      <4>2. d[x] = 0 /\ h.list[Kind(h, x)] = x /\ Kind(h, x) \in Classes
        BY <3>2, <4>1 DEF Chained, Headed, Ordered
      <4> QED BY <1>1, <1>2, <1>3, <1>5, <3>2, <4>1, <4>2
    <3> QED BY <3>1, <3>2
  <2> QED BY <2>1, <2>2 DEF Headed
<1>9. Before(g, G, e)
  <2> SUFFICES ASSUME NEW x \in G, NEW p, p = g.blk[x].prevFree, p # NULL
               PROVE p \in G /\ Kind(g, p) = Kind(g, x) /\ e[p] + 1 = e[x] /\ g.blk[p].nextFree = x
    BY DEF Before
  <2>1. x \in F /\ x # a
    BY <1>1, <1>3
  <2>2. CASE x = h.list[i]
    <3>1. p = a
      BY <1>1, <1>3, <2>1, <2>2
    <3>2. Kind(h, x) = i /\ d[x] = 0
      BY <1>3, <2>1, <2>2 DEF Chained, Headed
    <3> QED BY <1>1, <1>2, <1>3, <1>5, <1>6, <2>1, <2>2, <3>1, <3>2 DEF i
  <2>3. CASE x # h.list[i]
    <3>1. p = h.blk[x].prevFree
      BY <1>1, <1>3, <2>1, <2>3
    <3>2. p \in F /\ Kind(h, p) = Kind(h, x) /\ d[p] + 1 = d[x] /\ h.blk[p].nextFree = x
      BY <2>1, <3>1 DEF Chained, Before
    <3>3. g.blk[p].nextFree = x
      BY <1>1, <1>3, <1>5, <3>2
    <3>4. e[p] + 1 = e[x]
      BY <1>5, <2>1, <3>2
    <3> QED BY <1>2, <1>3, <2>1, <3>2, <3>3, <3>4
  <2> QED BY <2>2, <2>3
<1>10. BeforeNext(g, G, e)
  <2> SUFFICES ASSUME NEW x \in G, NEW n, n = g.blk[x].nextFree, n # NULL
               PROVE n \in G /\ Kind(g, n) = Kind(g, x) /\ e[n] = e[x] + 1 /\ g.blk[n].prevFree = x
    BY DEF BeforeNext
  <2>1. CASE x = a
    <3>1. n = h.list[i]
      BY <1>1, <2>1
    <3>2. n \in F /\ Kind(h, n) = i /\ d[n] = 0
      BY <1>3, <3>1 DEF Chained, Headed
    <3> QED BY <1>1, <1>2, <1>3, <1>5, <1>6, <2>1, <3>1, <3>2 DEF i
  <2>2. CASE x \in F
    <3>1. n = h.blk[x].nextFree /\ x # a
      BY <1>1, <1>3, <1>5, <2>2
    <3>2. n \in F /\ Kind(h, n) = Kind(h, x) /\ d[n] = d[x] + 1 /\ h.blk[n].prevFree = x
      BY <2>2, <3>1 DEF Chained, BeforeNext
    <3>3. n # h.list[i]
      <4>1. h.list[i] # NULL => h.blk[h.list[i]].prevFree = NULL
        BY <1>3 DEF Chained, Headed
      <4> QED BY <1>3, <2>2, <3>1, <3>2, <4>1
    <3>4. g.blk[n].prevFree = x
      BY <1>1, <1>3, <1>5, <3>2, <3>3
    <3>5. e[n] = e[x] + 1
      BY <1>5, <2>2, <3>2
    <3> QED BY <1>2, <1>3, <2>2, <3>2, <3>4, <3>5
  <2> QED BY <2>1, <2>2
<1>11. Chained(g, G, e)
  BY <1>3, <1>4, <1>7, <1>8, <1>9, <1>10 DEF Chained
<1> HIDE DEF G
<1> QED
  BY <1>11 DEF g, G

LEMMA RemoveChains ==
    ASSUME NEW h \in Heaps, NEW F, NEW d, Chained(h, F, d), NEW a \in F
    PROVE  \E e : Chained(RemoveFree(h, a), F \ {a}, e)
<1> DEFINE g == RemoveFree(h, a)
           i == Kind(h, a)
           G == F \ {a}
           p == h.blk[a].prevFree
           n == h.blk[a].nextFree
           e == [x \in Address |-> IF x \in F /\ Kind(h, x) = i /\ d[x] > d[a] THEN d[x] - 1 ELSE d[x]]
<1>1. a \in DOMAIN h.blk /\ i \in Classes
  BY DEF Chained, Ordered
<1>2. /\ g \in Heaps /\ SameBlocks(h, g)
      /\ g.list = IF p # NULL THEN h.list ELSE [h.list EXCEPT ![i] = n]
      /\ \A x \in DOMAIN h.blk :
            /\ g.blk[x].nextFree = IF x = a THEN NULL ELSE IF x = p THEN n ELSE h.blk[x].nextFree
            /\ g.blk[x].prevFree = IF x = a THEN NULL ELSE IF x = n THEN p ELSE h.blk[x].prevFree
  BY <1>1, RemoveFreeFacts DEF Kind
<1> HIDE DEF g
<1>3. \A x \in DOMAIN h.blk : Kind(g, x) = Kind(h, x)
  BY <1>2 DEF SameBlocks, Kind
<1>4. /\ F \subseteq DOMAIN h.blk /\ G \subseteq DOMAIN g.blk /\ DOMAIN g.blk = DOMAIN h.blk
      /\ DOMAIN h.blk \subseteq Address /\ NULL \notin DOMAIN h.blk /\ IsFiniteSet(DOMAIN h.blk)
      /\ h.list \in [Classes -> Pointer] /\ d \in [Address -> Nat]
      /\ \A x \in DOMAIN h.blk : Kind(h, x) \in Int
  BY <1>1, <1>2, HeapFields DEF Chained, SameBlocks, Kind
<1>5. e \in [Address -> Nat]
  <2> SUFFICES ASSUME NEW x \in Address PROVE e[x] \in Nat
    OBVIOUS
  <2>1. d[x] \in Nat /\ d[a] \in Nat
    BY <1>1, <1>4
  <2> QED BY <2>1
<1>6. \A x \in F : /\ d[x] \in Nat
                   /\ e[x] = IF Kind(h, x) = i /\ d[x] > d[a] THEN d[x] - 1 ELSE d[x]
  BY <1>4
<1>7. p # NULL => p \in F /\ Kind(h, p) = i /\ d[p] + 1 = d[a] /\ h.blk[p].nextFree = a
  BY DEF Chained, Before
<1>8. n # NULL => n \in F /\ Kind(h, n) = i /\ d[n] = d[a] + 1 /\ h.blk[n].prevFree = a
  BY DEF Chained, BeforeNext
<1>9. p = NULL => d[a] = 0 /\ h.list[i] = a
  BY DEF Chained, Headed
<1>10. \A x, y \in F : Kind(h, x) = Kind(h, y) /\ d[x] = d[y] => x = y
  BY DEF Chained, Ordered
<1> HIDE DEF e, i, n, p
<1>11. Ordered(g, G, e)
  <2>1. Members(g, G, i) = Members(h, F, i) \ {a} /\ a \in Members(h, F, i)
    BY <1>3, <1>4 DEF Members, i
  <2>2. /\ IsFiniteSet(Members(h, F, i))
        /\ Cardinality(Members(g, G, i)) = Cardinality(Members(h, F, i)) - 1
        /\ Cardinality(Members(h, F, i)) \in Nat
    <3>1. Members(h, F, i) \subseteq DOMAIN h.blk
      BY <1>4 DEF Members
    <3>2. IsFiniteSet(Members(h, F, i)) /\ Cardinality(Members(h, F, i)) \in Nat
      BY <1>4, <3>1, FS_Subset, FS_CardinalityType
    <3>3. Cardinality(Members(h, F, i) \ {a}) = Cardinality(Members(h, F, i)) - 1
      BY <2>1, <3>2, FS_RemoveElement
    <3> QED BY <2>1, <3>2, <3>3
  <2>3. \A j \in Int : j # i => Members(g, G, j) = Members(h, F, j)
    BY <1>3, <1>4 DEF Members, i
  <2>4. ASSUME NEW x \in G
        PROVE Kind(g, x) \in Classes /\ e[x] < Cardinality(Members(g, G, Kind(g, x)))
    <3>1. Kind(h, x) \in Classes /\ d[x] < Cardinality(Members(h, F, Kind(h, x)))
          /\ d[a] < Cardinality(Members(h, F, i)) /\ Kind(g, x) = Kind(h, x) /\ Kind(h, x) \in Int
      BY <1>3, <1>4 DEF Chained, Ordered, i
    <3>2. CASE Kind(h, x) = i
      <4>1. d[x] # d[a] /\ d[x] \in Nat /\ d[a] \in Nat
        BY <1>6, <1>10, <3>2 DEF i
      <4> QED BY <1>6, <2>2, <3>1, <3>2, <4>1
    <3>3. CASE Kind(h, x) # i
      BY <1>6, <2>3, <3>1, <3>3
    <3> QED BY <3>2, <3>3
  <2>5. ASSUME NEW x \in G, NEW y \in G, Kind(g, x) = Kind(g, y), e[x] = e[y]
        PROVE x = y
    <3>1. x \in F /\ y \in F /\ Kind(h, x) = Kind(h, y)
      BY <1>3, <1>4, <2>5
    <3>2. CASE Kind(h, x) = i
      <4>1. d[x] # d[a] /\ d[y] # d[a] /\ d[x] \in Nat /\ d[y] \in Nat /\ d[a] \in Nat
        BY <1>6, <1>10, <3>1, <3>2 DEF i
      <4>2. /\ e[x] = IF d[x] > d[a] THEN d[x] - 1 ELSE d[x]
            /\ e[y] = IF d[y] > d[a] THEN d[y] - 1 ELSE d[y]
        BY <1>6, <3>1, <3>2
      <4>3. \A u, v, w \in Nat :
               u # w /\ v # w /\ (IF u > w THEN u - 1 ELSE u) = (IF v > w THEN v - 1 ELSE v) => u = v
        OBVIOUS
      <4>4. d[x] = d[y]
        <5>1. (IF d[x] > d[a] THEN d[x] - 1 ELSE d[x]) = (IF d[y] > d[a] THEN d[y] - 1 ELSE d[y])
          BY <2>5, <4>2
        <5> QED BY <4>1, <4>3, <5>1
      <4> QED BY <1>10, <3>1, <4>4
    <3>3. CASE Kind(h, x) # i
      BY <1>6, <1>10, <2>5, <3>1, <3>3
    <3> QED BY <3>2, <3>3
  <2> QED BY <2>4, <2>5 DEF Ordered
<1>12. Headed(g, G, e)
  <2>1. ASSUME NEW j \in Classes, g.list[j] # NULL
        PROVE g.list[j] \in G /\ Kind(g, g.list[j]) = j /\ g.blk[g.list[j]].prevFree = NULL
    <3>1. CASE p = NULL /\ j = i
      <4>1. g.list[j] = n /\ n # NULL
        BY <1>2, <1>4, <2>1, <3>1
      <4>2. n \in G
        BY <1>6, <1>8, <4>1
      <4> QED BY <1>2, <1>3, <1>4, <1>8, <3>1, <4>1, <4>2
    <3>2. CASE ~(p = NULL /\ j = i)
      <4>1. g.list[j] = h.list[j]
        BY <1>2, <1>4, <3>2
      <4>2. h.list[j] \in F /\ Kind(h, h.list[j]) = j /\ h.blk[h.list[j]].prevFree = NULL
        BY <2>1, <4>1 DEF Chained, Headed
      <4>3. h.list[j] # a
        BY <3>2, <4>2 DEF p, i
      <4>4. h.list[j] # n
        BY <1>4, <1>8, <4>2
      <4> QED BY <1>2, <1>3, <1>4, <4>1, <4>2, <4>3, <4>4
    <3> QED BY <3>1, <3>2
  <2>2. ASSUME NEW x \in G, g.blk[x].prevFree = NULL
        PROVE e[x] = 0 /\ g.list[Kind(g, x)] = x
    <3>1. CASE x = n
      <4>1. p = NULL
        BY <1>2, <1>4, <2>2, <3>1
      <4>2. n # NULL /\ d[n] = 1 /\ d[a] = 0 /\ Kind(h, n) = i
        BY <1>4, <1>8, <1>9, <3>1, <4>1
      <4>3. e[x] = 0
        BY <1>6, <3>1, <4>2
      <4> QED BY <1>1, <1>2, <1>3, <1>4, <3>1, <4>1, <4>2, <4>3
    <3>2. CASE x # n
      <4>1. h.blk[x].prevFree = NULL
        BY <1>2, <1>4, <2>2, <3>2
      <4>2. d[x] = 0 /\ h.list[Kind(h, x)] = x /\ Kind(h, x) \in Classes
        BY <4>1 DEF Chained, Headed, Ordered
      <4>3. e[x] = 0
        BY <1>6, <4>2
      <4>4. ~(p = NULL /\ Kind(h, x) = i)
        BY <1>9, <4>2
      <4> QED BY <1>2, <1>3, <1>4, <4>2, <4>3, <4>4
    <3> QED BY <3>1, <3>2
  <2> QED BY <2>1, <2>2 DEF Headed
<1>13. Before(g, G, e)
  <2> SUFFICES ASSUME NEW x \in G, NEW q, q = g.blk[x].prevFree, q # NULL
               PROVE q \in G /\ Kind(g, q) = Kind(g, x) /\ e[q] + 1 = e[x] /\ g.blk[q].nextFree = x
    BY DEF Before
  <2>1. CASE x = n
    <3>1. q = p /\ p # NULL /\ n # NULL
      BY <1>2, <1>4, <2>1
    <3>2. p # a /\ p \in F /\ n \in F /\ d[p] + 1 = d[a] /\ d[n] = d[a] + 1
          /\ Kind(h, p) = i /\ Kind(h, n) = i /\ d[a] \in Nat
      BY <1>6, <1>7, <1>8, <3>1
    <3>3. e[p] + 1 = e[n]
      BY <1>6, <3>2
    <3> QED BY <1>2, <1>3, <1>4, <2>1, <3>1, <3>2, <3>3
  <2>2. CASE x # n
    <3>1. q = h.blk[x].prevFree
      BY <1>2, <1>4, <2>2
    <3>2. q \in F /\ Kind(h, q) = Kind(h, x) /\ d[q] + 1 = d[x] /\ h.blk[q].nextFree = x
      BY <3>1 DEF Chained, Before
    <3>3. q # a
      BY <2>2, <3>2 DEF n
    <3>4. q # p
      BY <1>7, <3>2
    <3>5. e[q] + 1 = e[x]
      <4>1. d[q] \in Nat /\ d[x] \in Nat /\ d[a] \in Nat
        BY <1>6, <3>2
      <4>2. CASE Kind(h, x) = i
        <5>1. d[q] # d[a] /\ d[x] # d[a]
          BY <1>10, <3>2, <3>3, <4>2 DEF i
        <5> QED BY <1>6, <3>2, <4>1, <4>2, <5>1
      <4>3. CASE Kind(h, x) # i
        BY <1>6, <3>2, <4>1, <4>3
      <4> QED BY <4>2, <4>3
    <3> QED BY <1>2, <1>3, <1>4, <3>2, <3>3, <3>4, <3>5
  <2> QED BY <2>1, <2>2
<1>14. BeforeNext(g, G, e)
  <2> SUFFICES ASSUME NEW x \in G, NEW q, q = g.blk[x].nextFree, q # NULL
               PROVE q \in G /\ Kind(g, q) = Kind(g, x) /\ e[q] = e[x] + 1 /\ g.blk[q].prevFree = x
    BY DEF BeforeNext
  <2>1. CASE x = p
    <3>1. q = n /\ p # NULL /\ n # NULL
      BY <1>2, <1>4, <2>1
    <3>2. n # a /\ p \in F /\ n \in F /\ d[p] + 1 = d[a] /\ d[n] = d[a] + 1
          /\ Kind(h, p) = i /\ Kind(h, n) = i /\ d[a] \in Nat /\ d[p] \in Nat
      BY <1>6, <1>7, <1>8, <3>1
    <3>3. e[n] = e[p] + 1
      BY <1>6, <3>2
    <3> QED BY <1>2, <1>3, <1>4, <2>1, <3>1, <3>2, <3>3
  <2>2. CASE x # p
    <3>1. q = h.blk[x].nextFree
      BY <1>2, <1>4, <2>2
    <3>2. q \in F /\ Kind(h, q) = Kind(h, x) /\ d[q] = d[x] + 1 /\ h.blk[q].prevFree = x
      BY <3>1 DEF Chained, BeforeNext
    <3>3. q # a
      BY <2>2, <3>2 DEF p
    <3>4. q # n
      BY <1>8, <3>2
    <3>5. e[q] = e[x] + 1
      <4>1. d[q] \in Nat /\ d[x] \in Nat /\ d[a] \in Nat
        BY <1>6, <3>2
      <4>2. CASE Kind(h, x) = i
        <5>1. d[q] # d[a] /\ d[x] # d[a]
          BY <1>10, <3>2, <3>3, <4>2 DEF i
        <5> QED BY <1>6, <3>2, <4>1, <4>2, <5>1
      <4>3. CASE Kind(h, x) # i
        BY <1>6, <3>2, <4>1, <4>3
      <4> QED BY <4>2, <4>3
    <3> QED BY <1>2, <1>3, <1>4, <3>2, <3>3, <3>4, <3>5
  <2> QED BY <2>1, <2>2
<1>15. Chained(g, G, e)
  BY <1>4, <1>5, <1>11, <1>12, <1>13, <1>14 DEF Chained
<1> HIDE DEF G
<1> QED
  BY <1>15 DEF g, G

(* Only what is in the lists matters to them.                              *)
LEMMA ChainsStay ==
    ASSUME NEW h \in Heaps, NEW g \in Heaps, NEW F, NEW d, Chained(h, F, d),
           F \subseteq DOMAIN g.blk, g.list = h.list,
           \A x \in F : /\ g.blk[x].size = h.blk[x].size
                        /\ g.blk[x].nextFree = h.blk[x].nextFree
                        /\ g.blk[x].prevFree = h.blk[x].prevFree
    PROVE  Chained(g, F, d)
<1>1. \A x \in F : Kind(g, x) = Kind(h, x)
  BY DEF Kind
<1>2. \A j : Members(g, F, j) = Members(h, F, j)
  BY <1>1 DEF Members
<1>3. Ordered(g, F, d)
  BY <1>1, <1>2 DEF Chained, Ordered
<1>4. Headed(g, F, d)
  BY <1>1 DEF Chained, Headed
<1>5. Before(g, F, d)
  BY <1>1 DEF Chained, Before
<1>6. BeforeNext(g, F, d)
  BY <1>1 DEF Chained, BeforeNext
<1> QED
  BY <1>3, <1>4, <1>5, <1>6 DEF Chained

(* Walking a list gives its members, each at its place.                    *)
LEMMA ListWalk ==
    ASSUME NEW h \in Heaps, NEW F, NEW d, Chained(h, F, d), NEW i \in Classes
    PROVE  /\ \A k \in Places(h) : ListFrom(h, i)[k] # NULL =>
                  /\ ListFrom(h, i)[k] \in F /\ Kind(h, ListFrom(h, i)[k]) = i
                  /\ d[ListFrom(h, i)[k]] = k
           /\ \A a \in F : Kind(h, a) = i => d[a] \in Places(h) /\ ListFrom(h, i)[d[a]] = a
<1> DEFINE n == Cardinality(DOMAIN h.blk)
           S == F \union {NULL}
           Later(a) == IF a = NULL THEN NULL ELSE h.blk[a].nextFree
           G == [z \in S \X (0 .. n) |-> Later(z[1])]
           l == ListFrom(h, i)
<1>1. /\ n \in Nat /\ F \subseteq DOMAIN h.blk /\ NULL \notin F /\ d \in [Address -> Nat]
      /\ DOMAIN h.blk \subseteq Address
  BY HeapFields DEF Chained
<1>2. h.list[i] \in S
  BY DEF Chained, Headed
<1>3. \A a \in S : Later(a) \in S
  BY DEF Chained, BeforeNext
<1>4. G \in [S \X (0 .. n) -> S]
  BY <1>3
<1>5. PICK f \in [0 .. n -> S] :
        f[0] = h.list[i] /\ \A k \in 1 .. n : f[k] = G[<<f[k - 1], k - 1>>]
  <2>1. Loops(n, S, h.list[i], G) # {}
    <3> HIDE DEF n, S, G
    <3> QED BY <1>1, <1>2, <1>4, Iterates
  <2> HIDE DEF n, S, G
  <2> QED BY <2>1 DEF Loops
<1>6. f = [k \in Places(h) |-> IF k = 0 THEN h.list[i] ELSE Later(f[k - 1])]
  <2>1. Places(h) = 0 .. n /\ \A k \in 0 .. n : k # 0 => k - 1 \in 0 .. n /\ k \in 1 .. n
    BY <1>1 DEF Places
  <2>2. ASSUME NEW k \in 0 .. n, k # 0 PROVE f[k] = Later(f[k - 1])
    <3>1. f[k - 1] \in S /\ k - 1 \in 0 .. n /\ f[k] = G[<<f[k - 1], k - 1>>]
      BY <1>5, <2>1, <2>2
    <3> HIDE DEF Later
    <3> QED BY <3>1
  <2> HIDE DEF G, Later, n
  <2> QED BY <1>5, <2>1, <2>2
<1>7. l = [k \in Places(h) |-> IF k = 0 THEN h.list[i] ELSE Later(l[k - 1])]
  <2> DEFINE P(e) == e = [k \in Places(h) |-> IF k = 0 THEN h.list[i] ELSE Later(e[k - 1])]
  <2>1. l = CHOOSE e : P(e)
    BY DEF ListFrom
  <2>2. \E e : P(e)
    BY <1>6
  <2> HIDE DEF P, l
  <2>3. P(l)
    BY <2>1, <2>2
  <2> QED BY <2>3 DEF P
<1> HIDE DEF l
<1>8. /\ l[0] = h.list[i]
      /\ \A k \in 1 .. n : l[k] = Later(l[k - 1])
  <2> HIDE DEF Later
  <2>1. 0 \in Places(h) /\ \A k \in 1 .. n : k \in Places(h) /\ k # 0
    BY <1>1 DEF Places
  <2> HIDE DEF n
  <2> QED BY <1>7, <2>1
<1>9. \A k \in 0 .. n : l[k] # NULL => l[k] \in F /\ Kind(h, l[k]) = i /\ d[l[k]] = k
  <2> DEFINE T == {k \in 0 .. n : l[k] # NULL => l[k] \in F /\ Kind(h, l[k]) = i /\ d[l[k]] = k}
  <2>1. 0 \in T
    BY <1>1, <1>8 DEF Chained, Headed
  <2>2. ASSUME NEW k \in 0 .. n, k \in T, k < n PROVE k + 1 \in T
    <3>1. l[k + 1] = Later(l[k]) /\ k + 1 \in 0 .. n
      BY <1>1, <1>8, <2>2
    <3>2. l[k + 1] # NULL => l[k] # NULL
      BY <3>1
    <3>3. l[k + 1] # NULL => l[k + 1] \in F /\ Kind(h, l[k + 1]) = i /\ d[l[k + 1]] = k + 1
      BY <1>1, <2>2, <3>1, <3>2 DEF Chained, BeforeNext
    <3> QED BY <3>1, <3>3
  <2>3. T \in SUBSET (0 .. n)
    OBVIOUS
  <2> HIDE DEF T, n
  <2>4. T = 0 .. n
    BY <1>1, <2>1, <2>2, <2>3, IntervalInduction
  <2> QED BY <2>4 DEF T
<1>10. \A a \in F : Kind(h, a) = i => d[a] \in 0 .. n
  <2> SUFFICES ASSUME NEW a \in F, Kind(h, a) = i PROVE d[a] \in 0 .. n
    OBVIOUS
  <2>1. d[a] < Cardinality(Members(h, F, i)) /\ d[a] \in Nat
    BY <1>1 DEF Chained, Ordered
  <2>2. Cardinality(Members(h, F, i)) <= n /\ Cardinality(Members(h, F, i)) \in Nat
    <3>1. Members(h, F, i) \subseteq DOMAIN h.blk /\ IsFiniteSet(DOMAIN h.blk)
      BY <1>1, HeapFields DEF Members
    <3> QED BY <3>1, FS_Subset, FS_CardinalityType
  <2> QED BY <1>1, <2>1, <2>2
<1>11. \A a \in F : Kind(h, a) = i => l[d[a]] = a
  <2> DEFINE T == {k \in 0 .. n : \A a \in F : Kind(h, a) = i /\ d[a] = k => l[k] = a}
  <2>1. 0 \in T
    <3> SUFFICES ASSUME NEW a \in F, Kind(h, a) = i, d[a] = 0 PROVE l[0] = a
      BY <1>1
    <3>1. h.blk[a].prevFree = NULL
      <4> SUFFICES ASSUME h.blk[a].prevFree # NULL PROVE FALSE
        OBVIOUS
      <4>1. h.blk[a].prevFree \in F /\ d[h.blk[a].prevFree] + 1 = d[a]
        BY DEF Chained, Before
      <4>2. d[h.blk[a].prevFree] \in Nat
        BY <1>1, <4>1
      <4> QED BY <4>1, <4>2
    <3> QED BY <1>8, <3>1 DEF Chained, Headed
  <2>2. ASSUME NEW k \in 0 .. n, k \in T, k < n PROVE k + 1 \in T
    <3>1. k + 1 \in 0 .. n /\ l[k + 1] = Later(l[k])
      BY <1>1, <1>8, <2>2
    <3> SUFFICES ASSUME NEW a \in F, Kind(h, a) = i, d[a] = k + 1 PROVE l[k + 1] = a
      BY <3>1
    <3> DEFINE p == h.blk[a].prevFree
    <3>2. p # NULL
      BY DEF Chained, Headed
    <3>3. p \in F /\ Kind(h, p) = i /\ d[p] + 1 = k + 1 /\ h.blk[p].nextFree = a
      BY <3>2 DEF Chained, Before
    <3>4. d[p] = k
      <4>1. d[p] \in Nat
        BY <1>1, <3>3
      <4> QED BY <3>3, <4>1
    <3>5. l[k] = p
      BY <2>2, <3>3, <3>4
    <3> QED BY <3>1, <3>2, <3>3, <3>5
  <2>3. T \in SUBSET (0 .. n)
    OBVIOUS
  <2>4. T = 0 .. n
    <3> HIDE DEF T, n
    <3> QED BY <1>1, <2>1, <2>2, <2>3, IntervalInduction
  <2> QED BY <1>10, <2>4
<1> QED
  BY <1>9, <1>10, <1>11 DEF Places, l

LEMMA ListsFollow ==
    ASSUME NEW h \in Heaps, NEW d, Chained(h, FreeBlocks(h), d)
    PROVE  ListsExact(h)
<1> SUFFICES ASSUME NEW i \in Classes
             PROVE  LET l == ListFrom(h, i)
                    IN  /\ \A j, k \in Places(h) : l[j] # NULL /\ l[j] = l[k] => j = k
                        /\ {l[k] : k \in Places(h)} \ {NULL} =
                             {a \in FreeBlocks(h) : Class(h.blk[a].size) = i}
  BY DEF ListsExact
<1> DEFINE l == ListFrom(h, i)
           F == FreeBlocks(h)
<1>1. /\ \A k \in Places(h) : l[k] # NULL => l[k] \in F /\ Kind(h, l[k]) = i /\ d[l[k]] = k
      /\ \A a \in F : Kind(h, a) = i => d[a] \in Places(h) /\ l[d[a]] = a
  BY ListWalk
<1>2. NULL \notin F
  BY HeapFields DEF FreeBlocks
<1> HIDE DEF l, F
<1>3. \A j, k \in Places(h) : l[j] # NULL /\ l[j] = l[k] => j = k
  BY <1>1
<1>4. {l[k] : k \in Places(h)} \ {NULL} = {a \in F : Kind(h, a) = i}
  BY <1>1, <1>2
<1> QED
  BY <1>3, <1>4 DEF l, F, Kind
-----------------------------------------------------------------------------
(* The tiling.                                                             *)
LEMMA TileFacts ==
    ASSUME NEW h \in Heaps, Tiles(h)
    PROVE  \A a \in DOMAIN h.blk :
              /\ a + Header + h.blk[a].size <= Arena /\ h.blk[a].size > 0
              /\ End(h, a) = a + Header + h.blk[a].size /\ End(h, a) \in Nat /\ a < End(h, a)
              /\ h.blk[a].size <= Arena /\ Kind(h, a) \in Classes
              /\ h.blk[a].next # NULL =>
                    LET s == h.blk[a].next
                    IN  s \in DOMAIN h.blk /\ s = End(h, a) /\ s # a /\ h.blk[s].prev = a
              /\ h.blk[a].prev # NULL =>
                    LET p == h.blk[a].prev
                    IN  p \in DOMAIN h.blk /\ p # a /\ h.blk[p].next = a /\ End(h, p) = a
<1> SUFFICES ASSUME NEW a \in DOMAIN h.blk
             PROVE /\ a + Header + h.blk[a].size <= Arena /\ h.blk[a].size > 0
                   /\ End(h, a) = a + Header + h.blk[a].size /\ End(h, a) \in Nat /\ a < End(h, a)
                   /\ h.blk[a].size <= Arena /\ Kind(h, a) \in Classes
                   /\ h.blk[a].next # NULL =>
                         LET s == h.blk[a].next
                         IN  s \in DOMAIN h.blk /\ s = End(h, a) /\ s # a /\ h.blk[s].prev = a
                   /\ h.blk[a].prev # NULL =>
                         LET p == h.blk[a].prev
                         IN  p \in DOMAIN h.blk /\ p # a /\ h.blk[p].next = a /\ End(h, p) = a
  OBVIOUS
<1>1. \A x \in DOMAIN h.blk :
         /\ x \in Nat /\ x < Arena /\ h.blk[x].size \in Nat /\ h.blk[x].size > 0
         /\ End(h, x) = x + Header + h.blk[x].size /\ End(h, x) \in Nat /\ x < End(h, x)
  BY HeapFields, HeapAssumption DEF Tiles, End
<1>2. a + Header + h.blk[a].size <= Arena
  <2>1. End(h, a) = Arena \/ End(h, a) \in DOMAIN h.blk
    BY DEF Tiles
  <2> QED BY <1>1, <2>1, HeapAssumption
<1>3. h.blk[a].size <= Arena /\ Kind(h, a) \in Classes
  BY <1>1, <1>2, HeapAssumption, ClassOfBlock DEF Kind
<1>4. ASSUME NEW s, s = h.blk[a].next, s # NULL
      PROVE  s \in DOMAIN h.blk /\ s = End(h, a) /\ s # a /\ h.blk[s].prev = a
  <2>1. s \in DOMAIN h.blk /\ s = End(h, a) /\ a < s
    BY <1>1, <1>4 DEF Tiles
  <2> DEFINE p == h.blk[s].prev
  <2>2. p \in DOMAIN h.blk /\ End(h, p) = s
    BY <1>1, <2>1 DEF Tiles
  <2>3. p \in Nat /\ a \in Nat /\ p < s
    BY <1>1, <2>2
  <2>4. ~(a < p) /\ ~(p < a)
    BY <1>1, <2>1, <2>2, <2>3 DEF Tiles
  <2> QED BY <2>1, <2>3, <2>4
<1>5. ASSUME NEW p, p = h.blk[a].prev, p # NULL
      PROVE  p \in DOMAIN h.blk /\ p # a /\ h.blk[p].next = a /\ End(h, p) = a
  <2>1. a # 0
    BY <1>5 DEF Tiles
  <2>2. p \in DOMAIN h.blk /\ End(h, p) = a /\ p < a /\ a < Arena
    BY <1>1, <1>5, <2>1 DEF Tiles
  <2> QED BY <1>1, <2>2, HeapAssumption DEF Tiles
<1> QED
  BY <1>1, <1>2, <1>3, <1>4, <1>5

LEMMA SameTiles ==
    ASSUME NEW h, NEW g, SameBlocks(h, g), Tiles(h)
    PROVE  Tiles(g)
<1>1. \A x \in DOMAIN h.blk : End(g, x) = End(h, x)
  BY DEF SameBlocks, End
<1>2. /\ 0 \in DOMAIN g.blk /\ g.blk[0].prev = NULL
      /\ \A a, b \in DOMAIN g.blk : a < b => End(g, a) <= b
  BY <1>1 DEF SameBlocks, Tiles
<1>3. \A a \in DOMAIN g.blk :
        /\ g.blk[a].size > 0
        /\ IF End(g, a) = Arena THEN g.blk[a].next = NULL
           ELSE g.blk[a].next = End(g, a) /\ End(g, a) \in DOMAIN g.blk
  BY <1>1 DEF SameBlocks, Tiles
<1>4. \A a \in DOMAIN g.blk \ {0} :
        g.blk[a].prev \in DOMAIN g.blk /\ End(g, g.blk[a].prev) = a
  BY <1>1 DEF SameBlocks, Tiles
<1> QED
  BY <1>2, <1>3, <1>4 DEF Tiles

LEMMA MergedTiles ==
    ASSUME NEW h \in Heaps, Tiles(h), NEW a \in DOMAIN h.blk, h.blk[a].next # NULL
    PROVE  Tiles(MergeWithNext(h, a))
<1> DEFINE g == MergeWithNext(h, a)
           s == h.blk[a].next
<1>1. s \in DOMAIN h.blk /\ s = End(h, a) /\ s # a /\ h.blk[s].prev = a
  BY TileFacts
<1>2. /\ g \in Heaps /\ DOMAIN g.blk = DOMAIN h.blk \ {s}
      /\ \A x \in DOMAIN g.blk :
            /\ g.blk[x].size = IF x = a THEN h.blk[a].size + Header + h.blk[s].size ELSE h.blk[x].size
            /\ g.blk[x].next = IF x = a THEN h.blk[s].next ELSE h.blk[x].next
            /\ g.blk[x].prev = IF x # a /\ x = h.blk[s].next THEN a ELSE h.blk[x].prev
  BY <1>1, MergeFacts
<1>3. \A x \in DOMAIN h.blk : /\ x \in Nat /\ h.blk[x].size \in Nat /\ h.blk[x].size > 0
                              /\ End(h, x) \in Nat /\ x < End(h, x)
                              /\ End(h, x) = x + Header + h.blk[x].size
  BY HeapFields, TileFacts
<1> HIDE DEF g, s
<1>4. \A x \in DOMAIN g.blk : End(g, x) = IF x = a THEN End(h, s) ELSE End(h, x)
  BY <1>1, <1>2, <1>3, HeapAssumption DEF End
<1>5. a \in DOMAIN g.blk /\ a \in Nat /\ s \in Nat /\ a < s /\ s < End(h, s)
  BY <1>1, <1>2, <1>3
<1>6. 0 \in DOMAIN g.blk /\ g.blk[0].prev = NULL
  <2>1. 0 \in DOMAIN h.blk /\ h.blk[0].prev = NULL /\ s # 0
    BY <1>5 DEF Tiles
  <2>2. ~(0 # a /\ 0 = h.blk[s].next)
    BY <1>1, <1>3, <1>5, TileFacts DEF NULL
  <2> QED BY <1>2, <2>1, <2>2
<1>7. ASSUME NEW x \in DOMAIN g.blk, NEW y \in DOMAIN g.blk, x < y PROVE End(g, x) <= y
  <2>1. x \in DOMAIN h.blk /\ y \in DOMAIN h.blk /\ y # s /\ End(h, x) <= y
    BY <1>2, <1>7 DEF Tiles
  <2>2. CASE x = a
    <3>1. s < y
      BY <1>1, <1>3, <2>1, <2>2
    <3>2. End(h, s) <= y
      BY <1>1, <2>1, <3>1 DEF Tiles
    <3> QED BY <1>4, <2>2, <3>2
  <2>3. CASE x # a
    BY <1>4, <2>1, <2>3
  <2> QED BY <2>2, <2>3
<1>8. ASSUME NEW x \in DOMAIN g.blk
      PROVE  /\ g.blk[x].size > 0
             /\ IF End(g, x) = Arena THEN g.blk[x].next = NULL
                ELSE g.blk[x].next = End(g, x) /\ End(g, x) \in DOMAIN g.blk
  <2>1. g.blk[x].size > 0
    BY <1>1, <1>2, <1>3, HeapAssumption
  <2>2. CASE x = a
    <3>1. IF End(h, s) = Arena THEN h.blk[s].next = NULL
          ELSE h.blk[s].next = End(h, s) /\ End(h, s) \in DOMAIN h.blk
      BY <1>1 DEF Tiles
    <3> QED BY <1>2, <1>4, <1>5, <2>1, <2>2, <3>1
  <2>3. CASE x # a
    <3>1. IF End(h, x) = Arena THEN h.blk[x].next = NULL
          ELSE h.blk[x].next = End(h, x) /\ End(h, x) \in DOMAIN h.blk
      BY <1>2 DEF Tiles
    <3>2. End(h, x) # s
      <4> SUFFICES ASSUME End(h, x) = s PROVE FALSE
        OBVIOUS
      <4>1. x \in DOMAIN h.blk /\ h.blk[x].next # NULL
        BY <1>1, <1>2, <3>1, HeapFields, HeapAssumption
      <4>2. h.blk[s].prev = x
        BY <4>1, TileFacts
      <4> QED BY <1>1, <2>3, <4>2
    <3> QED BY <1>2, <1>4, <2>1, <2>3, <3>1, <3>2
  <2> QED BY <2>2, <2>3
<1>9. ASSUME NEW x \in DOMAIN g.blk \ {0}
      PROVE  g.blk[x].prev \in DOMAIN g.blk /\ End(g, g.blk[x].prev) = x
  <2>1. x \in DOMAIN h.blk /\ x # s
    BY <1>2
  <2>2. CASE x # a /\ x = h.blk[s].next
    <3>1. g.blk[x].prev = a /\ End(g, a) = End(h, s) /\ End(h, s) = x
      BY <1>1, <1>2, <1>4, <1>5, <2>1, <2>2, HeapFields, TileFacts
    <3> QED BY <1>5, <3>1
  <2>3. CASE ~(x # a /\ x = h.blk[s].next)
    <3> DEFINE p == h.blk[x].prev
    <3>1. g.blk[x].prev = p /\ p \in DOMAIN h.blk /\ End(h, p) = x
      BY <1>2, <2>1, <2>3 DEF Tiles
    <3>2. p # a
      BY <1>1, <2>1, <3>1
    <3>3. p # s
      <4> SUFFICES ASSUME p = s PROVE FALSE
        OBVIOUS
      <4>1. h.blk[s].next = x
        BY <1>1, <2>1, <3>1, HeapFields, HeapAssumption DEF Tiles
      <4>2. x = a
        BY <2>3, <4>1
      <4> QED BY <1>1, <1>3, <1>5, <3>1, <4>2
    <3> QED BY <1>2, <1>4, <3>1, <3>2, <3>3
  <2> QED BY <2>2, <2>3
<1> QED
  BY <1>6, <1>7, <1>8, <1>9 DEF Tiles, g

LEMMA CutTiles ==
    ASSUME NEW h \in Heaps, Tiles(h), NEW a \in DOMAIN h.blk, NEW n \in Nat \ {0},
           h.blk[a].size >= n + Header + 1
    PROVE  Rest(a, n) \notin DOMAIN h.blk /\ Tiles(Cut(h, a, n))
<1> DEFINE g == Cut(h, a, n)
           r == Rest(a, n)
           s == h.blk[a].next
<1>1. \A x \in DOMAIN h.blk : /\ x \in Nat /\ x < Arena /\ h.blk[x].size \in Nat /\ h.blk[x].size > 0
                              /\ End(h, x) \in Nat /\ x < End(h, x)
                              /\ End(h, x) = x + Header + h.blk[x].size
  BY HeapFields, TileFacts
<1>2. r \in Nat /\ a \in Nat /\ a < r /\ r < End(h, a) /\ r = a + Header + n
  BY <1>1, HeapAssumption DEF Rest
<1>3. r \notin DOMAIN h.blk
  <2> SUFFICES ASSUME r \in DOMAIN h.blk PROVE FALSE
    OBVIOUS
  <2>1. End(h, a) <= r
    BY <1>2 DEF Tiles
  <2> QED BY <1>1, <1>2, <2>1
<1>4. a + Header + h.blk[a].size <= Arena
  BY TileFacts
<1>5. /\ g \in Heaps /\ DOMAIN g.blk = DOMAIN h.blk \union {r}
      /\ /\ g.blk[r].size = h.blk[a].size - n - Header
         /\ g.blk[r].next = s /\ g.blk[r].prev = a
      /\ \A x \in DOMAIN h.blk :
            /\ g.blk[x].size = IF x = a THEN n ELSE h.blk[x].size
            /\ g.blk[x].next = IF x = a THEN r ELSE h.blk[x].next
            /\ g.blk[x].prev = IF x # a /\ x = s THEN r ELSE h.blk[x].prev
  BY <1>3, <1>4, CutFacts
<1> HIDE DEF g, r, s
<1>6. /\ End(g, r) = End(h, a) /\ End(g, a) = r
      /\ \A x \in DOMAIN h.blk : x # a => End(g, x) = End(h, x)
  <2>1. End(g, r) = r + Header + (h.blk[a].size - n - Header)
    BY <1>5 DEF End
  <2>2. h.blk[a].size \in Nat /\ End(h, a) = a + Header + h.blk[a].size
    BY <1>1
  <2>3. End(g, r) = End(h, a)
    BY <1>2, <2>1, <2>2, HeapAssumption
  <2> QED BY <1>2, <1>5, <2>3 DEF End
<1>7. 0 \in DOMAIN g.blk /\ g.blk[0].prev = NULL
  <2>1. 0 \in DOMAIN h.blk /\ h.blk[0].prev = NULL
    BY DEF Tiles
  <2>2. s # 0
    BY <1>1, TileFacts DEF s, NULL
  <2> QED BY <1>5, <2>1, <2>2
<1>8. ASSUME NEW x \in DOMAIN g.blk, NEW y \in DOMAIN g.blk, x < y PROVE End(g, x) <= y
  <2>1. CASE x = a
    <3>1. CASE y = r
      BY <1>2, <1>6, <2>1, <3>1
    <3>2. CASE y \in DOMAIN h.blk
      <4>1. End(h, a) <= y /\ y \in Nat /\ End(h, a) \in Nat
        BY <1>1, <1>8, <2>1, <3>2 DEF Tiles
      <4> QED BY <1>2, <1>6, <2>1, <4>1
    <3> QED BY <1>5, <3>1, <3>2
  <2>2. CASE x = r
    <3>1. y \in DOMAIN h.blk
      BY <1>2, <1>5, <1>8, <2>2
    <3>2. a < y /\ y \in Nat
      BY <1>1, <1>2, <1>8, <2>2, <3>1
    <3>3. End(h, a) <= y
      BY <3>1, <3>2 DEF Tiles
    <3> QED BY <1>6, <2>2, <3>3
  <2>3. CASE x # a /\ x # r
    <3>1. x \in DOMAIN h.blk /\ End(g, x) = End(h, x)
      BY <1>5, <1>6, <2>3
    <3>2. CASE y = r
      <4>1. x < a
        <5> SUFFICES ASSUME ~(x < a) PROVE FALSE
          OBVIOUS
        <5>1. a < x
          BY <1>1, <1>2, <2>3, <3>1
        <5>2. End(h, a) <= x
          BY <3>1, <5>1 DEF Tiles
        <5> QED BY <1>1, <1>2, <1>8, <3>1, <3>2, <5>2
      <4>2. End(h, x) <= a
        BY <3>1, <4>1 DEF Tiles
      <4> QED BY <1>1, <1>2, <3>1, <3>2, <4>2
    <3>3. CASE y \in DOMAIN h.blk
      BY <1>8, <3>1, <3>3 DEF Tiles
    <3> QED BY <1>5, <3>2, <3>3
  <2> QED BY <2>1, <2>2, <2>3
<1>9. ASSUME NEW x \in DOMAIN g.blk
      PROVE  /\ g.blk[x].size > 0
             /\ IF End(g, x) = Arena THEN g.blk[x].next = NULL
                ELSE g.blk[x].next = End(g, x) /\ End(g, x) \in DOMAIN g.blk
  <2>1. CASE x = a
    <3>1. r # Arena
      BY <1>1, <1>2, <1>4, HeapAssumption
    <3> QED BY <1>5, <1>6, <2>1, <3>1
  <2>2. CASE x = r
    <3>1. IF End(h, a) = Arena THEN s = NULL ELSE s = End(h, a) /\ End(h, a) \in DOMAIN h.blk
      BY DEF Tiles, s
    <3>2. g.blk[r].size > 0
      BY <1>1, <1>5, HeapAssumption
    <3> QED BY <1>5, <1>6, <2>2, <3>1, <3>2
  <2>3. CASE x # a /\ x # r
    BY <1>5, <1>6, <2>3 DEF Tiles
  <2> QED BY <2>1, <2>2, <2>3
<1>10. ASSUME NEW x \in DOMAIN g.blk \ {0}
       PROVE  g.blk[x].prev \in DOMAIN g.blk /\ End(g, g.blk[x].prev) = x
  <2>1. CASE x = r
    BY <1>5, <1>6, <2>1
  <2>2. CASE x # r
    <3>1. x \in DOMAIN h.blk
      BY <1>5, <2>2
    <3> DEFINE p == h.blk[x].prev
    <3>2. p \in DOMAIN h.blk /\ End(h, p) = x
      BY <3>1 DEF Tiles
    <3>3. CASE x = s
      <4>1. x # a /\ End(h, a) = x
        BY <3>1, <3>3, HeapFields, TileFacts DEF s
      <4> QED BY <1>5, <1>6, <3>1, <3>3, <4>1
    <3>4. CASE x # s
      <4>1. g.blk[x].prev = p
        BY <1>5, <3>1, <3>4
      <4>2. p # a
        <5> SUFFICES ASSUME p = a PROVE FALSE
          OBVIOUS
        <5>1. h.blk[a].next = x
          BY <1>1, <3>1, <3>2, HeapAssumption DEF Tiles
        <5> QED BY <3>4, <5>1 DEF s
      <4> QED BY <1>5, <1>6, <3>2, <4>1, <4>2
    <3> QED BY <3>3, <3>4
  <2> QED BY <2>1, <2>2
<1> QED
  BY <1>3, <1>7, <1>8, <1>9, <1>10 DEF Tiles, g, r
-----------------------------------------------------------------------------
(* A sound heap, and one whose block b has been taken out of the lists.    *)
BlocksSound(h) == h \in Heaps /\ Tiles(h) /\ \E d : Chained(h, FreeBlocks(h), d)
Loose(h, b) ==
    /\ h \in Heaps /\ Tiles(h) /\ b \in DOMAIN h.blk
    /\ \E d : Chained(h, FreeBlocks(h) \ {b}, d)

(* The blocks in use, but for a, are as they were.                         *)
OthersKept(h, g, a) ==
    /\ Busy(g) \ {a} = Busy(h) \ {a}
    /\ \A x \in Busy(h) \ {a} : g.blk[x].size = h.blk[x].size

LEMMA BusyIsLoose ==
    ASSUME NEW h, BlocksSound(h), NEW a \in Busy(h)
    PROVE  Loose(h, a)
<1>1. FreeBlocks(h) \ {a} = FreeBlocks(h)
  BY DEF Busy, FreeBlocks
<1> QED
  BY <1>1 DEF BlocksSound, Loose, Busy

(* Fields that the tiling and the lists do not read.                       *)
MarkedFree(h, a, w) == [h EXCEPT !.allocated = w, !.blk[a].free = TRUE]
MarkedBusy(h, a, w) == [h EXCEPT !.allocated = w, !.blk[a].free = FALSE]

LEMMA MarkFree ==
    ASSUME NEW h \in Heaps, NEW a \in DOMAIN h.blk, NEW w \in Int
    PROVE  LET g == MarkedFree(h, a, w) IN
           /\ g \in Heaps /\ SameBlocks(h, g) /\ g.list = h.list /\ g.allocated = w
           /\ FreeBlocks(g) = FreeBlocks(h) \union {a} /\ Busy(g) = Busy(h) \ {a}
           /\ \A x \in DOMAIN h.blk :
                /\ g.blk[x].nextFree = h.blk[x].nextFree
                /\ g.blk[x].prevFree = h.blk[x].prevFree
<1> DEFINE blk == [h.blk EXCEPT ![a].free = TRUE]
           g == MarkedFree(h, a, w)
<1>1. h.blk \in [DOMAIN h.blk -> BlockRecord] /\ DOMAIN h.blk \in SUBSET Address
  BY HeapFields
<1>2. blk \in [DOMAIN h.blk -> BlockRecord]
  <2>1. [h.blk[a] EXCEPT !.free = TRUE] \in BlockRecord
    BY <1>1 DEF BlockRecord
  <2> QED BY <1>1, <2>1
<1>3. blk \in UNION {[B -> BlockRecord] : B \in SUBSET Address}
  BY <1>1, <1>2
<1>4. ASSUME NEW x \in DOMAIN h.blk
      PROVE  /\ blk[x].size = h.blk[x].size /\ blk[x].next = h.blk[x].next
             /\ blk[x].prev = h.blk[x].prev
             /\ blk[x].free = IF x = a THEN TRUE ELSE h.blk[x].free
             /\ blk[x].nextFree = h.blk[x].nextFree /\ blk[x].prevFree = h.blk[x].prevFree
  <2>1. h.blk[x] \in BlockRecord
    BY <1>1
  <2>2. blk[x] = IF x = a THEN [h.blk[x] EXCEPT !.free = TRUE] ELSE h.blk[x]
    BY <1>1
  <2> HIDE DEF blk
  <2> QED BY <2>1, <2>2 DEF BlockRecord
<1>5. DOMAIN blk = DOMAIN h.blk
  OBVIOUS
<1>6. g = [h EXCEPT !.allocated = w, !.blk = blk]
  BY DEF Heaps, MarkedFree
<1> HIDE DEF blk, g
<1>7. g \in Heaps /\ g.blk = blk /\ g.list = h.list /\ g.allocated = w
  BY <1>3, <1>6 DEF Heaps
<1>8. SameBlocks(h, g)
  BY <1>4, <1>5, <1>7 DEF SameBlocks
<1>9. FreeBlocks(g) = FreeBlocks(h) \union {a} /\ Busy(g) = Busy(h) \ {a}
  BY <1>4, <1>5, <1>7 DEF FreeBlocks, Busy
<1> QED
  BY <1>4, <1>7, <1>8, <1>9 DEF g

LEMMA MarkBusy ==
    ASSUME NEW h \in Heaps, NEW a \in DOMAIN h.blk, NEW w \in Int
    PROVE  LET g == MarkedBusy(h, a, w) IN
           /\ g \in Heaps /\ SameBlocks(h, g) /\ g.list = h.list /\ g.allocated = w
           /\ FreeBlocks(g) = FreeBlocks(h) \ {a} /\ Busy(g) = Busy(h) \union {a}
           /\ \A x \in DOMAIN h.blk :
                /\ g.blk[x].nextFree = h.blk[x].nextFree
                /\ g.blk[x].prevFree = h.blk[x].prevFree
<1> DEFINE blk == [h.blk EXCEPT ![a].free = FALSE]
           g == MarkedBusy(h, a, w)
<1>1. h.blk \in [DOMAIN h.blk -> BlockRecord] /\ DOMAIN h.blk \in SUBSET Address
  BY HeapFields
<1>2. blk \in [DOMAIN h.blk -> BlockRecord]
  <2>1. [h.blk[a] EXCEPT !.free = FALSE] \in BlockRecord
    BY <1>1 DEF BlockRecord
  <2> QED BY <1>1, <2>1
<1>3. blk \in UNION {[B -> BlockRecord] : B \in SUBSET Address}
  BY <1>1, <1>2
<1>4. ASSUME NEW x \in DOMAIN h.blk
      PROVE  /\ blk[x].size = h.blk[x].size /\ blk[x].next = h.blk[x].next
             /\ blk[x].prev = h.blk[x].prev
             /\ blk[x].free = IF x = a THEN FALSE ELSE h.blk[x].free
             /\ blk[x].nextFree = h.blk[x].nextFree /\ blk[x].prevFree = h.blk[x].prevFree
  <2>1. h.blk[x] \in BlockRecord
    BY <1>1
  <2>2. blk[x] = IF x = a THEN [h.blk[x] EXCEPT !.free = FALSE] ELSE h.blk[x]
    BY <1>1
  <2> HIDE DEF blk
  <2> QED BY <2>1, <2>2 DEF BlockRecord
<1>5. DOMAIN blk = DOMAIN h.blk
  OBVIOUS
<1>6. g = [h EXCEPT !.allocated = w, !.blk = blk]
  BY DEF Heaps, MarkedBusy
<1> HIDE DEF blk, g
<1>7. g \in Heaps /\ g.blk = blk /\ g.list = h.list /\ g.allocated = w
  BY <1>3, <1>6 DEF Heaps
<1>8. SameBlocks(h, g)
  BY <1>4, <1>5, <1>7 DEF SameBlocks
<1>9. FreeBlocks(g) = FreeBlocks(h) \ {a} /\ Busy(g) = Busy(h) \union {a}
  BY <1>4, <1>5, <1>7 DEF FreeBlocks, Busy
<1> QED
  BY <1>4, <1>7, <1>8, <1>9 DEF g

LEMMA Counter ==
    ASSUME NEW h \in Heaps, NEW w \in Int
    PROVE  LET g == [h EXCEPT !.allocated = w]
           IN  /\ g \in Heaps /\ g.blk = h.blk /\ g.allocated = w
               /\ BlocksSound(h) => BlocksSound(g)
<1> DEFINE g == [h EXCEPT !.allocated = w]
<1>1. g \in Heaps /\ g.blk = h.blk /\ g.allocated = w /\ g.list = h.list
  BY DEF Heaps
<1> HIDE DEF g
<1>2. SameBlocks(h, g) /\ FreeBlocks(g) = FreeBlocks(h)
  BY <1>1 DEF SameBlocks, FreeBlocks
<1>3. ASSUME NEW d, Chained(h, FreeBlocks(h), d) PROVE Chained(g, FreeBlocks(h), d)
  BY <1>1, <1>3, ChainsStay DEF FreeBlocks
<1> QED
  BY <1>1, <1>2, <1>3, SameTiles DEF BlocksSound, g

(* A loose block comes back into its list.                                 *)
LEMMA InsertLoose ==
    ASSUME NEW h, NEW b, Loose(h, b)
    PROVE  LET g == InsertFree(h, b)
           IN  /\ BlocksSound(g) /\ OthersKept(h, g, b) /\ b \notin Busy(g)
               /\ g.allocated = h.allocated
<1> DEFINE g == InsertFree(h, b)
<1>1. h \in Heaps /\ Tiles(h) /\ b \in DOMAIN h.blk /\ Kind(h, b) \in Classes
  BY TileFacts DEF Loose
<1>2. PICK d : Chained(h, FreeBlocks(h) \ {b}, d)
  BY DEF Loose
<1>3. PICK e : Chained(g, (FreeBlocks(h) \ {b}) \union {b}, e)
  BY <1>1, <1>2, InsertChains
<1>4. /\ g \in Heaps /\ SameBlocks(h, g) /\ g.allocated = h.allocated
      /\ \A x \in DOMAIN h.blk : g.blk[x].free = (h.blk[x].free \/ x = b)
  BY <1>1, InsertFreeFacts DEF Kind
<1> HIDE DEF g
<1>5. FreeBlocks(g) = (FreeBlocks(h) \ {b}) \union {b}
  BY <1>1, <1>4 DEF FreeBlocks, SameBlocks
<1>6. OthersKept(h, g, b) /\ b \notin Busy(g)
  BY <1>1, <1>4 DEF OthersKept, Busy, SameBlocks
<1>7. BlocksSound(g)
  BY <1>1, <1>3, <1>4, <1>5, SameTiles DEF BlocksSound
<1> QED
  BY <1>4, <1>6, <1>7 DEF g

(* A free block is taken out and its memory joined to the one before.      *)
LEMMA AbsorbNext ==
    ASSUME NEW h, NEW b, Loose(h, b), FreeNeighbour(h, h.blk[b].next)
    PROVE  LET s == h.blk[b].next
               g == MergeWithNext(RemoveFree(h, s), b)
           IN  /\ Loose(g, b) /\ OthersKept(h, g, b)
               /\ Busy(g) = Busy(h)
               /\ g.blk[b].size = h.blk[b].size + Header + h.blk[s].size
               /\ g.allocated = h.allocated
<1> DEFINE s == h.blk[b].next
           mid == RemoveFree(h, s)
           g == MergeWithNext(mid, b)
           F == FreeBlocks(h) \ {b}
<1>1. /\ h \in Heaps /\ Tiles(h) /\ b \in DOMAIN h.blk /\ s # NULL /\ h.blk[s].free
      /\ s \in DOMAIN h.blk /\ s # b /\ Kind(h, s) \in Classes
  BY TileFacts DEF Loose, FreeNeighbour
<1>2. PICK d : Chained(h, F, d)
  BY DEF Loose
<1>3. s \in F
  BY <1>1 DEF FreeBlocks
<1>4. PICK e : Chained(mid, F \ {s}, e)
  <2> HIDE DEF F, s
  <2> QED BY <1>1, <1>2, <1>3, RemoveChains
<1>5. /\ mid \in Heaps /\ SameBlocks(h, mid) /\ mid.allocated = h.allocated
      /\ FreeBlocks(mid) = FreeBlocks(h)
  <2>1. s \in DOMAIN h.blk /\ Class(h.blk[s].size) \in Classes /\ h \in Heaps
    BY <1>1 DEF Kind
  <2> HIDE DEF s, F
  <2>2. mid \in Heaps
    BY <2>1, RemoveFreeFacts
  <2>3. SameBlocks(h, mid)
    BY <2>1, RemoveFreeFacts
  <2>4. mid.allocated = h.allocated
    BY <2>1, RemoveFreeFacts
  <2>5. FreeBlocks(mid) = FreeBlocks(h)
    BY <2>1, RemoveFreeFacts
  <2> QED BY <2>2, <2>3, <2>4, <2>5
<1> HIDE DEF mid
<1>6. Tiles(mid) /\ DOMAIN mid.blk = DOMAIN h.blk /\ mid.blk[b].next = s
  BY <1>1, <1>5, SameTiles DEF SameBlocks
<1>7. Tiles(g)
  BY <1>1, <1>5, <1>6, MergedTiles
<1>8. /\ g \in Heaps /\ DOMAIN g.blk = DOMAIN mid.blk \ {s}
      /\ g.allocated = mid.allocated /\ g.list = mid.list
      /\ \A x \in DOMAIN g.blk :
            /\ g.blk[x].size = IF x = b THEN mid.blk[b].size + Header + mid.blk[s].size ELSE mid.blk[x].size
            /\ g.blk[x].free = mid.blk[x].free
            /\ g.blk[x].nextFree = mid.blk[x].nextFree
            /\ g.blk[x].prevFree = mid.blk[x].prevFree
  BY <1>1, <1>5, <1>6, MergeFacts
<1> HIDE DEF g, s
<1>9. b \in DOMAIN g.blk /\ DOMAIN g.blk = DOMAIN h.blk \ {s}
  BY <1>1, <1>6, <1>8
<1>10. F \ {s} \subseteq DOMAIN g.blk /\ FreeBlocks(g) \ {b} = F \ {s}
  BY <1>1, <1>5, <1>8, <1>9 DEF FreeBlocks
<1>11. Chained(g, F \ {s}, e)
  <2>1. \A x \in F \ {s} : x # b /\ x \in DOMAIN g.blk
    BY <1>10
  <2> HIDE DEF F
  <2> QED BY <1>4, <1>5, <1>8, <1>10, <2>1, ChainsStay
<1>12. Loose(g, b)
  BY <1>7, <1>8, <1>9, <1>10, <1>11 DEF Loose
<1>13. OthersKept(h, g, b) /\ Busy(g) = Busy(h)
  <2>1. Busy(mid) = Busy(h) /\ s \notin Busy(h)
    BY <1>1, <1>5 DEF Busy, FreeBlocks, SameBlocks
  <2>2. Busy(g) = Busy(mid)
    BY <1>6, <1>8, <2>1 DEF Busy
  <2>3. ASSUME NEW x \in Busy(h) \ {b} PROVE g.blk[x].size = h.blk[x].size
    BY <1>5, <1>8, <2>1, <2>2, <2>3 DEF Busy, SameBlocks
  <2> QED BY <2>1, <2>2, <2>3 DEF OthersKept
<1>14. /\ g.blk[b].size = h.blk[b].size + Header + h.blk[s].size
       /\ g.allocated = h.allocated
  BY <1>1, <1>5, <1>8, <1>9 DEF SameBlocks
<1> QED
  BY <1>12, <1>13, <1>14 DEF g, mid, s

LEMMA AbsorbedByPrev ==
    ASSUME NEW h, NEW b, Loose(h, b), FreeNeighbour(h, h.blk[b].prev), h.blk[b].free
    PROVE  LET p == h.blk[b].prev
               g == MergeWithNext(RemoveFree(h, p), p)
           IN  /\ Loose(g, p) /\ Busy(g) = Busy(h) /\ OthersKept(h, g, b) /\ p \notin Busy(h)
               /\ g.allocated = h.allocated
<1> DEFINE p == h.blk[b].prev
           mid == RemoveFree(h, p)
           g == MergeWithNext(mid, p)
           F == FreeBlocks(h) \ {b}
<1>1. /\ h \in Heaps /\ Tiles(h) /\ b \in DOMAIN h.blk /\ p # NULL /\ h.blk[p].free
      /\ p \in DOMAIN h.blk /\ p # b /\ h.blk[p].next = b /\ Kind(h, p) \in Classes
  BY TileFacts DEF Loose, FreeNeighbour
<1>2. PICK d : Chained(h, F, d)
  BY DEF Loose
<1>3. p \in F
  BY <1>1 DEF FreeBlocks
<1>4. PICK e : Chained(mid, F \ {p}, e)
  <2> HIDE DEF F, p
  <2> QED BY <1>1, <1>2, <1>3, RemoveChains
<1>5. /\ mid \in Heaps /\ SameBlocks(h, mid) /\ mid.allocated = h.allocated
      /\ FreeBlocks(mid) = FreeBlocks(h)
  <2>1. p \in DOMAIN h.blk /\ Class(h.blk[p].size) \in Classes /\ h \in Heaps
    BY <1>1 DEF Kind
  <2> HIDE DEF p, F
  <2>2. mid \in Heaps
    BY <2>1, RemoveFreeFacts
  <2>3. SameBlocks(h, mid)
    BY <2>1, RemoveFreeFacts
  <2>4. mid.allocated = h.allocated
    BY <2>1, RemoveFreeFacts
  <2>5. FreeBlocks(mid) = FreeBlocks(h)
    BY <2>1, RemoveFreeFacts
  <2> QED BY <2>2, <2>3, <2>4, <2>5
<1> HIDE DEF mid
<1>6. Tiles(mid) /\ DOMAIN mid.blk = DOMAIN h.blk /\ mid.blk[p].next = b /\ b # NULL
  BY <1>1, <1>5, SameTiles, HeapFields DEF SameBlocks
<1>7. Tiles(g)
  BY <1>1, <1>5, <1>6, MergedTiles
<1>8. /\ g \in Heaps /\ DOMAIN g.blk = DOMAIN mid.blk \ {b}
      /\ g.allocated = mid.allocated /\ g.list = mid.list
      /\ \A x \in DOMAIN g.blk :
            /\ g.blk[x].size = IF x = p THEN mid.blk[p].size + Header + mid.blk[b].size ELSE mid.blk[x].size
            /\ g.blk[x].free = mid.blk[x].free
            /\ g.blk[x].nextFree = mid.blk[x].nextFree
            /\ g.blk[x].prevFree = mid.blk[x].prevFree
  BY <1>1, <1>5, <1>6, MergeFacts
<1> HIDE DEF g, p
<1>9. p \in DOMAIN g.blk /\ DOMAIN g.blk = DOMAIN h.blk \ {b}
  BY <1>1, <1>6, <1>8
<1>10. F \ {p} \subseteq DOMAIN g.blk /\ FreeBlocks(g) \ {p} = F \ {p}
  BY <1>1, <1>5, <1>8, <1>9 DEF FreeBlocks
<1>11. Chained(g, F \ {p}, e)
  <2>1. \A x \in F \ {p} : x # p /\ x \in DOMAIN g.blk
    BY <1>10
  <2> HIDE DEF F
  <2> QED BY <1>4, <1>5, <1>8, <1>10, <2>1, ChainsStay
<1>12. Loose(g, p)
  BY <1>7, <1>8, <1>9, <1>10, <1>11 DEF Loose
<1>13. Busy(g) = Busy(h) /\ p \notin Busy(h)
  <2>1. Busy(mid) = Busy(h) /\ p \notin Busy(h) /\ b \notin Busy(h)
    BY <1>1, <1>5 DEF Busy, FreeBlocks, SameBlocks
  <2>2. Busy(g) = Busy(mid)
    BY <1>6, <1>8, <2>1 DEF Busy
  <2> QED BY <2>1, <2>2
<1>14. OthersKept(h, g, b)
  <2>1. ASSUME NEW x \in Busy(h) \ {b} PROVE g.blk[x].size = h.blk[x].size
    BY <1>1, <1>5, <1>8, <1>9 DEF Busy, SameBlocks
  <2> QED BY <1>13, <2>1 DEF OthersKept
<1> QED
  BY <1>5, <1>8, <1>12, <1>13, <1>14 DEF g, mid, p

(* The rest of a block in use is split off.                                *)
LEMMA SplitSound ==
    ASSUME NEW h, BlocksSound(h), NEW a \in Busy(h), NEW n \in Nat \ {0}, h.blk[a].size >= n
    PROVE  LET g == Split(h, a, n)
           IN  /\ BlocksSound(g) /\ OthersKept(h, g, a) /\ a \in Busy(g)
               /\ g.blk[a].size >= n /\ g.allocated = h.allocated
<1>1. CASE h.blk[a].size < n + Header + 1
  BY <1>1 DEF Split, OthersKept
<1>2. CASE ~(h.blk[a].size < n + Header + 1)
  <2> DEFINE c == Cut(h, a, n)
             r == Rest(a, n)
             g == InsertFree(c, r)
  <2>1. /\ h \in Heaps /\ Tiles(h) /\ a \in DOMAIN h.blk /\ h.blk[a].size \in Nat
        /\ a + Header + h.blk[a].size <= Arena /\ ~h.blk[a].free
    BY TileFacts, HeapFields DEF BlocksSound, Busy
  <2>2. h.blk[a].size >= n + Header + 1
    BY <1>2, <2>1, HeapAssumption
  <2>3. r \notin DOMAIN h.blk /\ Tiles(c)
    BY <2>1, <2>2, CutTiles
  <2>4. /\ c \in Heaps /\ DOMAIN c.blk = DOMAIN h.blk \union {r}
        /\ c.allocated = h.allocated /\ c.list = h.list /\ c.blk[r].free
        /\ \A x \in DOMAIN h.blk :
              /\ c.blk[x].size = IF x = a THEN n ELSE h.blk[x].size
              /\ c.blk[x].free = h.blk[x].free
              /\ c.blk[x].nextFree = h.blk[x].nextFree
              /\ c.blk[x].prevFree = h.blk[x].prevFree
    BY <2>1, <2>2, <2>3, CutFacts
  <2> HIDE DEF c, r
  <2>5. PICK d : Chained(h, FreeBlocks(h), d)
    BY DEF BlocksSound
  <2>6. FreeBlocks(c) \ {r} = FreeBlocks(h) /\ FreeBlocks(h) \subseteq DOMAIN c.blk /\ a \notin FreeBlocks(h)
    BY <2>1, <2>3, <2>4 DEF FreeBlocks
  <2>7. Chained(c, FreeBlocks(h), d)
    <3>1. \A x \in FreeBlocks(h) : x \in DOMAIN h.blk /\ x # a
      BY <2>6 DEF FreeBlocks
    <3> QED BY <2>1, <2>4, <2>5, <2>6, <3>1, ChainsStay
  <2>8. Loose(c, r)
    BY <2>3, <2>4, <2>6, <2>7 DEF Loose
  <2>9. BlocksSound(g) /\ OthersKept(c, g, r) /\ r \notin Busy(g) /\ g.allocated = c.allocated
    BY <2>8, InsertLoose
  <2> HIDE DEF g
  <2>10. a \in Busy(c) /\ c.blk[a].size = n /\ a # r
    BY <2>1, <2>3, <2>4 DEF Busy
  <2>11. Busy(c) = Busy(h) /\ r \notin Busy(c)
    BY <2>3, <2>4 DEF Busy
  <2>12. Busy(g) = Busy(h) /\ \A x \in Busy(h) : g.blk[x].size = c.blk[x].size
    <3>1. Busy(g) \ {r} = Busy(c) \ {r}
      BY <2>9 DEF OthersKept
    <3>2. \A x \in Busy(c) \ {r} : g.blk[x].size = c.blk[x].size
      BY <2>9 DEF OthersKept
    <3>3. Busy(g) = Busy(h)
      BY <2>9, <2>11, <3>1
    <3> QED BY <2>11, <3>2, <3>3
  <2>13. g.blk[a].size = n /\ OthersKept(h, g, a)
    BY <2>4, <2>10, <2>11, <2>12 DEF OthersKept, Busy
  <2>14. Split(h, a, n) = g
    BY <1>2 DEF Split, g, c, r
  <2> QED BY <2>4, <2>9, <2>12, <2>13, <2>14
<1> QED
  BY <1>1, <1>2
-----------------------------------------------------------------------------
(* What the calls do to a sound heap.                                      *)

(* The search finds a free block that is large enough, if there is one.    *)
LEMMA FindFreeFits ==
    ASSUME NEW h, BlocksSound(h), NEW n \in Nat
    PROVE  LET r == FindFree(h, n)
           IN  \/ r = NULL /\ \A a \in FreeBlocks(h) : h.blk[a].size < n
               \/ r # NULL /\ r \in FreeBlocks(h) /\ h.blk[r].size >= n
<1> DEFINE F == FreeBlocks(h)
<1>1. PICK d : h \in Heaps /\ Tiles(h) /\ Chained(h, F, d)
  BY DEF BlocksSound
<1>2. \A i \in Classes :
         /\ \A k \in Places(h) : ListFrom(h, i)[k] # NULL => ListFrom(h, i)[k] \in F
         /\ \A a \in F : Kind(h, a) = i => d[a] \in Places(h) /\ ListFrom(h, i)[d[a]] = a
  <2> HIDE DEF F
  <2> QED BY <1>1, ListWalk
<1>3. /\ NULL \notin F /\ Places(h) \subseteq Nat /\ Classes \subseteq Nat
      /\ \A a \in F : h.blk[a].size \in Nat /\ Kind(h, a) \in Classes
  BY <1>1, HeapFields, TileFacts DEF FreeBlocks, Places, Classes
<1> HIDE DEF F
<1>4. CASE Candidates(h, n) = {}
  <2>1. FindFree(h, n) = NULL
    BY <1>4 DEF FindFree
  <2> SUFFICES ASSUME NEW a \in F, h.blk[a].size >= n PROVE FALSE
    BY <1>3, <2>1 DEF F
  <2> DEFINE i == Kind(h, a)
  <2>2. i \in Classes /\ i >= FirstClass(n)
    BY <1>3, ClassGrows DEF Kind, FirstClass
  <2>3. d[a] \in Fits(h, i, n)
    BY <1>2, <1>3, <2>2 DEF Fits
  <2> QED BY <1>4, <2>2, <2>3 DEF Candidates
<1>5. CASE Candidates(h, n) # {}
  <2> DEFINE i == Min(Candidates(h, n))
             k == Min(Fits(h, i, n))
  <2>1. Candidates(h, n) \subseteq Nat
    BY <1>3 DEF Candidates
  <2>2. i \in Candidates(h, n)
    BY <1>5, <2>1, MinIsLeast
  <2> HIDE DEF i
  <2>3. i \in Classes /\ Fits(h, i, n) # {} /\ Fits(h, i, n) \subseteq Nat
    BY <1>3, <2>2 DEF Candidates, Fits
  <2>4. k \in Fits(h, i, n)
    BY <2>3, MinIsLeast
  <2> HIDE DEF k
  <2>5. k \in Places(h) /\ ListFrom(h, i)[k] # NULL /\ h.blk[ListFrom(h, i)[k]].size >= n
    BY <2>4 DEF Fits
  <2>6. FindFree(h, n) = ListFrom(h, i)[k]
    BY <1>5 DEF FindFree, i, k
  <2> QED BY <1>2, <2>3, <2>5, <2>6 DEF F
<1> QED
  BY <1>4, <1>5

LEMMA TakenSound ==
    ASSUME NEW h, BlocksSound(h), NEW n \in Nat \ {0}, NEW a \in FreeBlocks(h), h.blk[a].size >= n
    PROVE  LET g == Taken(h, a, n)
           IN  /\ BlocksSound(g) /\ OthersKept(h, g, a) /\ a \in Busy(g) /\ a \notin Busy(h)
               /\ g.blk[a].size >= n
               /\ g.allocated = h.allocated + (g.blk[a].size + Header)
<1> DEFINE mid == RemoveFree(h, a)
           busy == [mid EXCEPT !.blk[a].free = FALSE]
           s == Split(busy, a, n)
           g == Taken(h, a, n)
           F == FreeBlocks(h)
<1>1. /\ h \in Heaps /\ Tiles(h) /\ a \in DOMAIN h.blk /\ Kind(h, a) \in Classes /\ a \notin Busy(h)
  BY TileFacts DEF BlocksSound, FreeBlocks, Busy
<1>2. PICK d : Chained(mid, F \ {a}, d)
  <2>1. PICK e : Chained(h, F, e)
    BY DEF BlocksSound
  <2> HIDE DEF F
  <2> QED BY <1>1, <2>1, RemoveChains DEF F
<1>3. /\ mid \in Heaps /\ SameBlocks(h, mid) /\ mid.allocated = h.allocated /\ FreeBlocks(mid) = F
  <2> HIDE DEF F
  <2> QED BY <1>1, RemoveFreeFacts DEF Kind, F
<1> HIDE DEF mid
<1>4. DOMAIN mid.blk = DOMAIN h.blk /\ Tiles(mid) /\ mid.allocated \in Int
  BY <1>1, <1>3, SameTiles, HeapFields DEF SameBlocks
<1>5. /\ busy \in Heaps /\ SameBlocks(mid, busy) /\ busy.list = mid.list
      /\ busy.allocated = h.allocated
      /\ FreeBlocks(busy) = FreeBlocks(mid) \ {a} /\ Busy(busy) = Busy(mid) \union {a}
      /\ \A x \in DOMAIN mid.blk :
            /\ busy.blk[x].nextFree = mid.blk[x].nextFree
            /\ busy.blk[x].prevFree = mid.blk[x].prevFree
  <2>1. busy = MarkedBusy(mid, a, mid.allocated)
    BY <1>3 DEF Heaps, MarkedBusy
  <2> HIDE DEF busy
  <2> QED BY <1>1, <1>3, <1>4, <2>1, MarkBusy
<1> HIDE DEF busy
<1>6. FreeBlocks(busy) = F \ {a} /\ Busy(busy) = Busy(h) \union {a}
  <2>1. Busy(mid) = Busy(h)
    BY <1>1, <1>3, <1>4 DEF Busy, FreeBlocks
  <2> QED BY <1>3, <1>5, <2>1
<1>7. BlocksSound(busy)
  <2>1. F \ {a} \subseteq DOMAIN busy.blk
    BY <1>4, <1>5 DEF F, FreeBlocks, SameBlocks
  <2>2. \A x \in F \ {a} : x \in DOMAIN mid.blk
    BY <1>4 DEF F, FreeBlocks
  <2>3. Chained(busy, F \ {a}, d)
    BY <1>2, <1>3, <1>5, <2>1, <2>2, ChainsStay DEF SameBlocks
  <2> QED BY <1>4, <1>5, <1>6, <2>3, SameTiles DEF BlocksSound
<1>8. busy.blk[a].size = h.blk[a].size /\ \A x \in DOMAIN h.blk : busy.blk[x].size = h.blk[x].size
  BY <1>1, <1>3, <1>4, <1>5 DEF SameBlocks
<1>9. /\ BlocksSound(s) /\ OthersKept(busy, s, a) /\ a \in Busy(s)
      /\ s.blk[a].size >= n /\ s.allocated = busy.allocated
  BY <1>6, <1>7, <1>8, SplitSound
<1> HIDE DEF s
<1>10. OthersKept(h, s, a)
  <2>1. Busy(h) \subseteq DOMAIN h.blk
    BY DEF Busy
  <2> QED BY <1>6, <1>8, <1>9, <2>1 DEF OthersKept
<1>11. /\ s \in Heaps /\ s.blk[a].size + Header \in Int /\ s.allocated \in Int
  BY <1>9, HeapFields, HeapAssumption DEF BlocksSound, Busy
<1>12. g = [s EXCEPT !.allocated = s.allocated + (s.blk[a].size + Header)]
  <2>1. g = [s EXCEPT !.allocated = s.allocated + s.blk[a].size + Header]
    BY DEF Taken, s, busy, mid
  <2>2. s.allocated + s.blk[a].size + Header = s.allocated + (s.blk[a].size + Header)
    BY <1>9, <1>11, HeapFields, HeapAssumption DEF BlocksSound, Busy
  <2> QED BY <2>1, <2>2
<1>13. /\ BlocksSound(g) /\ g.blk = s.blk
       /\ g.allocated = s.allocated + (s.blk[a].size + Header)
  BY <1>9, <1>11, <1>12, Counter
<1> HIDE DEF g
<1>14. Busy(g) = Busy(s)
  BY <1>13 DEF Busy
<1> QED
  BY <1>1, <1>5, <1>9, <1>10, <1>13, <1>14 DEF OthersKept, g

LEMMA FreedSound ==
    ASSUME NEW h, BlocksSound(h), NEW a \in Busy(h)
    PROVE  LET g == Freed(h, a)
           IN  /\ BlocksSound(g) /\ OthersKept(h, g, a) /\ a \notin Busy(g)
               /\ g.allocated = h.allocated - (h.blk[a].size + Header)
<1> DEFINE gone == [h EXCEPT !.allocated = @ - (h.blk[a].size + Header), !.blk[a].free = TRUE]
           p == gone.blk[a].prev
           back == IF FreeNeighbour(gone, p) THEN MergeWithNext(RemoveFree(gone, p), p) ELSE gone
           b == IF FreeNeighbour(gone, p) THEN p ELSE a
           n == back.blk[b].next
           both == IF FreeNeighbour(back, n) THEN MergeWithNext(RemoveFree(back, n), b) ELSE back
           w == h.allocated - (h.blk[a].size + Header)
<1>1. Freed(h, a) = InsertFree(both, b)
  BY DEF Freed
<1>2. h \in Heaps /\ Tiles(h) /\ a \in DOMAIN h.blk /\ w \in Int
  BY HeapFields, HeapAssumption DEF BlocksSound, Busy
<1>3. /\ gone \in Heaps /\ SameBlocks(h, gone) /\ gone.list = h.list /\ gone.allocated = w
      /\ FreeBlocks(gone) = FreeBlocks(h) \union {a} /\ Busy(gone) = Busy(h) \ {a}
      /\ \A x \in DOMAIN h.blk :
            /\ gone.blk[x].nextFree = h.blk[x].nextFree
            /\ gone.blk[x].prevFree = h.blk[x].prevFree
  <2>1. gone = MarkedFree(h, a, w)
    BY <1>2 DEF Heaps, MarkedFree
  <2> HIDE DEF gone, w
  <2> QED BY <1>2, <2>1, MarkFree
<1> HIDE DEF gone, w
<1>4. FreeBlocks(gone) \ {a} = FreeBlocks(h) /\ Busy(gone) = Busy(h) \ {a} /\ gone.blk[a].free
      /\ DOMAIN gone.blk = DOMAIN h.blk
  BY <1>2, <1>3 DEF FreeBlocks, Busy, SameBlocks
<1>5. Loose(gone, a)
  <2>1. PICK d : Chained(h, FreeBlocks(h), d)
    BY DEF BlocksSound
  <2>2. Chained(gone, FreeBlocks(h), d)
    BY <1>2, <1>3, <1>4, <2>1, ChainsStay DEF SameBlocks, FreeBlocks
  <2> QED BY <1>2, <1>3, <1>4, <2>2, SameTiles DEF Loose
<1>6. /\ Loose(back, b) /\ Busy(back) = Busy(h) \ {a} /\ back.allocated = w /\ b \notin Busy(back)
      /\ \A x \in Busy(back) : back.blk[x].size = h.blk[x].size
  <2>1. \A x \in DOMAIN h.blk : gone.blk[x].size = h.blk[x].size
    BY <1>3 DEF SameBlocks
  <2>2. Busy(h) \subseteq DOMAIN h.blk
    BY DEF Busy
  <2>3. CASE FreeNeighbour(gone, p)
    <3> DEFINE g == MergeWithNext(RemoveFree(gone, p), p)
    <3>1. /\ Loose(g, p) /\ Busy(g) = Busy(gone) /\ OthersKept(gone, g, a) /\ p \notin Busy(gone)
          /\ g.allocated = gone.allocated
      BY <1>4, <1>5, <2>3, AbsorbedByPrev
    <3>2. back = g /\ b = p
      BY <2>3
    <3> HIDE DEF g, back, b, p
    <3> QED BY <1>3, <1>4, <2>1, <2>2, <3>1, <3>2 DEF OthersKept
  <2>4. CASE ~FreeNeighbour(gone, p)
    <3>1. back = gone /\ b = a
      BY <2>4
    <3> HIDE DEF back, b, p
    <3> QED BY <1>3, <1>4, <1>5, <2>1, <2>2, <3>1
  <2> QED BY <2>3, <2>4
<1> HIDE DEF back, b
<1>7. /\ Loose(both, b) /\ Busy(both) = Busy(back) /\ both.allocated = w
      /\ \A x \in Busy(back) : both.blk[x].size = back.blk[x].size
  <2>1. CASE FreeNeighbour(back, n)
    <3> DEFINE g == MergeWithNext(RemoveFree(back, n), b)
    <3>1. /\ Loose(g, b) /\ OthersKept(back, g, b) /\ Busy(g) = Busy(back)
          /\ g.allocated = back.allocated
      BY <1>6, <2>1, AbsorbNext
    <3>2. both = g
      BY <2>1
    <3> HIDE DEF g, both, n
    <3> QED BY <1>6, <3>1, <3>2 DEF OthersKept
  <2>2. CASE ~FreeNeighbour(back, n)
    BY <1>6, <2>2
  <2> QED BY <2>1, <2>2
<1> HIDE DEF both
<1> DEFINE g == InsertFree(both, b)
<1>8. BlocksSound(g) /\ OthersKept(both, g, b) /\ b \notin Busy(g) /\ g.allocated = both.allocated
  BY <1>7, InsertLoose
<1> HIDE DEF g
<1>9. Busy(g) = Busy(h) \ {a} /\ \A x \in Busy(g) : g.blk[x].size = h.blk[x].size
  BY <1>6, <1>7, <1>8 DEF OthersKept
<1>10. OthersKept(h, g, a) /\ a \notin Busy(g)
  BY <1>9 DEF OthersKept
<1> QED
  BY <1>1, <1>7, <1>8, <1>10 DEF g, w
-----------------------------------------------------------------------------
(* The memory in use, as sums of what each address adds.                   *)
Occupied(h, k) == IF k \in Busy(h) THEN Header + h.blk[k].size ELSE 0
MemorySums(h) ==
    {f \in [0 .. Arena -> Int] :
        f[0] = 0 /\ \A k \in 1 .. Arena : f[k] = f[k - 1] + Occupied(h, k - 1)}

LEMMA UsedIsInt ==
    ASSUME NEW h \in Heaps, NEW k
    PROVE  Occupied(h, k) \in Int
<1>1. k \in Busy(h) => h.blk[k].size \in Nat
  BY HeapFields DEF Busy
<1> QED
  BY <1>1, HeapAssumption DEF Occupied

LEMMA InUseSums ==
    ASSUME NEW h \in Heaps
    PROVE  \E f \in MemorySums(h) : InUse(h) = f[Arena]
<1> DEFINE G == [z \in Int \X (0 .. Arena) |-> z[1] + Occupied(h, z[2])]
           W(e) == [k \in 0 .. Arena |-> IF k = 0 THEN 0 ELSE e[k - 1] + Occupied(h, k - 1)]
           P(e) == e = W(e)
           l == CHOOSE e : P(e)
<1>1. Arena \in Nat /\ \A k \in 1 .. Arena : k \in 0 .. Arena /\ k - 1 \in 0 .. Arena /\ k # 0
  BY HeapAssumption
<1>2. G \in [Int \X (0 .. Arena) -> Int]
  BY UsedIsInt
<1>3. PICK f \in [0 .. Arena -> Int] :
        f[0] = 0 /\ \A k \in 1 .. Arena : f[k] = G[<<f[k - 1], k - 1>>]
  <2>1. Loops(Arena, Int, 0, G) # {}
    <3> DEFINE S == Int
               N == Arena
    <3>1. N \in Nat /\ 0 \in S /\ G \in [S \X (0 .. N) -> S]
      BY <1>1, <1>2
    <3> HIDE DEF G, S, N
    <3>2. Loops(N, S, 0, G) # {}
      BY <3>1, Iterates
    <3> QED BY <3>2 DEF S, N
  <2> HIDE DEF G
  <2> QED BY <2>1 DEF Loops
<1>4. \A k \in 1 .. Arena : f[k] = f[k - 1] + Occupied(h, k - 1)
  <2> TAKE k \in 1 .. Arena
  <2>1. f[k - 1] \in Int /\ k - 1 \in 0 .. Arena /\ f[k] = G[<<f[k - 1], k - 1>>]
    BY <1>1, <1>3
  <2> QED BY <2>1
<1>5. P(f)
  <2>1. \A k \in 0 .. Arena : k # 0 => k \in 1 .. Arena
    BY <1>1
  <2> QED BY <1>3, <1>4, <2>1
<1>6. P(l)
  <2>1. \E e : P(e)
    BY <1>5
  <2> HIDE DEF P
  <2> QED BY <2>1
<1>7. InUse(h) = l[Arena]
  BY DEF InUse, Occupied
<1> HIDE DEF l, G
<1>8. l[0] = 0 /\ \A k \in 1 .. Arena : l[k] = l[k - 1] + Occupied(h, k - 1)
  BY <1>1, <1>6
<1>9. \A k \in 0 .. Arena : l[k] = f[k]
  <2> DEFINE T == {k \in 0 .. Arena : l[k] = f[k]}
  <2>1. 0 \in T
    BY <1>1, <1>3, <1>8
  <2>2. ASSUME NEW k \in 0 .. Arena, k \in T, k < Arena PROVE k + 1 \in T
    <3>1. k + 1 \in 1 .. Arena /\ (k + 1) - 1 = k /\ k + 1 \in 0 .. Arena
      BY <1>1, <2>2
    <3>2. l[k + 1] = l[k] + Occupied(h, k) /\ f[k + 1] = f[k] + Occupied(h, k)
      BY <1>4, <1>8, <3>1
    <3> QED BY <2>2, <3>1, <3>2
  <2>3. T \in SUBSET (0 .. Arena)
    OBVIOUS
  <2> HIDE DEF T
  <2>4. T = 0 .. Arena
    BY <1>1, <2>1, <2>2, <2>3, IntervalInduction
  <2> QED BY <2>4 DEF T
<1>10. Arena \in 0 .. Arena
  BY <1>1
<1> QED
  BY <1>3, <1>4, <1>7, <1>9, <1>10 DEF MemorySums

(* One block changes, and the memory in use changes by as much.            *)
LEMMA UseChanges ==
    ASSUME NEW h \in Heaps, NEW g \in Heaps, NEW a \in Address, OthersKept(h, g, a)
    PROVE  InUse(h) \in Int /\ InUse(g) = InUse(h) + Occupied(g, a) - Occupied(h, a)
<1>1. PICK f \in MemorySums(h) : InUse(h) = f[Arena]
  BY InUseSums
<1>2. PICK e \in MemorySums(g) : InUse(g) = e[Arena]
  BY InUseSums
<1>3. \A k \in Address : k # a => Occupied(g, k) = Occupied(h, k)
  BY DEF Occupied, OthersKept
<1>4. \A k : Occupied(g, k) \in Int /\ Occupied(h, k) \in Int
  BY UsedIsInt
<1>5. Arena \in Nat /\ a \in 0 .. Arena - 1
  BY HeapAssumption DEF Address
<1> DEFINE c == Occupied(g, a) - Occupied(h, a)
           T == {k \in 0 .. Arena : e[k] = f[k] + IF k > a THEN c ELSE 0}
<1>6. 0 \in T
  BY <1>5 DEF MemorySums
<1>7. ASSUME NEW k \in 0 .. Arena, k \in T, k < Arena PROVE k + 1 \in T
  <2>1. k + 1 \in 1 .. Arena /\ (k + 1) - 1 = k /\ k + 1 \in 0 .. Arena /\ k \in Address
    BY <1>5, <1>7 DEF Address
  <2>2. e[k + 1] = e[k] + Occupied(g, k) /\ f[k + 1] = f[k] + Occupied(h, k)
    BY <2>1 DEF MemorySums
  <2>3. f[k] \in Int /\ c \in Int
    BY <1>4 DEF MemorySums
  <2>4. CASE k = a
    <3>1. e[k] = f[k]
      BY <1>5, <1>7, <2>3, <2>4
    <3>2. e[k + 1] = f[k + 1] + c
      BY <1>4, <2>2, <2>3, <2>4, <3>1
    <3> QED BY <1>5, <2>1, <2>4, <3>2
  <2>5. CASE k # a
    <3> HIDE DEF c
    <3>1. Occupied(g, k) = Occupied(h, k) /\ Occupied(h, k) \in Int /\ ((k + 1 > a) <=> (k > a))
      BY <1>3, <1>4, <1>5, <2>1, <2>5
    <3>2. e[k] = f[k] + IF k > a THEN c ELSE 0
      BY <1>7
    <3>3. e[k + 1] = f[k + 1] + IF k + 1 > a THEN c ELSE 0
      BY <2>2, <2>3, <3>1, <3>2
    <3> QED BY <2>1, <3>3
  <2> QED BY <2>4, <2>5
<1>8. T \in SUBSET (0 .. Arena)
  OBVIOUS
<1>9. T = 0 .. Arena
  <2> HIDE DEF T
  <2> QED BY <1>5, <1>6, <1>7, <1>8, IntervalInduction
<1>10. Arena \in 0 .. Arena /\ Arena > a /\ f[Arena] \in Int
  BY <1>5 DEF MemorySums
<1>11. e[Arena] = f[Arena] + c
  <2>1. Arena \in T
    BY <1>9, <1>10
  <2> QED BY <1>10, <2>1
<1> QED
  BY <1>1, <1>2, <1>4, <1>10, <1>11

LEMMA NothingInUse ==
    ASSUME NEW h \in Heaps, Busy(h) = {}
    PROVE  InUse(h) = 0
<1>1. PICK f \in MemorySums(h) : InUse(h) = f[Arena]
  BY InUseSums
<1>2. \A k : Occupied(h, k) = 0
  BY DEF Occupied
<1> DEFINE T == {k \in 0 .. Arena : f[k] = 0}
<1>3. 0 \in T /\ Arena \in Nat
  BY HeapAssumption DEF MemorySums
<1>4. ASSUME NEW k \in 0 .. Arena, k \in T, k < Arena PROVE k + 1 \in T
  <2>1. k + 1 \in 1 .. Arena /\ (k + 1) - 1 = k /\ k + 1 \in 0 .. Arena
    BY <1>3, <1>4
  <2>2. f[k + 1] = f[k] + Occupied(h, k)
    BY <2>1 DEF MemorySums
  <2> QED BY <1>2, <1>4, <2>1, <2>2
<1>5. T \in SUBSET (0 .. Arena)
  OBVIOUS
<1>6. T = 0 .. Arena
  <2> HIDE DEF T
  <2> QED BY <1>3, <1>4, <1>5, IntervalInduction
<1>7. Arena \in 0 .. Arena
  BY <1>3
<1> QED
  BY <1>1, <1>6, <1>7
-----------------------------------------------------------------------------
(* A call that changes one block keeps the count of mm_get_allocated.      *)
Counted(h) == BlocksSound(h) /\ h.allocated = InUse(h)

LEMMA StaysCounted ==
    ASSUME NEW h, Counted(h), NEW g, BlocksSound(g), NEW a \in Address, OthersKept(h, g, a),
           g.allocated = h.allocated + Occupied(g, a) - Occupied(h, a)
    PROVE  Counted(g)
  BY UseChanges DEF Counted, BlocksSound

LEMMA TakenCounted ==
    ASSUME NEW h, Counted(h), NEW n \in Nat \ {0}, NEW a \in FreeBlocks(h), h.blk[a].size >= n
    PROVE  LET g == Taken(h, a, n)
           IN  /\ Counted(g) /\ OthersKept(h, g, a) /\ a \in Busy(g) /\ a \notin Busy(h)
               /\ g.blk[a].size >= n
<1> DEFINE g == Taken(h, a, n)
<1>1. /\ BlocksSound(g) /\ OthersKept(h, g, a) /\ a \in Busy(g) /\ a \notin Busy(h)
      /\ g.blk[a].size >= n
      /\ g.allocated = h.allocated + (g.blk[a].size + Header)
  BY TakenSound DEF Counted
<1> HIDE DEF g
<1>2. a \in Address /\ g.blk[a].size \in Nat /\ h.allocated \in Int
  BY <1>1, HeapFields DEF Counted, BlocksSound, Busy, FreeBlocks
<1>3. Occupied(h, a) = 0 /\ Occupied(g, a) = Header + g.blk[a].size
  BY <1>1 DEF Occupied
<1>4. g.allocated = h.allocated + Occupied(g, a) - Occupied(h, a)
  BY <1>1, <1>2, <1>3, HeapAssumption
<1>5. Counted(g)
  BY <1>1, <1>2, <1>4, StaysCounted
<1> QED
  BY <1>1, <1>5 DEF g

LEMMA FreedCounted ==
    ASSUME NEW h, Counted(h), NEW a \in Busy(h)
    PROVE  LET g == Freed(h, a)
           IN  Counted(g) /\ OthersKept(h, g, a) /\ a \notin Busy(g)
<1> DEFINE g == Freed(h, a)
<1>1. /\ BlocksSound(g) /\ OthersKept(h, g, a) /\ a \notin Busy(g)
      /\ g.allocated = h.allocated - (h.blk[a].size + Header)
  BY FreedSound DEF Counted
<1> HIDE DEF g
<1>2. a \in Address /\ h.blk[a].size \in Nat /\ h.allocated \in Int
  BY HeapFields DEF Counted, BlocksSound, Busy
<1>3. Occupied(g, a) = 0 /\ Occupied(h, a) = Header + h.blk[a].size
  BY <1>1 DEF Occupied
<1>4. g.allocated = h.allocated + Occupied(g, a) - Occupied(h, a)
  BY <1>1, <1>2, <1>3, HeapAssumption
<1>5. Counted(g)
  BY <1>1, <1>2, <1>4, StaysCounted
<1> QED
  BY <1>1, <1>5 DEF g

(* A block in use changes its size in place: what mm_realloc counts.       *)
Resizing(s, h, a) == [s EXCEPT !.allocated = h.allocated + s.blk[a].size - h.blk[a].size]

LEMMA ResizedCounted ==
    ASSUME NEW h, Counted(h), NEW a \in Busy(h), NEW s, BlocksSound(s), OthersKept(h, s, a),
           a \in Busy(s)
    PROVE  LET g == Resizing(s, h, a)
           IN  /\ Counted(g) /\ OthersKept(h, g, a) /\ a \in Busy(g)
               /\ g.blk[a].size = s.blk[a].size
<1> DEFINE w == h.allocated + s.blk[a].size - h.blk[a].size
           g == Resizing(s, h, a)
<1>1. /\ a \in Address /\ h.blk[a].size \in Nat /\ s.blk[a].size \in Nat
      /\ h.allocated \in Int /\ s \in Heaps
  BY HeapFields DEF Counted, BlocksSound, Busy
<1>2. w \in Int
  BY <1>1
<1>3. BlocksSound(g) /\ g.blk = s.blk /\ g.allocated = w
  <2>1. g = [s EXCEPT !.allocated = w]
    BY DEF Resizing
  <2> HIDE DEF g, w
  <2> QED BY <1>1, <1>2, <2>1, Counter
<1> HIDE DEF g
<1>4. Busy(g) = Busy(s) /\ OthersKept(h, g, a) /\ a \in Busy(g)
  BY <1>3 DEF Busy, OthersKept
<1>5. Occupied(g, a) = Header + s.blk[a].size /\ Occupied(h, a) = Header + h.blk[a].size
  BY <1>3, <1>4 DEF Occupied
<1>6. g.allocated = h.allocated + Occupied(g, a) - Occupied(h, a)
  BY <1>1, <1>3, <1>5, HeapAssumption
<1>7. Counted(g)
  BY <1>1, <1>3, <1>4, <1>6, StaysCounted
<1> QED
  BY <1>3, <1>4, <1>7 DEF g

LEMMA KeptTwice ==
    ASSUME NEW h, NEW mid, NEW g, NEW a, OthersKept(h, mid, a), OthersKept(mid, g, a)
    PROVE  OthersKept(h, g, a)
  BY DEF OthersKept

Shrunk(h, a, n) ==
    LET s == Split(h, a, n)
    IN  [s EXCEPT !.allocated = @ - (h.blk[a].size - s.blk[a].size)]
Extended(h, a, n) ==
    LET s == Split(MergeWithNext(RemoveFree(h, h.blk[a].next), a), a, n)
    IN  [s EXCEPT !.allocated = @ + s.blk[a].size - h.blk[a].size]

LEMMA ShrunkCounted ==
    ASSUME NEW h, Counted(h), NEW a \in Busy(h), NEW n \in Nat \ {0}, n <= h.blk[a].size
    PROVE  LET g == Shrunk(h, a, n)
           IN  Counted(g) /\ OthersKept(h, g, a) /\ a \in Busy(g) /\ g.blk[a].size >= n
<1> DEFINE s == Split(h, a, n)
<1>1. h.blk[a].size \in Nat /\ h.allocated \in Int
  BY HeapFields DEF Counted, BlocksSound, Busy
<1>2. /\ BlocksSound(s) /\ OthersKept(h, s, a) /\ a \in Busy(s) /\ s.blk[a].size >= n
      /\ s.allocated = h.allocated
  BY <1>1, SplitSound DEF Counted
<1>3. s.blk[a].size \in Nat
  BY <1>2, HeapFields DEF BlocksSound, Busy
<1>4. Shrunk(h, a, n) = Resizing(s, h, a)
  <2>1. Shrunk(h, a, n) = [s EXCEPT !.allocated = s.allocated - (h.blk[a].size - s.blk[a].size)]
    BY DEF Shrunk
  <2> HIDE DEF s
  <2>2. s.allocated - (h.blk[a].size - s.blk[a].size) = h.allocated + s.blk[a].size - h.blk[a].size
    BY <1>1, <1>2, <1>3
  <2> QED BY <2>1, <2>2 DEF Resizing
<1> HIDE DEF s
<1> QED
  BY <1>2, <1>4, ResizedCounted

LEMMA ExtendedCounted ==
    ASSUME NEW h, Counted(h), NEW a \in Busy(h), NEW n \in Nat \ {0},
           FreeNeighbour(h, h.blk[a].next),
           h.blk[a].size + Header + h.blk[h.blk[a].next].size >= n
    PROVE  LET g == Extended(h, a, n)
           IN  Counted(g) /\ OthersKept(h, g, a) /\ a \in Busy(g) /\ g.blk[a].size >= n
<1> DEFINE mid == MergeWithNext(RemoveFree(h, h.blk[a].next), a)
           s == Split(mid, a, n)
<1>1. h.blk[a].size \in Nat /\ h.allocated \in Int /\ Loose(h, a)
  BY HeapFields, BusyIsLoose DEF Counted, BlocksSound, Busy
<1>2. /\ Loose(mid, a) /\ OthersKept(h, mid, a) /\ Busy(mid) = Busy(h)
      /\ mid.blk[a].size = h.blk[a].size + Header + h.blk[h.blk[a].next].size
      /\ mid.allocated = h.allocated
  BY <1>1, AbsorbNext
<1> HIDE DEF mid
<1>3. BlocksSound(mid)
  <2>1. FreeBlocks(mid) \ {a} = FreeBlocks(mid)
    BY <1>2 DEF Busy, FreeBlocks
  <2> QED BY <1>2, <2>1 DEF Loose, BlocksSound
<1>4. /\ BlocksSound(s) /\ OthersKept(mid, s, a) /\ a \in Busy(s) /\ s.blk[a].size >= n
      /\ s.allocated = h.allocated
  BY <1>2, <1>3, SplitSound
<1>5. s.blk[a].size \in Nat /\ OthersKept(h, s, a)
  BY <1>2, <1>4, KeptTwice, HeapFields DEF BlocksSound, Busy
<1>6. Extended(h, a, n) = Resizing(s, h, a)
  BY <1>4 DEF Extended, Resizing, s, mid
<1> HIDE DEF s
<1> QED
  BY <1>4, <1>5, <1>6, ResizedCounted
-----------------------------------------------------------------------------
(* What the callers hold: w is a value of `owned`.                         *)
Holdings == UNION {[D -> [ptr : Address, size : Nat]] : D \in SUBSET Owner}
Others(w, o) == {w[x].ptr : x \in DOMAIN w \ {o}}
Apart(w, h) ==
    /\ {w[o].ptr : o \in DOMAIN w} = Busy(h)
    /\ \A o \in DOMAIN w : w[o].size <= h.blk[w[o].ptr].size
    /\ \A o, q \in DOMAIN w : w[o].ptr = w[q].ptr => o = q
With(w, o, a, n) ==
    [x \in DOMAIN w \union {o} |-> IF x = o THEN [ptr |-> a, size |-> n] ELSE w[x]]
Dropped(w, o) == [x \in DOMAIN w \ {o} |-> w[x]]

LEMMA OthersOf ==
    ASSUME NEW w \in Holdings, NEW h, Apart(w, h), NEW o
    PROVE  Others(w, o) = IF o \in DOMAIN w THEN Busy(h) \ {w[o].ptr} ELSE Busy(h)
  BY DEF Others, Apart

(* o comes to hold b, and the other callers' blocks are as they were.      *)
LEMMA GivenApart ==
    ASSUME NEW w \in Holdings, NEW h, Apart(w, h), NEW o \in Owner,
           NEW b \in Address, NEW n \in Nat, NEW g,
           b \notin Others(w, o), Busy(g) = Others(w, o) \union {b},
           \A x \in Others(w, o) : g.blk[x].size = h.blk[x].size,
           g.blk[b].size >= n
    PROVE  With(w, o, b, n) \in Holdings /\ Apart(With(w, o, b, n), g)
<1> DEFINE u == With(w, o, b, n)
           D == DOMAIN w \union {o}
<1>1. PICK E \in SUBSET Owner : w \in [E -> [ptr : Address, size : Nat]]
  BY DEF Holdings
<1>2. /\ DOMAIN u = D /\ DOMAIN w = E /\ D \in SUBSET Owner
      /\ u[o] = [ptr |-> b, size |-> n] /\ \A x \in D : x # o => x \in DOMAIN w /\ u[x] = w[x]
  BY <1>1 DEF With
<1>3. u \in [D -> [ptr : Address, size : Nat]]
  BY <1>1 DEF With
<1>4. u \in Holdings
  BY <1>2, <1>3 DEF Holdings
<1> HIDE DEF u
<1>5. \A x \in D : x # o => u[x].ptr \in Others(w, o)
  BY <1>2 DEF Others
<1>6. {u[x].ptr : x \in D} = Busy(g)
  <2>1. ASSUME NEW p \in Others(w, o) PROVE p \in {u[x].ptr : x \in D}
    <3>1. PICK x \in DOMAIN w \ {o} : w[x].ptr = p
      BY <2>1 DEF Others
    <3> QED BY <1>2, <3>1
  <2>2. u[o].ptr = b
    BY <1>2
  <2> QED BY <1>2, <1>5, <2>1, <2>2
<1>7. \A x \in D : u[x].size <= g.blk[u[x].ptr].size
  <2>1. u[o].size <= g.blk[u[o].ptr].size
    <3>1. b \in {b}
      OBVIOUS
    <3> QED BY <1>2
  <2>2. ASSUME NEW x \in D, x # o PROVE u[x].size <= g.blk[u[x].ptr].size
    BY <1>2, <1>5, <2>2 DEF Apart
  <2> QED BY <2>1, <2>2
<1>8. \A x, y \in D : u[x].ptr = u[y].ptr => x = y
  BY <1>2, <1>5 DEF Apart
<1> QED
  BY <1>2, <1>4, <1>6, <1>7, <1>8 DEF u, Apart

LEMMA TakenBack ==
    ASSUME NEW w \in Holdings, NEW h, Apart(w, h), NEW o \in DOMAIN w, NEW g,
           OthersKept(h, g, w[o].ptr), w[o].ptr \notin Busy(g)
    PROVE  Dropped(w, o) \in Holdings /\ Apart(Dropped(w, o), g)
<1> DEFINE u == Dropped(w, o)
           D == DOMAIN w \ {o}
<1>1. PICK E \in SUBSET Owner : w \in [E -> [ptr : Address, size : Nat]]
  BY DEF Holdings
<1>2. /\ DOMAIN u = D /\ D \in SUBSET Owner /\ D \subseteq DOMAIN w
      /\ \A x \in D : u[x] = w[x]
  BY <1>1 DEF Dropped
<1>3. u \in [D -> [ptr : Address, size : Nat]]
  BY <1>1 DEF Dropped
<1>4. u \in Holdings
  BY <1>2, <1>3 DEF Holdings
<1> HIDE DEF u
<1>5. Others(w, o) = Busy(h) \ {w[o].ptr} /\ Busy(g) = Busy(h) \ {w[o].ptr}
  BY OthersOf DEF OthersKept
<1>6. {u[x].ptr : x \in D} = Busy(g)
  BY <1>2, <1>5 DEF Others
<1>7. \A x \in D : u[x].size <= g.blk[u[x].ptr].size
  <2> TAKE x \in D
  <2>1. u[x].ptr \in Busy(h) \ {w[o].ptr}
    BY <1>5, <1>6
  <2> QED BY <1>2, <2>1 DEF Apart, OthersKept
<1>8. \A x, y \in D : u[x].ptr = u[y].ptr => x = y
  BY <1>2 DEF Apart
<1> QED
  BY <1>2, <1>4, <1>6, <1>7, <1>8 DEF u, Apart
-----------------------------------------------------------------------------
(* The inductive invariant: HeapSound with the lists as chains, so that a  *)
(* call that disturbs one link can be followed.                            *)
HeapInv ==
    /\ Counted(heap) /\ owned \in Holdings /\ Apart(owned, heap)
    /\ refused # 0 => \A a \in FreeBlocks(heap) : heap.blk[a].size < refused

LEMMA StartsSound == HeapInit => HeapInv
<1> DEFINE first == [size |-> Arena - Header, free |-> TRUE, next |-> NULL, prev |-> NULL,
                     nextFree |-> NULL, prevFree |-> NULL]
           blk == [a \in {0} |-> first]
           h == [blk |-> blk, list |-> [i \in Classes |-> NULL], allocated |-> 0]
           g == InsertFree(h, 0)
<1>1. Arena \in Nat /\ Header \in Nat /\ 0 < Arena - Header /\ 0 \in Address
  BY HeapAssumption DEF Address
<1>2. h \in Heaps
  <2>1. first \in BlockRecord
    BY <1>1 DEF BlockRecord, Pointer
  <2>2. blk \in [{0} -> BlockRecord] /\ {0} \in SUBSET Address
    BY <1>1, <2>1
  <2>3. blk \in UNION {[B -> BlockRecord] : B \in SUBSET Address}
    BY <2>2
  <2>4. [i \in Classes |-> NULL] \in [Classes -> Pointer]
    BY DEF Pointer
  <2> HIDE DEF blk
  <2> QED BY <2>3, <2>4 DEF Heaps
<1>3. /\ DOMAIN h.blk = {0} /\ h.blk[0] = first /\ h.allocated = 0
      /\ \A i \in Classes : h.list[i] = NULL
  OBVIOUS
<1> HIDE DEF h
<1>4. Tiles(h)
  <2>1. End(h, 0) = Arena
    BY <1>1, <1>3 DEF End
  <2> QED BY <1>1, <1>3, <2>1 DEF Tiles
<1>5. FreeBlocks(h) \ {0} = {} /\ Busy(h) = {}
  BY <1>3 DEF FreeBlocks, Busy
<1>6. Chained(h, {}, [x \in Address |-> 0])
  BY <1>3 DEF Chained, Ordered, Headed, Before, BeforeNext
<1>7. Loose(h, 0)
  BY <1>2, <1>3, <1>4, <1>5, <1>6 DEF Loose
<1>8. BlocksSound(g) /\ OthersKept(h, g, 0) /\ 0 \notin Busy(g) /\ g.allocated = 0
  BY <1>3, <1>7, InsertLoose
<1> HIDE DEF g
<1>9. Busy(g) = {}
  BY <1>5, <1>8 DEF OthersKept
<1>10. Counted(g)
  BY <1>8, <1>9, NothingInUse DEF Counted, BlocksSound
<1>11. <<>> \in Holdings /\ Apart(<<>>, g)
  <2>1. DOMAIN <<>> = {}
    OBVIOUS
  <2>2. <<>> \in [{} -> [ptr : Address, size : Nat]]
    OBVIOUS
  <2> QED BY <1>9, <2>1, <2>2 DEF Holdings, Apart
<1> SUFFICES ASSUME HeapInit PROVE HeapInv
  OBVIOUS
<1>12. heap = g /\ owned = <<>> /\ refused = 0
  BY DEF HeapInit, g, h
<1> QED
  BY <1>10, <1>11, <1>12 DEF HeapInv

LEMMA HeldIsBusy ==
    ASSUME HeapInv, NEW o, Holds(o)
    PROVE  owned[o].ptr \in Busy(heap) /\ owned[o].ptr \in Address
  BY HeapFields DEF HeapInv, Holds, Apart, Counted, BlocksSound, Busy

LEMMA MallocSound ==
    ASSUME HeapInv, NEW o \in Owner, NEW n \in Requests, Malloc(o, n)
    PROVE  HeapInv'
<1> DEFINE a == FindFree(heap, n)
<1>1. n \in Nat \ {0} /\ BlocksSound(heap) /\ o \notin DOMAIN owned
  BY HeapAssumption DEF Requests, HeapInv, Counted, Malloc, Holds
<1>2. \/ a = NULL /\ \A x \in FreeBlocks(heap) : heap.blk[x].size < n
      \/ a # NULL /\ a \in FreeBlocks(heap) /\ heap.blk[a].size >= n
  BY <1>1, FindFreeFits
<1>3. CASE a = NULL
  <2>1. refused' = n /\ heap' = heap /\ owned' = owned
    BY <1>3 DEF Malloc
  <2> HIDE DEF a
  <2> QED BY <1>2, <1>3, <2>1 DEF HeapInv
<1>4. CASE a # NULL
  <2>1. heap' = Taken(heap, a, n) /\ owned' = With(owned, o, a, n) /\ refused' = 0
    BY <1>4 DEF Malloc, Given, With
  <2> HIDE DEF a
  <2>2. /\ Counted(heap') /\ OthersKept(heap, heap', a) /\ a \in Busy(heap') /\ a \notin Busy(heap)
        /\ heap'.blk[a].size >= n
    BY <1>1, <1>2, <1>4, <2>1, TakenCounted DEF HeapInv
  <2>3. Others(owned, o) = Busy(heap) /\ a \in Address
    BY <1>1, <2>2, OthersOf, HeapFields DEF HeapInv, Counted, BlocksSound, Busy
  <2>4. Busy(heap') = Busy(heap) \union {a} /\ \A x \in Busy(heap) : heap'.blk[x].size = heap.blk[x].size
    BY <2>2 DEF OthersKept
  <2>5. With(owned, o, a, n) \in Holdings /\ Apart(With(owned, o, a, n), heap')
    BY <1>1, <2>2, <2>3, <2>4, GivenApart DEF HeapInv
  <2> QED BY <2>1, <2>2, <2>5 DEF HeapInv
<1> QED
  BY <1>3, <1>4

LEMMA FreeSound ==
    ASSUME HeapInv, NEW o \in Owner, Free(o)
    PROVE  HeapInv'
<1> DEFINE a == owned[o].ptr
<1>1. o \in DOMAIN owned /\ a \in Busy(heap)
  BY HeldIsBusy DEF Free, Holds
<1>2. heap' = Freed(heap, a) /\ owned' = Dropped(owned, o) /\ refused' = 0
  BY DEF Free, Dropped
<1>3. Counted(heap') /\ OthersKept(heap, heap', a) /\ a \notin Busy(heap')
  BY <1>1, <1>2, FreedCounted DEF HeapInv
<1>4. Dropped(owned, o) \in Holdings /\ Apart(Dropped(owned, o), heap')
  BY <1>1, <1>3, TakenBack DEF HeapInv
<1> QED
  BY <1>2, <1>3, <1>4 DEF HeapInv

(* A block that keeps its address and its owner.                           *)
LEMMA SameHolder ==
    ASSUME HeapInv, NEW o \in Owner, Holds(o), NEW n \in Nat,
           Counted(heap'), OthersKept(heap, heap', owned[o].ptr),
           owned[o].ptr \in Busy(heap'), heap'.blk[owned[o].ptr].size >= n,
           Given(o, owned[o].ptr, n), refused' = 0
    PROVE  HeapInv'
<1> DEFINE a == owned[o].ptr
<1>1. o \in DOMAIN owned /\ a \in Busy(heap) /\ a \in Address
  BY HeldIsBusy DEF Holds
<1>2. Others(owned, o) = Busy(heap) \ {a}
  BY <1>1, OthersOf DEF HeapInv
<1>3. owned' = With(owned, o, a, n)
  BY DEF Given, With
<1> HIDE DEF a
<1>4. /\ a \notin Others(owned, o) /\ Busy(heap') = Others(owned, o) \union {a}
      /\ \A x \in Others(owned, o) : heap'.blk[x].size = heap.blk[x].size
  BY <1>2 DEF OthersKept, a
<1>5. With(owned, o, a, n) \in Holdings /\ Apart(With(owned, o, a, n), heap')
  BY <1>1, <1>4, GivenApart DEF HeapInv, a
<1> QED
  BY <1>3, <1>5 DEF HeapInv

LEMMA ReallocShrinkSound ==
    ASSUME HeapInv, NEW o \in Owner, NEW n \in Requests, ReallocShrink(o, n)
    PROVE  HeapInv'
<1> DEFINE a == owned[o].ptr
<1>1. n \in Nat \ {0} /\ Holds(o) /\ a \in Busy(heap) /\ n <= heap.blk[a].size
  BY HeldIsBusy, HeapAssumption DEF Requests, ReallocShrink
<1>2. heap' = Shrunk(heap, a, n) /\ Given(o, a, n) /\ refused' = 0
  BY DEF ReallocShrink, Shrunk
<1> HIDE DEF a
<1>3. Counted(heap') /\ OthersKept(heap, heap', a) /\ a \in Busy(heap') /\ heap'.blk[a].size >= n
  BY <1>1, <1>2, ShrunkCounted DEF HeapInv
<1> QED
  BY <1>1, <1>2, <1>3, SameHolder DEF a

LEMMA ReallocExtendSound ==
    ASSUME HeapInv, NEW o \in Owner, NEW n \in Requests, ReallocExtend(o, n)
    PROVE  HeapInv'
<1> DEFINE a == owned[o].ptr
<1>1. n \in Nat \ {0} /\ Holds(o) /\ a \in Busy(heap)
  BY HeldIsBusy, HeapAssumption DEF Requests, ReallocExtend
<1>2. /\ FreeNeighbour(heap, heap.blk[a].next)
      /\ heap.blk[a].size + Header + heap.blk[heap.blk[a].next].size >= n
  BY DEF ReallocExtend, CanExtend
<1>3. heap' = Extended(heap, a, n) /\ Given(o, a, n) /\ refused' = 0
  BY DEF ReallocExtend, Extended
<1> HIDE DEF a
<1>4. Counted(heap') /\ OthersKept(heap, heap', a) /\ a \in Busy(heap') /\ heap'.blk[a].size >= n
  BY <1>1, <1>2, <1>3, ExtendedCounted DEF HeapInv
<1> QED
  BY <1>1, <1>3, <1>4, SameHolder DEF a

LEMMA ReallocMoveSound ==
    ASSUME HeapInv, NEW o \in Owner, NEW n \in Requests, ReallocMove(o, n)
    PROVE  HeapInv'
<1> DEFINE a == owned[o].ptr
           b == FindFree(heap, n)
           t == Taken(heap, b, n)
<1>1. n \in Nat \ {0} /\ o \in DOMAIN owned /\ a \in Busy(heap) /\ BlocksSound(heap)
  BY HeldIsBusy, HeapAssumption DEF Requests, ReallocMove, Holds, HeapInv, Counted
<1>2. \/ b = NULL /\ \A x \in FreeBlocks(heap) : heap.blk[x].size < n
      \/ b # NULL /\ b \in FreeBlocks(heap) /\ heap.blk[b].size >= n
  BY <1>1, FindFreeFits
<1>3. CASE b = NULL
  <2>1. refused' = n /\ heap' = heap /\ owned' = owned
    BY <1>3 DEF ReallocMove
  <2> HIDE DEF a, b
  <2> QED BY <1>2, <1>3, <2>1 DEF HeapInv
<1>4. CASE b # NULL
  <2>1. heap' = Freed(t, a) /\ owned' = With(owned, o, b, n) /\ refused' = 0
    BY <1>4 DEF ReallocMove, Given, With
  <2> HIDE DEF b
  <2>2. /\ Counted(t) /\ OthersKept(heap, t, b) /\ b \in Busy(t) /\ b \notin Busy(heap)
        /\ t.blk[b].size >= n
    BY <1>1, <1>2, <1>4, TakenCounted DEF HeapInv
  <2> HIDE DEF t
  <2>3. a # b /\ a \in Busy(t) /\ Busy(t) = Busy(heap) \union {b}
    BY <1>1, <2>2 DEF OthersKept
  <2>4. Counted(heap') /\ OthersKept(t, heap', a) /\ a \notin Busy(heap')
    BY <2>1, <2>2, <2>3, FreedCounted
  <2>5. Others(owned, o) = Busy(heap) \ {a} /\ b \in Address
    BY <1>1, <2>2, OthersOf, HeapFields DEF HeapInv, Counted, BlocksSound, Busy
  <2> HIDE DEF a
  <2>6. /\ Busy(heap') = Others(owned, o) \union {b} /\ b \notin Others(owned, o)
        /\ heap'.blk[b].size >= n
        /\ \A x \in Others(owned, o) : heap'.blk[x].size = heap.blk[x].size
    BY <2>2, <2>3, <2>4, <2>5 DEF OthersKept
  <2>7. With(owned, o, b, n) \in Holdings /\ Apart(With(owned, o, b, n), heap')
    BY <1>1, <2>5, <2>6, GivenApart DEF HeapInv
  <2> QED BY <2>1, <2>4, <2>7 DEF HeapInv
<1> QED
  BY <1>3, <1>4

LEMMA InvImpliesSound == HeapInv => HeapSound
<1> SUFFICES ASSUME HeapInv PROVE HeapSound
  OBVIOUS
<1>1. PICK d : heap \in Heaps /\ Tiles(heap) /\ Chained(heap, FreeBlocks(heap), d)
  BY DEF HeapInv, Counted, BlocksSound
<1>2. ListsExact(heap)
  BY <1>1, ListsFollow
<1>3. OwnersApart(heap)
  BY DEF HeapInv, Apart, OwnersApart
<1> QED
  BY <1>1, <1>2, <1>3 DEF HeapInv, HeapSound, Counted

(* The allocator (mm.c), for every arena, header and set of callers: the   *)
(* blocks tile the arena, the free lists hold exactly the free blocks, no  *)
(* two callers share memory, the count of mm_get_allocated is the memory   *)
(* in use, and mm_malloc and mm_realloc refuse only what no free block can *)
(* hold.                                                                   *)
THEOREM HeapStaysSound == HeapSpec => []HeapSound
<1>1. HeapInit => HeapInv
  BY StartsSound
<1>2. HeapInv /\ [HeapNext]_heapVars => HeapInv'
  <2> SUFFICES ASSUME HeapInv, [HeapNext]_heapVars PROVE HeapInv'
    OBVIOUS
  <2>1. CASE UNCHANGED heapVars
    <3>1. heap' = heap /\ owned' = owned /\ refused' = refused
      BY <2>1 DEF heapVars
    <3> QED BY <3>1 DEF HeapInv
  <2>2. ASSUME NEW o \in Owner, Free(o) PROVE HeapInv'
    BY <2>2, FreeSound
  <2>3. ASSUME NEW o \in Owner, NEW n \in Requests, Malloc(o, n) PROVE HeapInv'
    BY <2>3, MallocSound
  <2>4. ASSUME NEW o \in Owner, NEW n \in Requests, ReallocShrink(o, n) PROVE HeapInv'
    BY <2>4, ReallocShrinkSound
  <2>5. ASSUME NEW o \in Owner, NEW n \in Requests, ReallocExtend(o, n) PROVE HeapInv'
    BY <2>5, ReallocExtendSound
  <2>6. ASSUME NEW o \in Owner, NEW n \in Requests, ReallocMove(o, n) PROVE HeapInv'
    BY <2>6, ReallocMoveSound
  <2> QED BY <2>1, <2>2, <2>3, <2>4, <2>5, <2>6 DEF HeapNext
<1> QED
  BY <1>1, <1>2, InvImpliesSound, PTL DEF HeapSpec
=============================================================================
