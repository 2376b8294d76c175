------------------------------ MODULE RingQueue ------------------------------
(***************************************************************************)
(* queue_t of std/queue.c: a ring that doubles when it is full, with the   *)
(* oldest items first in the new one.  The inliner walks blocks with it,   *)
(* the parser keeps generic templates in it, and the duplicate finder      *)
(* steps two functions in parallel.                                        *)
(***************************************************************************)
EXTENDS Integers, Sequences

CONSTANTS
    Item,
    QueueCapacity,      \* QUEUE_INITIAL_CAPACITY
    MaxCount            \* bound on the items in the queue, of the model only

ASSUME CapacityAssumption == QueueCapacity \in Nat \ {0}

VARIABLES
    body,   \* the ring, a function on 0..size-1
    size,
    head, tail, count,
    answer  \* the last call and its answer

queueVars == <<body, size, head, tail, count, answer>>

Nothing == "nothing"        \* a cell that was never written

QueueInit ==
    /\ size = QueueCapacity
    /\ body = [i \in 0 .. QueueCapacity - 1 |-> Nothing]
    /\ head = 0 /\ tail = 0 /\ count = 0
    /\ answer = <<"init">>

(* _queue_resize copies one run, or the run from the head to the end of    *)
(* the ring and then the run up to the tail.                               *)
RingInPlace ==
    [i \in 0 .. 2 * size - 1 |-> IF i < size THEN body[i] ELSE Nothing]
ResizedRing ==
    [i \in 0 .. 2 * size - 1 |->
        IF head < tail
        THEN IF i < count THEN body[head + i] ELSE Nothing
        ELSE IF count = 0 \/ i >= size - head + tail THEN Nothing
        ELSE IF i < size - head THEN body[head + i]
        ELSE body[i - (size - head)]]

MustGrow == count = size

PushInRing(i) ==
    /\ ~MustGrow
    /\ body' = [body EXCEPT ![tail] = i]
    /\ tail' = (tail + 1) % size
    /\ UNCHANGED <<size, head>>

PushGrowing(i) ==
    /\ MustGrow
    /\ body' = [ResizedRing EXCEPT ![count] = i]
    /\ size' = 2 * size
    /\ head' = 0
    /\ tail' = (count + 1) % size'

Push(i) ==
    /\ count < MaxCount
    /\ PushInRing(i) \/ PushGrowing(i)
    /\ count' = count + 1
    /\ answer' = <<"push">>

Pop ==
    /\ count # 0
    /\ answer' = <<"pop", body[head]>>
    /\ head' = (head + 1) % size
    /\ count' = count - 1
    /\ UNCHANGED <<body, size, tail>>

PopNothing ==
    /\ count = 0
    /\ answer' = <<"pop">>
    /\ UNCHANGED <<body, size, head, tail, count>>

IsEmpty ==
    /\ answer' = <<"isempty", head = tail>>
    /\ UNCHANGED <<body, size, head, tail, count>>

QueueNext == (\E i \in Item : Push(i)) \/ Pop \/ PopNothing \/ IsEmpty

QueueSpec == QueueInit /\ [][QueueNext]_queueVars
---------------------------------------------------------------------------
(* The cursors stay inside the ring, and their distance is the count.      *)
RingOK ==
    /\ size \in Nat \ {0}
    /\ body \in [0 .. size - 1 -> Item \union {Nothing}]
    /\ head \in 0 .. size - 1
    /\ tail \in 0 .. size - 1
    /\ count \in 0 .. size
    /\ (head + count) % size = tail

(* The ring is a queue: first in, first out, through wraps and resizes.    *)
Items == [i \in 1 .. count |-> body[(head + i - 1) % size]]
AsFifo == INSTANCE Fifo WITH queue <- Items, reply <- answer
RefinesFifo == AsFifo!Spec
=============================================================================
