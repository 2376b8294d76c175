-------------------------------- MODULE Heap --------------------------------
(***************************************************************************)
(* The allocator of std/mm.c, built without PROD_MALLOC: one arena cut     *)
(* into blocks, each with a header that links it to the blocks beside it   *)
(* and, when free, into the list of its size class.  Every container and   *)
(* every instruction of the compiler lives in it.                          *)
(*                                                                         *)
(* Sizes are in units of ALIGNMENT bytes, after _align_up.  A heap is a    *)
(* value [blk, list, allocated]; one action is one call, and `owned` is    *)
(* what the callers hold.  A header absorbed by a merge leaves DOMAIN blk. *)
(***************************************************************************)
EXTENDS Integers, Sequences, FiniteSetsExt

CONSTANTS
    Arena,      \* ALLOC_BUFFER_SIZE
    Header,     \* sizeof(mm_block_t)
    Owner,      \* the pointers that callers hold
    MaxRequest  \* bound on the size asked for, of the model only

VARIABLES
    heap,
    owned,      \* owner to [ptr, size], its block and what it asked for
    refused     \* the size the last call could not give, or 0

heapVars == <<heap, owned, refused>>

ASSUME HeapAssumption ==
    /\ Arena \in Nat /\ Header \in Nat \ {0} /\ Header < Arena
    /\ MaxRequest \in Nat

NULL == -1
Address == 0 .. Arena - 1
Requests == 1 .. MaxRequest

(* _free_list_index: the limit doubles until the size is within it.        *)
Class(n) == CHOOSE i \in 0 .. 31 :
    /\ i = 31 \/ n <= 2 ^ i
    /\ \A j \in 0 .. i - 1 : n > 2 ^ j
Classes == 0 .. Class(Arena)

InsertFree(h, a) ==
    LET i == Class(h.blk[a].size)
        blk == [x \in DOMAIN h.blk |->
                  IF x = a THEN [h.blk[x] EXCEPT !.free = TRUE, !.prevFree = NULL,
                                                 !.nextFree = h.list[i]]
                  ELSE IF x = h.list[i] THEN [h.blk[x] EXCEPT !.prevFree = a]
                  ELSE h.blk[x]]
    IN  [h EXCEPT !.blk = blk, !.list[i] = a]

(* The neighbours in the list are joined; NULL is nobody's address.        *)
Unlinked(h, a) ==
    LET p == h.blk[a].prevFree
        n == h.blk[a].nextFree
    IN  [x \in DOMAIN h.blk |->
            [h.blk[x] EXCEPT !.nextFree = IF x = a THEN NULL ELSE IF x = p THEN n ELSE @,
                             !.prevFree = IF x = a THEN NULL ELSE IF x = n THEN p ELSE @]]
RemoveFreeHeadKept(h, a) == [h EXCEPT !.blk = Unlinked(h, a)]
RemoveFree(h, a) ==
    LET b == h.blk[a]
        unlinked == [h EXCEPT !.blk = Unlinked(h, a)]
    IN  IF b.prevFree # NULL THEN unlinked
        ELSE [unlinked EXCEPT !.list[Class(b.size)] = b.nextFree]

MergeWithNext(h, a) ==
    LET b == h.blk[a]
        n == h.blk[b.next]
    IN  [h EXCEPT !.blk = [x \in DOMAIN h.blk \ {b.next} |->
            IF x = a THEN [b EXCEPT !.size = @ + Header + n.size, !.next = n.next]
            ELSE IF x = n.next THEN [h.blk[x] EXCEPT !.prev = a]
            ELSE h.blk[x]]]

(* The rest becomes a free block if a header and one unit fit in it.       *)
Rest(a, n) == a + Header + n
Cut(h, a, n) ==
    LET b == h.blk[a]
        new == [size |-> b.size - n - Header, free |-> TRUE, next |-> b.next,
                prev |-> a, nextFree |-> NULL, prevFree |-> NULL]
    IN  [h EXCEPT !.blk = [x \in DOMAIN h.blk \union {Rest(a, n)} |->
            IF x = Rest(a, n) THEN new
            ELSE IF x = a THEN [b EXCEPT !.size = n, !.next = Rest(a, n)]
            ELSE IF x = b.next THEN [h.blk[x] EXCEPT !.prev = Rest(a, n)]
            ELSE h.blk[x]]]
Split(h, a, n) ==
    IF h.blk[a].size < n + Header + 1 THEN h ELSE InsertFree(Cut(h, a, n), Rest(a, n))

(* The blocks of a list from its head, then NULL: no list is longer than   *)
(* there are blocks.                                                       *)
Places(h) == 0 .. Cardinality(DOMAIN h.blk)
ListFrom(h, i) ==
    LET Behind(a) == IF a = NULL THEN NULL ELSE h.blk[a].nextFree
        node[k \in Places(h)] == IF k = 0 THEN h.list[i] ELSE Behind(node[k - 1])
    IN  node

(* _find_free_block: the lists from the size's class up, each from its     *)
(* head, for the first block that is large enough.                         *)
FitsAny(h, i, n) ==
    LET l == ListFrom(h, i) IN {k \in Places(h) : l[k] # NULL}
Fits(h, i, n) ==
    LET l == ListFrom(h, i) IN {k \in Places(h) : l[k] # NULL /\ h.blk[l[k]].size >= n}
FirstClassAbove(n) == Class(n) + 1
FirstClass(n) == Class(n)
Candidates(h, n) == {i \in Classes : i >= FirstClass(n) /\ Fits(h, i, n) # {}}
FindFree(h, n) ==
    IF Candidates(h, n) = {} THEN NULL
    ELSE LET i == Min(Candidates(h, n)) IN ListFrom(h, i)[Min(Fits(h, i, n))]

Taken(h, a, n) ==
    LET busy == [RemoveFree(h, a) EXCEPT !.blk[a].free = FALSE]
        s == Split(busy, a, n)
    IN  [s EXCEPT !.allocated = @ + s.blk[a].size + Header]

FreeNeighbour(h, a) == a # NULL /\ h.blk[a].free
Freed(h, a) ==
    LET gone == [h EXCEPT !.allocated = @ - (h.blk[a].size + Header),
                          !.blk[a].free = TRUE]
        p == gone.blk[a].prev
        back == IF FreeNeighbour(gone, p)
                THEN MergeWithNext(RemoveFree(gone, p), p) ELSE gone
        b == IF FreeNeighbour(gone, p) THEN p ELSE a
        n == back.blk[b].next
        both == IF FreeNeighbour(back, n)
                THEN MergeWithNext(RemoveFree(back, n), b) ELSE back
    IN  InsertFree(both, b)
---------------------------------------------------------------------------
(* mm_init                                                                 *)
HeapInit ==
    /\ heap = InsertFree(
           [blk |-> [a \in {0} |->
                        [size |-> Arena - Header, free |-> TRUE, next |-> NULL,
                         prev |-> NULL, nextFree |-> NULL, prevFree |-> NULL]],
            list |-> [i \in Classes |-> NULL], allocated |-> 0], 0)
    /\ owned = <<>>
    /\ refused = 0

Holds(o) == o \in DOMAIN owned
Given(o, a, n) ==
    owned' = [x \in DOMAIN owned \union {o} |->
                 IF x = o THEN [ptr |-> a, size |-> n] ELSE owned[x]]

Malloc(o, n) ==
    /\ ~Holds(o)
    /\ LET a == FindFree(heap, n)
       IN  IF a = NULL THEN refused' = n /\ UNCHANGED <<heap, owned>>
           ELSE heap' = Taken(heap, a, n) /\ Given(o, a, n) /\ refused' = 0

Free(o) ==
    /\ Holds(o)
    /\ heap' = Freed(heap, owned[o].ptr)
    /\ owned' = [x \in DOMAIN owned \ {o} |-> owned[x]]
    /\ refused' = 0

(* mm_realloc to at most the size of the block: in place, with the rest    *)
(* split off.                                                              *)
ReallocShrink(o, n) ==
    /\ Holds(o)
    /\ LET a == owned[o].ptr
           s == Split(heap, a, n)
       IN  /\ n <= heap.blk[a].size
           /\ heap' = [s EXCEPT !.allocated = @ - (heap.blk[a].size - s.blk[a].size)]
           /\ Given(o, a, n)
    /\ refused' = 0

CanExtend(a, n) ==
    /\ FreeNeighbour(heap, heap.blk[a].next)
    /\ heap.blk[a].size + Header + heap.blk[heap.blk[a].next].size >= n

(* mm_realloc into the free block that follows.                            *)
ReallocExtend(o, n) ==
    /\ Holds(o)
    /\ LET a == owned[o].ptr
           m == MergeWithNext(RemoveFree(heap, heap.blk[a].next), a)
           s == Split(m, a, n)
       IN  /\ n > heap.blk[a].size /\ CanExtend(a, n)
           /\ heap' = [s EXCEPT !.allocated = @ + s.blk[a].size - heap.blk[a].size]
           /\ Given(o, a, n)
    /\ refused' = 0

(* mm_realloc to a new block; the old one stays when there is none.        *)
ReallocMove(o, n) ==
    /\ Holds(o)
    /\ LET a == owned[o].ptr
           b == FindFree(heap, n)
       IN  /\ n > heap.blk[a].size /\ ~CanExtend(a, n)
           /\ IF b = NULL THEN refused' = n /\ UNCHANGED <<heap, owned>>
              ELSE /\ heap' = Freed(Taken(heap, b, n), a)
                   /\ Given(o, b, n) /\ refused' = 0

HeapNext ==
    \E o \in Owner :
        \/ Free(o)
        \/ \E n \in Requests : \/ Malloc(o, n)
                               \/ ReallocShrink(o, n)
                               \/ ReallocExtend(o, n)
                               \/ ReallocMove(o, n)

HeapSpec == HeapInit /\ [][HeapNext]_heapVars
---------------------------------------------------------------------------
FreeBlocks(h) == {a \in DOMAIN h.blk : h.blk[a].free}
Busy(h) == {a \in DOMAIN h.blk : ~h.blk[a].free}
End(h, a) == a + Header + h.blk[a].size

(* The blocks tile the arena, and the links of neighbours agree.           *)
Tiles(h) ==
    /\ 0 \in DOMAIN h.blk /\ h.blk[0].prev = NULL
    /\ \A a, b \in DOMAIN h.blk : a < b => End(h, a) <= b
    /\ \A a \in DOMAIN h.blk :
        /\ h.blk[a].size > 0
        /\ IF End(h, a) = Arena THEN h.blk[a].next = NULL
           ELSE h.blk[a].next = End(h, a) /\ End(h, a) \in DOMAIN h.blk
    /\ \A a \in DOMAIN h.blk \ {0} :
        h.blk[a].prev \in DOMAIN h.blk /\ End(h, h.blk[a].prev) = a

(* A free block is in the list of its class, once, and a block in use is   *)
(* in none: a stale link would hand out memory that is in use.             *)
ListsExact(h) ==
    \A i \in Classes :
        LET l == ListFrom(h, i)
        IN  /\ \A j, k \in Places(h) : l[j] # NULL /\ l[j] = l[k] => j = k
            /\ {l[k] : k \in Places(h)} \ {NULL} =
                 {a \in FreeBlocks(h) : Class(h.blk[a].size) = i}

(* What a caller holds is a block of its own, in use and large enough.     *)
OwnersApart(h) ==
    /\ {owned[o].ptr : o \in DOMAIN owned} = Busy(h)
    /\ \A o \in DOMAIN owned : owned[o].size <= h.blk[owned[o].ptr].size
    /\ \A o, q \in DOMAIN owned : owned[o].ptr = owned[q].ptr => o = q

(* The memory in use, headers included, summed up along the arena.         *)
InUse(h) ==
    LET upto[k \in 0 .. Arena] ==
            IF k = 0 THEN 0
            ELSE upto[k - 1] + IF k - 1 \in Busy(h) THEN Header + h.blk[k - 1].size ELSE 0
    IN  upto[Arena]

(* The allocator (mm.c): no two callers share memory, the free lists hold  *)
(* what is free, mm_get_allocated is the memory in use, and a request is   *)
(* refused only when no free block can hold it.                            *)
HeapSound ==
    /\ Tiles(heap) /\ OwnersApart(heap) /\ ListsExact(heap)
    /\ heap.allocated = InUse(heap)
    /\ refused # 0 => \A a \in FreeBlocks(heap) : heap.blk[a].size < refused
=============================================================================
