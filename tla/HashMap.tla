------------------------------- MODULE HashMap -------------------------------
(***************************************************************************)
(* map_t of std/map.c: open addressing with linear probing, a table that   *)
(* doubles above half full, removal that puts the rest of the cluster back *)
(* in, a running checksum for map_equals, and the compressed form in which *)
(* an entry stands at the index of its own key.  set_t (std/set.c) is this *)
(* map with each member as its own key and value.                          *)
(*                                                                         *)
(* A table is a value, so that a call is a composition of operators on     *)
(* tables; one action is one call on the map m.  `other` is a copy made by *)
(* map_copy.  A call whose probe would not end is not enabled.             *)
(***************************************************************************)
EXTENDS Integers, Sequences, FiniteSets

CONSTANTS
    Key,                \* the keys used, indices in 0..n
    Value,              \* the values stored
    InitialCapacity,    \* MAP_INITIAL_CAPACITY
    HashFunctions,      \* the functions __hash may be, Key to Nat
    MayCopy             \* whether map_copy is called

(* Asked of the constants: with one or two slots the load test lets the    *)
(* table fill up.                                                          *)
ConstantsOK ==
    /\ Key \subseteq Nat /\ Value \subseteq Nat
    /\ InitialCapacity \in Nat /\ InitialCapacity > 2
    /\ HashFunctions \subseteq [Key -> Nat]

VARIABLES
    hash,       \* __hash
    m,          \* the map
    other,      \* the copy of it
    reply       \* the last call, what it returned and what it stored in *v

vars == <<hash, m, other, reply>>

Absent == -1
Unused == [key |-> -1, value |-> Absent]    \* a slot with used = 0

Slots(t) == 0 .. t.cap - 1
Used(t) == {i \in Slots(t) : t.slot[i] # Unused}
EmptySlots(n) == [i \in 0 .. n - 1 |-> Unused]

(* __map_update_hash: the xor of the hashes of every key and every value,  *)
(* as the set of the numbers that occur an odd number of times.            *)
Occurs(t, x) ==
    Cardinality({i \in Used(t) : t.slot[i].key = x})
    + Cardinality({i \in Used(t) : t.slot[i].value = x})
SumOf(t) == [odd |-> {x \in Key \union Value : Occurs(t, x) % 2 = 1},
             size |-> t.size]
Updated(t) == [t EXCEPT !.sum = SumOf(t)]

NewMap == [cap |-> InitialCapacity, size |-> 0, compr |-> FALSE,
           slot |-> EmptySlots(InitialCapacity),
           sum |-> [odd |-> {}, size |-> 0]]

---------------------------------------------------------------------------
(* The probe sequence of a key, and where it ends: at the key itself or at *)
(* the first unused slot.                                                  *)
At(t, k, d) == (hash[k] + d) % t.cap
Stops(t, k, d) == \/ t.slot[At(t, k, d)] = Unused
                  \/ t.slot[At(t, k, d)].key = k
ProbeEnds(t, k) == t.compr \/ \E d \in Slots(t) : Stops(t, k, d)
Probe(t, k) ==
    At(t, k, CHOOSE d \in Slots(t) :
                 Stops(t, k, d) /\ \A e \in 0 .. d - 1 : ~Stops(t, k, e))

(* The body of map_put after the load test, in both forms of the table.    *)
Place(t, k, v) ==
    LET i == IF t.compr THEN k ELSE Probe(t, k)
    IN  Updated([t EXCEPT !.slot[i] = [key |-> k, value |-> v],
                          !.size = IF t.slot[i] = Unused THEN @ + 1 ELSE @])

(* _map_resize: the entries of the old table, in its order, into an empty  *)
(* one of twice the size.                                                  *)
Bigger(t) == [t EXCEPT !.cap = 2 * @, !.size = 0, !.slot = EmptySlots(2 * t.cap)]
ResizedInPlace(t) == [t EXCEPT !.cap = 2 * @,
    !.slot = [i \in 0 .. 2 * t.cap - 1 |-> IF i < t.cap THEN t.slot[i] ELSE Unused]]
Resized(t) ==
    LET put[n \in 0 .. t.cap] ==
            IF n = 0 THEN Bigger(t)
            ELSE LET e == t.slot[n - 1]
                 IN  IF e = Unused THEN put[n - 1] ELSE Place(put[n - 1], e.key, e.value)
    IN  put[t.cap]

(* size / capacity > MAP_LOAD_FACTOR                                       *)
Loaded(t) == 2 * t.size > t.cap

Grown(t) == IF ~t.compr /\ Loaded(t) THEN Resized(t) ELSE t
HasRoom(t, k) == t.compr => k < t.cap
Inserted(t, k, v) == Place(Grown(t), k, v)

Found(t, k) == IF t.compr THEN k < t.cap /\ t.slot[k] # Unused
               ELSE t.slot[Probe(t, k)] # Unused
Position(t, k) == IF t.compr THEN k ELSE Probe(t, k)
Lookup(t, k) == IF Found(t, k) THEN t.slot[Position(t, k)].value ELSE Absent

(* map_remove: the entries that follow up to the first unused slot are put *)
(* in again one by one, because the probe for one may have passed here.    *)
Vacated(t, i) == [t EXCEPT !.slot[i] = Unused, !.size = @ - 1]
ClusterNone(t, i) == <<>>
Cluster(t, i) ==
    LET next(d) == (i + d) % t.cap
        n == CHOOSE d \in 1 .. t.cap :
                 /\ t.slot[next(d)] = Unused \/ d = t.cap
                 /\ \A e \in 1 .. d - 1 : t.slot[next(e)] # Unused
    IN  [d \in 1 .. n - 1 |-> next(d)]
PutBack(u, j) == Inserted(Vacated(u, j), u.slot[j].key, u.slot[j].value)
Emptied(t, k) ==
    LET i == Position(t, k)
        c == IF t.compr THEN <<>> ELSE Cluster(t, i)
        again[n \in 0 .. Len(c)] ==
            IF n = 0 THEN Vacated(t, i) ELSE PutBack(again[n - 1], c[n])
    IN  again[Len(c)]
WithoutStaleSum(t, k) == Emptied(t, k)
Without(t, k) == Updated(Emptied(t, k))

---------------------------------------------------------------------------
Init ==
    /\ hash \in HashFunctions
    /\ m = NewMap
    /\ other = NewMap
    /\ reply = <<"init">>

Put(k, v) ==
    /\ HasRoom(m, k) => ProbeEnds(Grown(m), k)
    /\ m' = IF HasRoom(m, k) THEN Inserted(m, k, v) ELSE m
    /\ reply' = <<"put", HasRoom(m, k)>>
    /\ UNCHANGED <<hash, other>>

Get(k) ==
    /\ ProbeEnds(m, k)
    /\ reply' = IF Found(m, k) THEN <<"get", k, TRUE, Lookup(m, k)>>
                ELSE <<"get", k, FALSE>>
    /\ UNCHANGED <<hash, m, other>>

Remove(k) ==
    /\ ProbeEnds(m, k)
    /\ m' = IF Found(m, k) THEN Without(m, k) ELSE m
    /\ reply' = <<"remove", k, Found(m, k)>>
    /\ UNCHANGED <<hash, other>>

Copy ==
    /\ MayCopy
    /\ other' = m
    /\ reply' = <<"copy", TRUE>>
    /\ UNCHANGED <<hash, m>>

(* map_equals: checksum and size first, then every entry of a in b.        *)
Equals(a, b) ==
    /\ a.sum = b.sum /\ a.size = b.size
    /\ \A i \in Used(a) : Lookup(b, a.slot[i].key) = a.slot[i].value

Compare ==
    /\ reply' = <<"equals", Equals(m, other)>>
    /\ UNCHANGED <<hash, m, other>>

(* map_compress: every entry to the index of its key, and no slot above    *)
(* the largest.  The exchange reads entries[key], so the keys must be      *)
(* inside the table.                                                       *)
Keys(t) == {t.slot[i].key : i \in Used(t)}
Compressed(t) ==
    LET top == CHOOSE k \in Keys(t) : \A j \in Keys(t) : j =< k
        slot == [k \in 0 .. top |->
                    IF k \in Keys(t)
                    THEN t.slot[CHOOSE i \in Used(t) : t.slot[i].key = k]
                    ELSE Unused]
    IN  IF Keys(t) = {} THEN [t EXCEPT !.compr = TRUE, !.size = 0]
        ELSE Updated([t EXCEPT !.cap = top + 1, !.compr = TRUE, !.slot = slot,
                               !.size = Cardinality(Used(t))])

Compress ==
    /\ \A k \in Keys(m) : k < m.cap
    /\ m' = IF m.compr THEN m ELSE Compressed(m)
    /\ reply' = <<"compress", TRUE>>
    /\ UNCHANGED <<hash, other>>

Next ==
    \/ \E k \in Key, v \in Value : Put(k, v)
    \/ \E k \in Key : Get(k) \/ Remove(k)
    \/ Copy
    \/ Compare
    \/ Compress

Spec == Init /\ [][Next]_vars
---------------------------------------------------------------------------
TableOK(t) ==
    /\ t.cap \in Nat \ {0}
    /\ DOMAIN t.slot = Slots(t)
    /\ \A i \in Used(t) : t.slot[i] \in [key : Key, value : Value]
    /\ t.compr \in BOOLEAN
    /\ t.size = Cardinality(Used(t))
TypeOK ==
    /\ TableOK(m) /\ TableOK(other)

(* Every entry can be found: no unused slot lies on the probe sequence of  *)
(* a key before the key, after any series of puts, removals and resizes;   *)
(* and the probe for a key that is not there ends, as no uncompressed      *)
(* table is full.                                                          *)
EntriesReachable ==
    ~m.compr =>
        /\ Used(m) # Slots(m)
        /\ \A i \in Used(m) :
            ProbeEnds(m, m.slot[i].key) /\ Probe(m, m.slot[i].key) = i

(* The map is a partial function: every answer is the one the abstract map *)
(* gives, whatever the hash function and the history of the table.         *)
Contents(t) ==
    [k \in Key |-> IF \E i \in Slots(t) : t.slot[i].key = k
                   THEN t.slot[CHOOSE i \in Slots(t) : t.slot[i].key = k].value
                   ELSE Absent]
Abstract == INSTANCE KeyValue
    WITH store <- Contents(m), saved <- Contents(other), fixed <- m.compr
MapIsKeyValue == Abstract!Spec
=============================================================================
