------------------------------ MODULE KeyValue ------------------------------
(***************************************************************************)
(* What the passes expect of map_t (include/std/map.h) and of set_t, a map *)
(* from each member to itself: a partial function from keys to values, a   *)
(* copy to compare it with, and the last call and its answer.              *)
(***************************************************************************)
EXTENDS Integers

CONSTANTS Key, Value

VARIABLES
    store,  \* the contents
    saved,  \* the contents of the copy
    fixed,  \* the map takes no new key (the compressed form)
    reply   \* the last call and its answer

Absent == -1    \* the values are natural numbers

Init ==
    /\ store = [k \in Key |-> Absent]
    /\ saved = store
    /\ fixed = FALSE
    /\ reply = <<"init">>

Put(k, v) ==
    /\ reply' = <<"put", TRUE>>
    /\ store' = [store EXCEPT ![k] = v]
    /\ UNCHANGED <<saved, fixed>>

Get(k) ==
    /\ reply' = IF store[k] = Absent THEN <<"get", k, FALSE>>
                ELSE <<"get", k, TRUE, store[k]>>
    /\ UNCHANGED <<store, saved, fixed>>

Remove(k) ==
    /\ reply' = <<"remove", k, store[k] # Absent>>
    /\ store' = [store EXCEPT ![k] = Absent]
    /\ UNCHANGED <<saved, fixed>>

Copy ==
    /\ reply' = <<"copy", TRUE>>
    /\ saved' = store
    /\ UNCHANGED <<store, fixed>>

Equal ==
    /\ reply' = <<"equals", store = saved>>
    /\ UNCHANGED <<store, saved, fixed>>

(* Only a fixed map refuses a key, and only one it does not hold.          *)
Refuse(k) ==
    /\ reply' = <<"put", FALSE>>
    /\ fixed /\ store[k] = Absent
    /\ UNCHANGED <<store, saved, fixed>>

Fix ==
    /\ reply' = <<"compress", TRUE>>
    /\ fixed' = TRUE
    /\ UNCHANGED <<store, saved>>

Next ==
    \/ \E k \in Key, v \in Value : Put(k, v)
    \/ \E k \in Key : Get(k) \/ Remove(k) \/ Refuse(k)
    \/ Copy
    \/ Equal
    \/ Fix

Spec == Init /\ [][Next]_<<store, saved, fixed, reply>>
=============================================================================
