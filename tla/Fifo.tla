-------------------------------- MODULE Fifo --------------------------------
(***************************************************************************)
(* What the passes expect of queue_t: the items come out in the order they *)
(* went in, none is lost and none comes out twice.                         *)
(***************************************************************************)
EXTENDS Sequences

CONSTANT Item

VARIABLES
    queue,  \* the items, the oldest first
    reply   \* the last call and its answer

Init == queue = <<>> /\ reply = <<"init">>

Push(i) ==
    /\ queue' = Append(queue, i)
    /\ reply' = <<"push">>

Pop ==
    /\ queue # <<>>
    /\ queue' = Tail(queue)
    /\ reply' = <<"pop", Head(queue)>>

PopNothing ==
    /\ queue = <<>>
    /\ queue' = queue
    /\ reply' = <<"pop">>

(* Only the answer "not empty" can be relied on: a full ring looks empty.  *)
IsEmpty ==
    /\ \E answer \in BOOLEAN :
        /\ queue = <<>> => answer
        /\ reply' = <<"isempty", answer>>
    /\ queue' = queue

Next == (\E i \in Item : Push(i)) \/ Pop \/ PopNothing \/ IsEmpty

Spec == Init /\ [][Next]_<<queue, reply>>
=============================================================================
