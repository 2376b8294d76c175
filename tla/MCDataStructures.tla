--------------------------- MODULE MCDataStructures ---------------------------
(* TLC instances of what the passes keep their data in: the containers of  *)
(* std (RingQueue, HashMap, Heap) and the table of types with the data     *)
(* laid out by it (StaticData).  They share no state: an initial state     *)
(* chooses the one that is used, and the others stay as created.           *)
(*                                                                         *)
(* The map is called with many keys and one value, with fewer keys and two *)
(* values, and with a copy taken at any time.  The keys all start at the   *)
(* last slot, or at two slots that a resize moves apart: at 3 and 2 of     *)
(* four slots, 7 and 2 of eight.  The queue starts with two cells, wraps,  *)
(* and grows twice.  Three callers share an arena whose free blocks fall   *)
(* in four size classes.  The types are containers and unions with fields  *)
(* of every kind and variables of them; a hierarchy of three containers    *)
(* with methods; or an object with an initialiser, of containers with      *)
(* fields, or with a virtual table.                                        *)
EXTENDS RingQueue, HashMap, Heap, TLC

CONSTANTS
    Structures,                         \* the structures that are used
    Word, Looser                        \* the types'

VARIABLES
    used,                               \* the one that is used
    types, open, family, variables, object  \* the types

typeVars  == <<types, open, family, variables, object>>
allVars   == <<used, queueVars, vars, heapVars, typeVars>>
-----------------------------------------------------------------------------
ManyKeys == INSTANCE HashMap WITH Value <- {1}, MayCopy <- FALSE
TwoValues == INSTANCE HashMap WITH Key <- {0, 1, 2}, MayCopy <- FALSE
Copied == INSTANCE HashMap WITH Key <- {0, 1, 2}, Value <- {1}, MayCopy <- TRUE

SomeFunctions ==
    {[k \in Key |-> InitialCapacity - 1],
     [k \in Key |-> IF k % 2 = 0 THEN 2 * InitialCapacity - 1 ELSE 2]}

ASSUME MapAssumption == ConstantsOK
-----------------------------------------------------------------------------
I8 == [t |-> "prim", of |-> "i8", ptr |-> 0, n |-> 0]
I32 == [I8 EXCEPT !.of = "i32"]
I8Ptr == [I8 EXCEPT !.ptr = 1]
A == [t |-> "custom", of |-> "A", ptr |-> 0, n |-> 0]
B == [A EXCEPT !.of = "B"]
APtr == [A EXCEPT !.ptr = 1]
Of(n, d) == [d EXCEPT !.n = n]
Aligned(a) == [align |-> a, multiple |-> TRUE, vtable |-> FALSE, interface |-> FALSE]
Union(a) == [Aligned(a) EXCEPT !.multiple = FALSE]
LikeC == Aligned(-1)
WithTable(a) == [Aligned(a) EXCEPT !.vtable = TRUE]
Interface(a) == [Aligned(a) EXCEPT !.interface = TRUE]

Fields == INSTANCE StaticData WITH
    Containers <- <<"A", "B">>, Layouts <- {Aligned(8), Union(4), LikeC, [LikeC EXCEPT !.multiple = FALSE]},
    FieldTypes <- {I32, A, APtr, Of(3, I8)}, VariableTypes <- {Of(2, A), B}, ObjectTypes <- {},
    MethodNames <- {}, Annotations <- {}, MaxFields <- 2, MaxVariables <- 1
Methods == INSTANCE StaticData WITH
    Containers <- <<"A", "B", "C">>, Layouts <- {WithTable(8), Interface(8)}, FieldTypes <- {}, VariableTypes <- {A}, ObjectTypes <- {},
    MethodNames <- {"m", "n"}, Annotations <- {"override", "self"}, MaxFields <- 0, MaxVariables <- 1
Objects == INSTANCE StaticData WITH
    Containers <- <<"A", "B">>, Layouts <- {Aligned(8), LikeC},
    FieldTypes <- {I8Ptr, I32, A, Of(2, I8)}, VariableTypes <- {}, ObjectTypes <- {B, Of(2, A), Of(2, I8)},
    MethodNames <- {}, Annotations <- {}, MaxFields <- 2, MaxVariables <- 0
Tables == INSTANCE StaticData WITH
    Containers <- <<"A", "B">>, Layouts <- {Aligned(4), WithTable(4), Interface(4)},
    FieldTypes <- {I32, Of(2, I8)}, VariableTypes <- {}, ObjectTypes <- {A, B},
    MethodNames <- {"m"}, Annotations <- {"override", "self"}, MaxFields <- 1, MaxVariables <- 0

-----------------------------------------------------------------------------
AllInit ==
    /\ used \in Structures
    /\ QueueInit /\ Init /\ HeapInit /\ Fields!StaticInit
    /\ used \notin {"many keys", "two values"} => hash = [k \in Key |-> InitialCapacity - 1]

MapNext ==
    \/ used = "many keys"  /\ ManyKeys!Next
    \/ used = "two values" /\ TwoValues!Next
    \/ used = "copied"     /\ Copied!Next

TypesNext ==
    \/ used = "fields"  /\ Fields!StaticNext
    \/ used = "methods" /\ Methods!StaticNext
    \/ used = "objects" /\ Objects!StaticNext
    \/ used = "tables"  /\ Tables!StaticNext

AllNext ==
    \/ used = "queue" /\ QueueNext   /\ UNCHANGED <<used, vars, heapVars, typeVars>>
    \/ MapNext                       /\ UNCHANGED <<used, queueVars, heapVars, typeVars>>
    \/ used = "heap" /\ HeapNext    /\ UNCHANGED <<used, queueVars, vars, typeVars>>
    \/ TypesNext                     /\ UNCHANGED <<used, queueVars, vars, heapVars>>

AllSpec == AllInit /\ [][AllNext]_allVars
-----------------------------------------------------------------------------
(* Of the queue RefinesFifo of RingQueue is checked, of the map            *)
(* EntriesReachable and MapIsKeyValue of HashMap, of the allocator         *)
(* HeapSound of Heap.                                                      *)

(* A variable's memory holds its fields apart (typetb.c), and an           *)
(* initialiser's values lie where the fields are read (asmgen.c, mem.c).   *)
FieldsWhereRead ==
    /\ used = "fields" => Fields!ObjectsHoldTheirFields
    /\ used \in {"objects", "tables"} => Objects!ValuesWhereFieldsAreRead

(* A virtual call runs the object's own method (typetb.c).                 *)
VirtualCallsReachTheOverride == used \in {"methods", "tables"} => Methods!VirtualCallsReachTheOverride
=============================================================================
