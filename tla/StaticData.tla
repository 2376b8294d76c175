------------------------------ MODULE StaticData ------------------------------
(* The values of an initialiser on their way to memory.  A global object   *)
(* is written out slot by slot (src/asm/<target>/asmgen.c), a local one is *)
(* stored value by value into its frame slot (src/lir/selector/<target>/   *)
(* mem.c); the values come from the declaration, in its order              *)
(* (src/hir/hirgen/decl/decl_hirgen.c).                                    *)
(*                                                                         *)
(* Value k of a declaration is the number k, and the characters of a       *)
(* string given as value k are 10 * k + 1, 10 * k + 2 and so on.           *)
EXTENDS TypeTable

CONSTANT ObjectTypes    \* the types of the variables that have an initialiser
VARIABLE object     \* what the last initialised variable holds, and what it was given
Nothing == [type |-> 0, image |-> {}, size |-> 0, values |-> <<>>, units |-> <<>>]

Num(v) == [t |-> "num", v |-> v, s |-> <<>>]
Str(s) == [t |-> "string", v |-> -1, s |-> s]   \* v: the address of the string
Table == [t |-> "vtable", v |-> -2, s |-> <<>>]
NoElem == [t |-> "none", v |-> 0, s |-> <<>>]

IsChar(tt, t) == t # 0 /\ tt[t].kind = "prim" /\ tt[t].name = "i8" /\ tt[t].ptr = 0
At(off, size, value) == [off |-> off, size |-> size, value |-> value]

(* What was emitted so far: the next item goes to out.at.                  *)
Emit(out, size, value) ==
    [out EXCEPT !.at = @ + size, !.image = @ \union {At(out.at, size, value)}]
ZeroesNone(out, count) == out     \* wrong: leaves the gaps between the fields out
Zeroes(out, count) == IF count <= 0 THEN out ELSE [out EXCEPT !.at = @ + count]
NoOutput == [at |-> 0, image |-> {}]

(* _generate_typed_initializer: a value for each slot; a string goes on    *)
(* through the characters of the array it started in.                      *)
Taken(tt, s, slot) ==
    IF s.left = <<>> \/ (s.elem.t = "string" /\ IsChar(tt, slot.type) /\ s.owner = slot.owner) THEN s
    ELSE [s EXCEPT !.elem = Head(s.left), !.left = Tail(s.left), !.pos = 0, !.owner = 0]
Written(u, slot, char) ==
    LET text == u.elem.t = "string"
        placed == text /\ char /\ u.owner \in {0, slot.owner}
        value == CASE placed -> IF u.pos < Len(u.elem.s) THEN u.elem.s[u.pos + 1] ELSE 0
                   [] text /\ char /\ ~placed -> 0
                   [] OTHER -> u.elem.v
    IN  [u EXCEPT !.out = Emit(Zeroes(@, slot.off - u.end), IF text /\ ~char THEN Word ELSE slot.size, value),
                  !.end = slot.off + slot.size,
                  !.pos = IF placed THEN @ + 1 ELSE @,
                  !.owner = IF placed THEN slot.owner ELSE @,
                  !.elem = IF char THEN @ ELSE NoElem]
Slot(tt, s, slot) == Written(Taken(tt, s, slot), slot, IsChar(tt, slot.type))
WrittenTo(tt, slots, values) ==
    LET start == [elem |-> NoElem, left |-> values, pos |-> 0, owner |-> 0, out |-> NoOutput, end |-> 0]
        upTo[k \in 0 .. Len(slots)] == IF k = 0 THEN start ELSE Slot(tt, upTo[k - 1], slots[k])
    IN  upTo[Len(slots)]
Reserved(s, size) == Zeroes(s.out, size - s.end)
TypedInitializer(tt, t, values) == Reserved(WrittenTo(tt, InitSlots(tt, t, 0), values), MemorySize(tt, t))

(* _generate_variable: an array of numbers is filled with its last value.  *)
FlatInitializer(tt, t, values) ==
    LET es == MemorySize(tt, tt[t].elem)
        rest == [k \in 1 .. tt[t].size \div es - Len(values) |-> Last(values)]
    IN  FoldLeft(LAMBDA out, v : Emit(out, es, v.v), NoOutput, values \o rest)
IsTyped(tt, t) == tt[t].kind = "custom" \/ (tt[t].kind = "array" /\ tt[tt[t].elem].kind = "custom")
Global(tt, t, values) ==
    IF IsTyped(tt, t) THEN TypedInitializer(tt, t, values) ELSE FlatInitializer(tt, t, values)

(* LIR_ARRDECL: a store for each value there is a slot for.                *)
Stored(slots, values) ==
    {At(slots[k].off, slots[k].size, values[k].v) : k \in DOMAIN values \intersect DOMAIN slots}
StoredValues(tt, t, values) == [at |-> MemorySize(tt, t), image |-> Stored(InitSlots(tt, t, 0), values)]
(* LIR_STRDECL: the string in blocks of half a word and less, and a zero.  *)
StoredString(tt, t, s) ==
    LET Block(u, size) ==
            LET n == (Len(s) - u.pos) \div size
                chars == {At(u.at + k, 1, s[u.pos + k + 1]) : k \in 0 .. n * size - 1}
            IN  [at |-> u.at + n * size, pos |-> u.pos + n * size, image |-> u.image \union chars]
        blocks == <<Word \div 2, Word \div 4, 1>>
        done == FoldLeft(Block, [at |-> 0, pos |-> 0, image |-> {}], blocks)
    IN  [at |-> tt[t].size, image |-> done.image \union {At(done.at, 1, 0)}]
Local(tt, t, values) ==
    IF values[1].t = "string" THEN StoredString(tt, t, values[1].s) ELSE StoredValues(tt, t, values)

-----------------------------------------------------------------------------
(* The units of an object that take one value each, as the fields are      *)
(* read: a scalar, or, where strings are written, an array of characters.  *)
RECURSIVE Units(_, _, _, _)
UnitsOfArray(tt, elem, n, es, base, strings) ==
    FlattenSeq([k \in 1 .. n |-> Units(tt, elem, base + (k - 1) * es, strings)])
UnitsOfContainer(tt, r, data, base, strings) ==
    FlattenSeq([k \in DOMAIN data |-> Units(tt, data[k].child, base + FieldOffset(tt, r, data[k].name), strings)])
UnitsOf(tt, t, r, base, strings) ==
    CASE tt[t].ptr = 0 /\ tt[r].kind = "array" ->
            LET es == MemorySize(tt, tt[r].elem)
            IN  IF strings /\ IsChar(tt, tt[r].elem)
                THEN <<[takes |-> "characters", owner |-> r, cells |-> Cells(tt, t, base)]>>
                ELSE UnitsOfArray(tt, tt[r].elem, tt[r].size \div es, es, base, strings)
      [] tt[t].ptr = 0 /\ tt[r].kind = "custom" -> UnitsOfContainer(tt, r, DataMembers(tt, r), base, strings)
      [] OTHER -> <<[takes |-> IF strings /\ tt[t].ptr = 1 /\ tt[t].name = "i8" THEN "address" ELSE "number",
                     owner |-> 0, cells |-> <<[off |-> base, size |-> MemorySize(tt, t)]>>]>>
Units(tt, t, base, strings) == UnitsOf(tt, t, Root(tt, t), base, strings)

(* What a unit that takes value k is to hold: the number, the address of a *)
(* string, or the characters of one that leaves room for a zero.           *)
Given(unit, k) ==
    IF unit.takes = "number" THEN Num(k) ELSE Str([j \in 1 .. Larger(Len(unit.cells), 2) - 1 |-> 10 * k + j])
Held(unit, k) ==
    CASE unit.takes = "number" -> <<k>>
      [] unit.takes = "address" -> <<-1>>
      [] OTHER -> [j \in DOMAIN unit.cells |-> IF j < Len(unit.cells) THEN 10 * k + j ELSE 0]

(* A container with a table inside another object is not given its table,  *)
(* and a string ends where an array of the same type goes on: the objects  *)
(* here have neither, unless the program may be looser.                    *)
RECURSIVE TablesInside(_, _)
TablesIn(tt, r) ==
    IF tt[r].kind = "array" THEN TablesInside(tt, tt[r].elem)
    ELSE \E k \in DOMAIN tt[r].children : tt[tt[r].children[k]].kind # "method" /\ TablesInside(tt, tt[r].children[k])
HasTable(tt, t) == tt[t].ptr = 0 /\ SlotCount(tt, Root(tt, t)) > 0
TablesInside(tt, t) == tt[t].ptr = 0 /\ (HasTable(tt, t) \/ TablesIn(tt, Root(tt, t)))
StringsApart(tt, t, units) ==
    \/ "strings" \in Looser
    \/ /\ \A j, k \in DOMAIN units : j # k /\ units[j].owner # 0 => units[j].owner # units[k].owner
       /\ ~IsTyped(tt, t) \/ tt[t].kind # "array" \/ \A k \in DOMAIN units : units[k].owner = 0

(* A variable with an initialiser, when every container is declared; an    *)
(* array of numbers is given all its values or half of them.               *)
Initialisable(tt, t, units, glob, strings) ==
    /\ units # <<>> /\ ~HasUnion(tt, t) /\ ~TablesIn(tt, Root(tt, t)) /\ StringsApart(tt, t, units)
    /\ strings => (glob \/ ~IsTyped(tt, t)) /\ \E k \in DOMAIN units : units[k].takes # "number"
(* _cnt_declaration, _arr_declaration, _str_declaration                    *)
Characters(s) == [k \in DOMAIN s |-> Num(s[k])] \o <<Num(0)>>
Elements(tt, t, values) == IF tt[t].kind = "custom" /\ HasTable(tt, t) THEN <<Table>> \o values ELSE values
Made(tt, t, glob, values) ==
    CASE glob /\ ~IsTyped(tt, t) /\ values[1].t = "string" -> FlatInitializer(tt, t, Characters(values[1].s))
      [] glob /\ (IsTyped(tt, t) \/ values[1].t # "string") -> Global(tt, t, Elements(tt, t, values))
      [] OTHER -> Local(tt, t, Elements(tt, t, values))
Object(made, t, values, units) ==
    [type |-> t, image |-> made.image, size |-> made.at, values |-> values, units |-> units]
ObjectOf(tt, t, glob, values, units) == Object(Made(tt, t, glob, values), t, values, units)
Initialised(d, glob, strings) ==
    /\ open = 0 /\ Len(family) = Len(Containers) /\ object = Nothing /\ Declarable(d)
    /\ \E new \in Declarations(types, d) : \E units \in {Units(new.table, new.type, 0, strings)} :
         /\ Initialisable(new.table, new.type, units, glob, strings)
         /\ types' = new.table /\ variables' = Append(variables, new.type)
         /\ \E n \in {Len(units)} \union (IF IsTyped(new.table, new.type) THEN {} ELSE {(Len(units) + 1) \div 2}) :
              object' = ObjectOf(new.table, new.type, glob, [k \in 1 .. n |-> Given(units[k], k)], units)
    /\ UNCHANGED <<open, family>>

StaticInit == Init /\ object = Nothing
StaticNext == \/ object = Nothing /\ Next /\ UNCHANGED object
              \/ \E d \in ObjectTypes, glob, strings \in BOOLEAN : Initialised(d, glob, strings)
StaticSpec == StaticInit /\ [][StaticNext]_<<vars, object>>
-----------------------------------------------------------------------------
(* Every value given in an initialiser, number, string or virtual table,   *)
(* lies where the program reads the field it was given for, nothing else   *)
(* was written over it, and the object takes up at least its size          *)
(* (containers.md: 'The initializer stores a static string reference for   *)
(* ptr i8 fields and expands the bytes for inline arr [N, i8] fields').    *)
Touches(cell, item) == item.off < cell.off + cell.size /\ cell.off < item.off + item.size
Holding(cell, value) == {item \in object.image : Touches(cell, item)} = {At(cell.off, cell.size, value)}
ValuesWhereFieldsAreRead ==
    /\ \A k \in DOMAIN object.values : \A j \in DOMAIN object.units[k].cells :
            Holding(object.units[k].cells[j], Held(object.units[k], k)[j])
    /\ object.type # 0 => object.size >= MemorySize(types, object.type)
    /\ object.type # 0 /\ types[object.type].kind = "custom" /\ SlotCount(types, Root(types, object.type)) > 0 =>
            Holding([off |-> 0, size |-> Word], Table.v)
=============================================================================
