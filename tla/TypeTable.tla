------------------------------ MODULE TypeTable ------------------------------
(* The type table: the layout of containers, unions and arrays, the copies *)
(* a pointer or a variable takes of a type, and the slots of the virtual   *)
(* tables (src/symtab/typetb.c), as the parsers of the declarations fill   *)
(* it (src/ast/astgen/container, decl, func).                              *)
(*                                                                         *)
(* A type is named by its place in the table, the order in which it was    *)
(* added; 0 is no type.  A field, an array's element and a variable hold   *)
(* the name of a copy, and TPTB_resolve_parent leads back to the container *)
(* that was declared.                                                      *)
(***************************************************************************)
EXTENDS Integers, Sequences, SequencesExt, Functions, Bitwise, TLC

CONSTANT Word       \* CONF_get_full_bytness, the bytes of a pointer
NoIndex == -1       \* SMT_NULL
LikeC == -1         \* the alignment of a container that is like_c
Bytes == [i8 |-> 1, i16 |-> 2, i32 |-> 4, i64 |-> 8]
Larger(x, y) == IF x >= y THEN x ELSE y

(* ALIGN: (x + b - 1) & ~(b - 1), whatever b is.                           *)
Align(x, b) == CASE b = LikeC -> x % 2
                 [] b = 0 -> 0
                 [] OTHER -> x + b - 1 - ((x + b - 1) & (b - 1))

Blank == [kind |-> "prim", name |-> "", ptr |-> 0, p |-> 0, size |-> NoIndex, align |-> Word,
          multiple |-> TRUE, vtable |-> FALSE, interface |-> FALSE, children |-> <<>>, members |-> <<>>,
          elem |-> 0, f |-> 0, abstract |-> FALSE, virtual |-> FALSE, index |-> NoIndex]
Root(tt, t) ==
    LET up[c \in DOMAIN tt] == IF tt[c].p = 0 THEN c ELSE up[tt[c].p] IN up[t]
MemorySize(tt, t) ==
    IF tt[t].ptr > 0 THEN Word
    ELSE IF tt[t].kind \in {"prim", "custom", "array"} THEN tt[t].size ELSE NoIndex

(* The virtual methods among the children, and the slot of each.           *)
Virtuals(tt, t) == SelectSeq(tt[t].children, LAMBDA c : tt[c].kind = "method" /\ tt[c].virtual)
SlotCount(tt, t) ==
    IF tt[t].kind # "custom" \/ ~tt[t].vtable THEN 0
    ELSE FoldLeft(LAMBDA n, c : Larger(n, tt[c].index + 1), 0, Virtuals(tt, t))
NextIndex(tt, t) == FoldLeft(LAMBDA n, c : Larger(n, tt[c].index + 1), 0, Virtuals(tt, t))
Prefix(tt, t) == IF SlotCount(tt, t) > 0 THEN Word ELSE 0

(* _recalculate_custom_layout                                              *)
RecalculatedPacked(tt, t) ==    \* wrong: not the padding of the alignment
    LET sizes == SelectSeq([k \in DOMAIN tt[t].children |-> MemorySize(tt, tt[t].children[k])], LAMBDA s : s > 0)
        Grown(n, s) == IF tt[t].multiple THEN n + s ELSE Larger(n, s)
    IN  [tt EXCEPT ![t].size = FoldLeft(Grown, 0, sizes) + Prefix(tt, t)]
Recalculated(tt, t) ==
    LET ty == tt[t]
        sizes == SelectSeq([k \in DOMAIN ty.children |-> MemorySize(tt, ty.children[k])], LAMBDA s : s > 0)
        By(s) == Align(s, IF ty.align = LikeC /\ ty.multiple THEN s ELSE ty.align)
        Grown(n, by) == IF ty.multiple THEN n + by ELSE Larger(n, by)
    IN  [tt EXCEPT ![t].size = FoldLeft(LAMBDA n, s : Grown(n, By(s)), 0, sizes) + Prefix(tt, t)]

(* TPTB_add_copy: the copy of this type and pointer depth there is, or a   *)
(* new one, of the type as it is now.                                      *)
Copies(tt, t, ptr) == {c \in DOMAIN tt : tt[c].ptr = ptr /\ Root(tt, c) = Root(tt, t) /\ tt[c].p # 0}
Copied(tt, t, ptr) ==
    IF Copies(tt, t, ptr) # {} THEN tt
    ELSE Append(tt, [tt[t] EXCEPT !.p = t, !.ptr = ptr, !.vtable = FALSE, !.interface = FALSE, !.children = <<>>, !.members = <<>>])
FirstOf(copies, new) == IF copies = {} THEN new ELSE CHOOSE c \in copies : TRUE
CopyOf(tt, t, ptr) == FirstOf(Copies(tt, t, ptr), Len(tt) + 1)

(* TPTB_get_info: by its name, whichever entry of the hash map comes       *)
(* first; type_lookup copies a type to reach its pointer.                  *)
Named(tt, name, ptr) == {t \in DOMAIN tt : tt[t].name = name /\ tt[t].ptr = ptr /\ tt[t].kind # "method"}
WithPointer(tt, name, ptr) ==
    IF Named(tt, name, ptr) # {} \/ ptr = 0 \/ Named(tt, name, 0) = {} THEN tt
    ELSE Copied(tt, CHOOSE t \in Named(tt, name, 0) : TRUE, ptr)

(* TPTB_resolve_child, TPTB_get_member_info: the first member of the name. *)
ChildNamed(members, name) ==
    IF \E k \in DOMAIN members : members[k].name = name
    THEN members[CHOOSE k \in DOMAIN members : members[k].name = name].child ELSE 0
Member(tt, p, name) == ChildNamed(tt[Root(tt, p)].members, name)

(* TPTB_set_as_vtable_method, with the flags a method takes from the one   *)
(* it stands in for; TPTB_enable_vtable; TPTB_add_as_child                 *)
IndexOf(tt, p, inherited) ==
    IF inherited = 0 \/ ~tt[inherited].virtual THEN NextIndex(tt, p) ELSE tt[inherited].index
MadeVirtualFor(tt, p, c, old, override) ==
    [tt EXCEPT ![c].virtual = TRUE, ![c].index = IndexOf(tt, p, old),
               ![c].abstract = IF old = 0 THEN @ ELSE ~override /\ tt[old].abstract]
MadeVirtual(tt, p, c, name, override) == MadeVirtualFor(tt, p, c, Member(tt, p, name), override)
Enabled(tt, p) == Recalculated([tt EXCEPT ![p].vtable = TRUE], p)
WithChildForMember(tt, p, old, c, name) ==      \* wrong: the overridden method stays among the children
    IF old = 0 THEN Recalculated([tt EXCEPT ![p].children = Append(@, c),
                                            ![p].members = Append(@, [name |-> name, child |-> c])], p)
    ELSE [tt EXCEPT ![c].index = tt[old].index,
                    ![p].members = [k \in DOMAIN @ |-> [@[k] EXCEPT !.child = IF @ = old THEN c ELSE @]]]
WithChildFor(tt, p, old, c, name) ==
    LET Instead(x) == IF x = old THEN c ELSE x
    IN  CASE old = 0 -> Recalculated([tt EXCEPT ![p].children = Append(@, c),
                                                ![p].members = Append(@, [name |-> name, child |-> c])], p)
          [] old # 0 /\ tt[old].virtual /\ tt[c].virtual ->
                Recalculated([tt EXCEPT ![c].index = tt[old].index,
                                        ![p].children = [k \in DOMAIN @ |-> Instead(@[k])],
                                        ![p].members = [k \in DOMAIN @ |-> [@[k] EXCEPT !.child = Instead(@)]]], p)
          [] OTHER -> tt
WithChild(tt, p, c, name) == WithChildFor(tt, p, Member(tt, p, name), c, name)

-----------------------------------------------------------------------------
(* Where a member lies: TPTB_get_child_offset_name over the members, by    *)
(* which a field is read and written; and the slots of an initialiser in   *)
(* their order, TPTB_find_type_init_slot.                                  *)
Fitted(tt, r, at, size) == IF tt[r].align = LikeC THEN Align(at, size) ELSE at
Past(tt, r, at, size) == at + (IF tt[r].align = LikeC THEN size ELSE Align(size, tt[r].align))
OffsetIn(tt, r, name) ==
    LET Scan(s, m, c, size) ==
            CASE s.found -> s
              [] c.kind = "method" ->
                    IF c.virtual /\ m.name = name THEN [at |-> c.index * Word, found |-> TRUE] ELSE s
              [] m.name = name -> [at |-> Fitted(tt, r, s.at, size), found |-> TRUE]
              [] OTHER -> [s EXCEPT !.at = Past(tt, r, Fitted(tt, r, @, size), size)]
        Next(s, m) == Scan(s, m, tt[m.child], MemorySize(tt, m.child))
    IN  FoldLeft(Next, [at |-> Prefix(tt, r), found |-> FALSE], tt[r].members).at
FieldOffset(tt, r, name) == IF tt[r].multiple THEN OffsetIn(tt, r, name) ELSE Prefix(tt, r)

RECURSIVE InitSlots(_, _, _)
SlotsOfArray(tt, r, n, es, base) ==
    LET Owned(s) == [k \in DOMAIN s |-> [s[k] EXCEPT !.owner = r]]
    IN  FlattenSeq([k \in 1 .. n |-> Owned(InitSlots(tt, tt[r].elem, base + (k - 1) * es))])
SlotsOfContainer(tt, r, base, prefix) ==
    LET table == IF prefix = 0 THEN <<>> ELSE <<[off |-> base, size |-> Word, type |-> 0, owner |-> r]>>
        Place(s, c, at, size) ==
            [at |-> Past(tt, r, at, size), slots |-> s.slots \o InitSlots(tt, c, base + at)]
        Next(s, c, size) == IF tt[c].kind = "method" \/ size <= 0 THEN s ELSE Place(s, c, Fitted(tt, r, s.at, size), size)
    IN  FoldLeft(LAMBDA s, c : Next(s, c, MemorySize(tt, c)), [at |-> prefix, slots |-> table], tt[r].children).slots
SlotsOf(tt, t, r, base) ==
    CASE tt[t].ptr > 0 \/ tt[t].kind = "prim" ->
            <<[off |-> base, size |-> MemorySize(tt, t), type |-> t, owner |-> t]>>
      [] tt[t].ptr = 0 /\ tt[r].kind = "array" ->
            LET es == MemorySize(tt, tt[r].elem)
            IN  IF es <= 0 THEN <<>> ELSE SlotsOfArray(tt, r, MemorySize(tt, t) \div es, es, base)
      [] tt[t].ptr = 0 /\ tt[r].kind = "custom" -> SlotsOfContainer(tt, r, base, Prefix(tt, r))
      [] OTHER -> <<>>
InitSlots(tt, t, base) == SlotsOf(tt, t, Root(tt, t), base)

(* _intern_vtable: the method of each slot, none (0) for an abstract one.  *)
VirtualTable(tt, t) ==
    LET At(cs) == IF cs = <<>> \/ tt[cs[1]].abstract THEN 0 ELSE tt[cs[1]].f
    IN  [slot \in 1 .. SlotCount(tt, t) |-> At(SelectSeq(Virtuals(tt, t), LAMBDA c : tt[c].index = slot - 1))]
-----------------------------------------------------------------------------
(* The declarations in the order the parser meets them.  A declared type   *)
(* is a primitive, a container or an array of n of these, or a pointer.    *)
CONSTANTS Containers,       \* the names of the containers, in the order they are declared
          Layouts,          \* [align, multiple, vtable, interface] of a declaration
          FieldTypes, VariableTypes, MethodNames, Annotations,
          MaxFields, MaxVariables,
          Looser            \* what a program may do besides: "index", "derive", "bases",
                            \* "like c", "like c union"

VARIABLES types,            \* the table
          open,             \* the container whose body is parsed, or 0
          family,           \* the containers: [type, bases, own]; own: the methods it declares
          variables         \* the types of the variables declared so far
vars == <<types, open, family, variables>>

Closed(name) == \E k \in DOMAIN family : types[family[k].type].name = name /\ family[k].type # open
IsOpen(name) == open # 0 /\ types[open].name = name
Declarable(d) == CASE d.t = "prim" -> TRUE
                   [] d.ptr > 0 -> Closed(d.of) \/ IsOpen(d.of)
                   [] OTHER -> Closed(d.of)

(* type_lookup, or TPTB_add_info_from_token for a primitive not seen yet:  *)
(* the table with the type in it, and the types it may give.               *)
WithType(tt, d) ==
    IF d.t = "prim" /\ Named(tt, d.of, d.ptr) \union Named(tt, d.of, 0) = {}
    THEN Append(tt, [Blank EXCEPT !.name = d.of, !.ptr = d.ptr, !.size = Bytes[d.of]])
    ELSE WithPointer(tt, d.of, d.ptr)
(* A variable or a field takes a copy; an array is a type of its own.      *)
Declared(tt, d, t) ==
    IF d.n = 0 THEN [table |-> Copied(tt, t, d.ptr), type |-> CopyOf(tt, t, d.ptr)]
    ELSE [table |-> Append(tt, [Blank EXCEPT !.kind = "array", !.name = "arr", !.elem = t, !.size = d.n * MemorySize(tt, t)]),
          type |-> Len(tt) + 1]
DeclaredIn(tt, d) == {Declared(tt, d, t) : t \in Named(tt, d.of, d.ptr)}
Declarations(tt, d) == DeclaredIn(WithType(tt, d), d)

Init == types = <<>> /\ open = 0 /\ family = <<>> /\ variables = <<>>

(* cpl_parse_contdef: the virtual methods of the bases become children, of *)
(* one base after the other.  Each keeps its slot, so that the methods of  *)
(* two bases meet in one: here one base at most has any, unless the        *)
(* program may be looser.  Nor is a union like_c, whose size is 0 or 1.    *)
Inherited(tt, p, base) ==
    LET Take(s, m) ==
            IF tt[m.child].kind = "method" /\ tt[m.child].virtual
            THEN WithChild(Copied(s, m.child, 0), p, CopyOf(s, m.child, 0), m.name) ELSE s
    IN  FoldLeft(Take, IF tt[base].vtable THEN Enabled(tt, p) ELSE tt, tt[base].members)
TypesOf(k) == Named(types, types[family[k].type].name, 0)
MayDerive(bs) ==
    /\ "derive" \in Looser \/ \A k \in DOMAIN bs : Copies(types, bs[k], 0) = {}
    /\ "bases" \in Looser \/ Len(SelectSeq(bs, LAMBDA b : SlotCount(types, b) > 0)) =< 1
Open(layout) ==
    /\ open = 0 /\ Len(family) < Len(Containers)
    /\ "like c union" \in Looser \/ layout.align # LikeC \/ layout.multiple
    /\ LET p == Len(types) + 1
           named == [Blank EXCEPT !.kind = "custom", !.name = Containers[Len(family) + 1], !.size = 0]
           new == Append(types, layout @@ named)
       IN  /\ open' = p
           /\ \E ks \in SetToAllKPermutations(DOMAIN family) : \E bs \in [DOMAIN ks -> DOMAIN types] :
                 /\ (\A k \in DOMAIN ks : bs[k] \in TypesOf(ks[k])) /\ MayDerive(bs)
                 /\ types' = FoldLeft(LAMBDA tt, b : Inherited(tt, p, b), new, bs)
                 /\ family' = Append(family, [type |-> p, bases |-> ks, own |-> <<>>])
    /\ UNCHANGED variables
Close == open # 0 /\ types[open].children # <<>> /\ open' = 0 /\ UNCHANGED <<types, family, variables>>

(* cpl_parse_vardecl, cpl_parse_array_declaration in the body of a         *)
(* container: the members are numbered, so that their names differ.  The   *)
(* size of a container that is like_c has no room for what is left out to  *)
(* align its fields: here each starts where the one before it ended.       *)
FieldName(k) == <<"x", "y", "z">>[k]
Fields(p) == SelectSeq(types[p].members, LAMBDA m : types[m.child].kind # "method")
NextName == FieldName(Len(Fields(open)) + 1)
Unpadded(tt) == tt[open].align # LikeC \/ FieldOffset(tt, open, NextName) = types[open].size
Field(d) ==
    /\ open # 0 /\ Len(Fields(open)) < MaxFields /\ Declarable(d)
    /\ \E new \in Declarations(types, d) : types' = WithChild(new.table, open, new.type, NextName)
    /\ "like c" \in Looser \/ Unpadded(types')
    /\ UNCHANGED <<open, family, variables>>

(* cpl_parse_function_prototype in the body of a container: a method is    *)
(* abstract in an interface and nowhere else, whatever its annotation      *)
(* (funcdef_pars.c:157), and virtual if it is that or an override.         *)
WithMethod(tt, p, c, name, annotation) ==
    LET override == annotation = "override"
        virtual == override \/ tt[p].interface
        on == IF virtual \/ (annotation = "self" /\ tt[p].vtable) THEN Enabled(tt, p) ELSE tt
    IN  WithChild(IF virtual THEN MadeVirtual(on, p, c, name, override) ELSE on, p, c, name)
Method(name, annotation) ==
    LET c == Len(types) + 1
        last == Len(family)
    IN  /\ open # 0 /\ ~\E k \in DOMAIN family[last].own : family[last].own[k].name = name
        /\ types' = WithMethod(Append(types, [Blank EXCEPT !.kind = "method", !.name = name, !.f = c,
                                                           !.abstract = types[open].interface]),
                               open, c, name, annotation)
        /\ family' = [family EXCEPT ![last].own =
                          Append(@, [name |-> name, method |-> c,
                                     virtual |-> annotation = "override" \/ types[open].interface])]
        /\ UNCHANGED <<open, variables>>

(* A variable, of a container that is complete.                            *)
Variable(d) ==
    /\ open = 0 /\ Len(variables) < MaxVariables /\ Declarable(d)
    /\ \E new \in Declarations(types, d) :
         types' = new.table /\ variables' = Append(variables, new.type)
    /\ UNCHANGED <<open, family>>

(* TPTB_get_indexed_type: the type of p[i].                                *)
Index(t) ==
    /\ types[t].ptr > 0 /\ types[t].kind = "custom"
    /\ "index" \in Looser \/ (Root(types, t) # open /\ types[t].size = types[Root(types, t)].size)
    /\ types' = Copied(types, t, types[t].ptr - 1)
    /\ UNCHANGED <<open, family, variables>>

Next == \/ \E l \in Layouts : Open(l)
        \/ Close
        \/ \E d \in FieldTypes : Field(d)
        \/ \E n \in MethodNames, a \in Annotations : open # 0 /\ Method(n, a)
        \/ \E d \in VariableTypes : Variable(d)
        \/ \E t \in DOMAIN types : Index(t)
Spec == Init /\ [][Next]_vars
-----------------------------------------------------------------------------
Complete == {k \in DOMAIN family : family[k].type # open}

(* The cells of an object, as its fields are read: the offset of a field,  *)
(* within it, and i times its size for the element of an array.            *)
RECURSIVE Cells(_, _, _)
CellsOfArray(tt, elem, n, es, base) == FlattenSeq([k \in 1 .. n |-> Cells(tt, elem, base + (k - 1) * es)])
CellsOfContainer(tt, r, data, base) ==
    FlattenSeq([k \in DOMAIN data |-> Cells(tt, data[k].child, base + FieldOffset(tt, r, data[k].name))])
DataMembers(tt, r) == SelectSeq(tt[r].members, LAMBDA m : tt[m.child].kind # "method")
CellsOf(tt, t, r, base) ==
    CASE tt[t].ptr > 0 \/ tt[t].kind = "prim" -> <<[off |-> base, size |-> MemorySize(tt, t)]>>
      [] tt[t].ptr = 0 /\ tt[r].kind = "array" ->
            LET es == MemorySize(tt, tt[r].elem)
            IN  CellsOfArray(tt, tt[r].elem, IF es > 0 THEN tt[r].size \div es ELSE 1, es, base)
      [] OTHER -> CellsOfContainer(tt, r, DataMembers(tt, r), base)
Cells(tt, t, base) == CellsOf(tt, t, Root(tt, t), base)
RECURSIVE HasUnion(_, _)
HasUnionIn(tt, r) ==
    \/ tt[r].kind = "array" /\ HasUnion(tt, tt[r].elem)
    \/ tt[r].kind = "custom" /\ (~tt[r].multiple \/ \E k \in DOMAIN tt[r].children : HasUnion(tt, tt[r].children[k]))
HasUnion(tt, t) == tt[t].ptr = 0 /\ HasUnionIn(tt, Root(tt, t))

(* The memory a variable is given holds all its fields, whatever was       *)
(* declared in between, and two fields of one object share no byte unless  *)
(* a union says so (containers.md: 'declaring a local container creates    *)
(* ordinary function-local storage, fields are addressed by offset').      *)
HoldsAll(c, size) == \A k \in DOMAIN c : c[k].off >= 0 /\ c[k].off + c[k].size <= size
Apart(c) == \A k \in 2 .. Len(c) : c[k - 1].off + c[k - 1].size <= c[k].off
Holds(tt, t) == HoldsAll(Cells(tt, t, 0), MemorySize(tt, t)) /\ (HasUnion(tt, t) \/ Apart(Cells(tt, t, 0)))
ObjectsHoldTheirFields == \A v \in DOMAIN variables : Holds(types, variables[v])

(* A virtual call through a container or a base of it runs the method of   *)
(* the object: the nearest override, at the slot the base gives the method *)
(* (containers.md: 'The same inherited method therefore occupies the same  *)
(* position for compatible child containers').                             *)
Ancestry[k \in DOMAIN family] == {k} \union UNION {Ancestry[b] : b \in Range(family[k].bases)}
OwnMethod(k, name) == SelectSeq(family[k].own, LAMBDA m : m.name = name /\ m.virtual)
Implementation[k \in DOMAIN family, name \in MethodNames] ==
    LET from == SelectSeq(family[k].bases, LAMBDA b : Implementation[b, name] # 0)
    IN  CASE OwnMethod(k, name) # <<>> -> OwnMethod(k, name)[1].method
          [] OwnMethod(k, name) = <<>> /\ from # <<>> -> Implementation[from[1], name]
          [] OTHER -> 0
Reached(table, slot) == IF slot \in DOMAIN table THEN table[slot] ELSE NoIndex
VirtualCallsReachTheOverride ==
    \A k \in Complete : \A b \in Ancestry[k] : \A name \in MethodNames :
        Implementation[b, name] # 0 =>
            Reached(VirtualTable(types, family[k].type), types[Member(types, family[b].type, name)].index + 1)
                = (IF types[Implementation[k, name]].abstract THEN 0 ELSE Implementation[k, name])
=============================================================================
