--------------------------------- MODULE Eval ---------------------------------
(***************************************************************************)
(* The evaluation of a parsed schema (ser/eval.c): constants, types and    *)
(* messages are resolved one after the other in a context ctx.             *)
(*                                                                         *)
(*   items       the tree, without the definitions that were removed       *)
(*   constants   name -> [value, valid]                                    *)
(*   typedefs    name -> reference to a type object                        *)
(*   unresolved  name -> item, while types are resolved                    *)
(*   objects     the array and struct objects                              *)
(*   messages    the result                                                *)
(*   errors      what is reported, in order                                *)
(*   lost        the program has used a NULL, or a type object of another  *)
(*               kind than it is: from then on anything may happen         *)
(*                                                                         *)
(* A reference is a primitive, the place of an object, or NULL.  The hash  *)
(* maps are functions (Hashmap is about the map itself); nothing is taken  *)
(* out of them here.                                                       *)
(***************************************************************************)
EXTENDS Integers, SequencesExt, FiniteSetsExt

CONSTANTS
    NoVersion,      \* the version of messages without one (~0)
    HeapMax         \* the bound of an array without a size (UINT16_MAX)

PRIMITIF == [u8 |-> 1, u16 |-> 2, u32 |-> 4, u64 |-> 8, i8 |-> 1, i16 |-> 2, i32 |-> 4, i64 |-> 8,
             f32 |-> 4, f64 |-> 8, char |-> 1, bool |-> 1]

NULL      == [null |-> TRUE]
ToPrim(w) == [prim |-> w]
ToObj(i)  == [obj |-> i]
IsObj(r)  == "obj" \in DOMAIN r

With(f, k, v)  == [x \in DOMAIN f \cup {k} |-> IF x = k THEN v ELSE f[x]]
Fail(ctx, kind, name) == [ctx EXCEPT !.errors = Append(@, <<kind, name>>)]
Lost(ctx, wrong)      == [ctx EXCEPT !.lost = @ \/ wrong]

resolve_statics(tree) ==
    [items |-> tree, constants |-> << >>,
     typedefs |-> [n \in {<<w>> : w \in DOMAIN PRIMITIF} |-> ToPrim(n[1])],
     unresolved |-> << >>, objects |-> << >>, messages |-> << >>, errors |-> << >>, lost |-> FALSE]

\* The items of the given tags by their names.  A name that is defined again is an error;
\* the first item stays in the tree, the last one in the map.
Load(ctx, tags) ==
    LET Add(s, item) ==
            IF item.tag \notin tags THEN [s EXCEPT !.ctx.items = Append(@, item)]
            ELSE LET empty == item.tag = "struct" /\ item.fields = <<>>
                     c     == IF empty THEN Fail(s.ctx, "empty", item.name) ELSE s.ctx
                 IN  [map |-> With(s.map, item.name, item),
                      ctx |-> IF item.name \in DOMAIN s.map
                              THEN Fail(c, "duplicate", item.name)
                              ELSE [c EXCEPT !.items = Append(@, item)]]
    IN  FoldLeft(Add, [map |-> << >>, ctx |-> [ctx EXCEPT !.items = <<>>]], ctx.items)

Each(ctx, tags, Do(_, _)) ==
    FoldLeft(LAMBDA c, item : IF item.tag \in tags THEN Do(c, item) ELSE c, ctx, ctx.items)

-----------------------------------------------------------------------------
(***************************************************************************)
(* Constants                                                               *)
(***************************************************************************)
Invalid == [value |-> 0, valid |-> FALSE]

\* The constants that are met from start until it comes again.
RECURSIVE CycleFrom(_, _, _)
CycleFrom(map, start, cur) ==
    {cur} \cup IF map[cur].value.lexeme = start THEN {} ELSE CycleFrom(map, start, map[cur].value.lexeme)

\* The constant called name, which has led to value by way of the constants in names.
RECURSIVE Follow(_, _, _, _, _)
Follow(ctx, map, name, value, names) ==
    LET ident  == value.lexeme
        Set(c, k, v) == [c EXCEPT !.constants = With(@, k, v)]
    IN  IF value.type # "Ident" THEN Set(ctx, name, [value |-> value.lit, valid |-> TRUE])
        ELSE IF ident \in DOMAIN ctx.constants THEN Set(ctx, name, ctx.constants[ident])
        ELSE IF ident \in names
        THEN Set(FoldLeft(LAMBDA c, k : Set(c, k, Invalid), Fail(ctx, "cycle", ident),
                          SetToSeq(CycleFrom(map, ident, ident))),
                 name, Invalid)
        ELSE IF ident \notin DOMAIN map THEN Set(Fail(ctx, "unknown", ident), name, Invalid)
        ELSE Follow(ctx, map, name, map[ident].value, names \cup {ident})

resolve_constants(ctx) ==
    LET l == Load(ctx, {"const"})
    IN  Each(l.ctx, {"const"},
             LAMBDA c, item : Follow(c, l.map, item.name, l.map[item.name].value, {item.name}))

\* A number that is used: an invalid constant counts as 0.
get_ast_number_value(ctx, number) ==
    IF number.type = "Number" THEN number.lit
    ELSE IF number.lexeme \in DOMAIN ctx.constants THEN ctx.constants[number.lexeme].value
    ELSE 0
NumberChecked(ctx, number) ==
    IF number.type = "Number" \/ number.lexeme \in DOMAIN ctx.constants THEN ctx
    ELSE Fail(ctx, "unknown", number.lexeme)

-----------------------------------------------------------------------------
(***************************************************************************)
(* Types                                                                   *)
(***************************************************************************)
IsArray(t) == t.tag \in {"HeapArray", "FieldArray"}
RECURSIVE Element(_)
Element(t) == IF IsArray(t) THEN Element(t.of) ELSE t.name

Typedef(ctx, name, r) == [ctx EXCEPT !.typedefs = With(@, name, r)]

\* A type declaration is followed through its arrays and through other declarations, idents
\* being those met.  All of idents become invalid when one comes again.
RECURSIVE Declared(_, _, _)
Declared(ctx, value, idents) ==
    LET next    == Element(value)
        invalid == Typedef(ctx, idents[1], NULL)
    IN  IF next \in Range(idents)
        THEN FoldLeft(LAMBDA c, n : Typedef(c, n, NULL), Fail(ctx, "cycle", next), idents)
        ELSE IF next \in DOMAIN ctx.typedefs
        THEN IF ctx.typedefs[next] = NULL THEN invalid ELSE ctx
        ELSE IF next \notin DOMAIN ctx.unresolved THEN Fail(invalid, "unknown", next)
        ELSE IF ctx.unresolved[next].tag = "struct" THEN ctx
        ELSE Declared(ctx, ctx.unresolved[next].value, Append(idents, next))

\* A new type object, and where it is.
Push(ctx, o) == [ctx EXCEPT !.objects = Append(@, o)]
ArrayObject(heap, fixed, size, of) ==
    [kind |-> "array", heap |-> heap, fixed |-> fixed, size |-> size, sub |-> <<of>>, fields |-> <<>>, align |-> 0]
StructObject ==
    [kind |-> "struct", heap |-> FALSE, fixed |-> FALSE, size |-> 0, sub |-> <<>>, fields |-> <<>>, align |-> 0]

ast_size_to_sizing(ctx, size) ==
    IF size.tag = "NoSize" THEN HeapMax ELSE get_ast_number_value(ctx, size.value)

\* Both give the context and the reference, as [ctx, ref].
RECURSIVE resolve_type(_, _)
RECURSIVE ast_type_to_type_obj(_, _)
ast_type_to_type_obj(ctx, type) ==
    IF ~IsArray(type) THEN resolve_type(ctx, type.name)
    ELSE LET c0 == IF type.size.tag = "NoSize" THEN ctx ELSE NumberChecked(ctx, type.size.value)
             k  == Len(ctx.objects) + 1
             e  == ast_type_to_type_obj(
                       Push(c0, ArrayObject(type.tag = "HeapArray", type.size.tag = "FixedSize",
                                            ast_size_to_sizing(ctx, type.size), NULL)), type.of)
         IN  [ctx |-> [e.ctx EXCEPT !.objects[k].sub = <<e.ref>>], ref |-> ToObj(k)]

\* The fields of the struct at k.
StructFields(ctx, k, fields) ==
    FoldLeft(LAMBDA c, f : LET t == ast_type_to_type_obj(c, f.type)
                           IN  [t.ctx EXCEPT !.objects[k].sub = Append(@, t.ref),
                                             !.objects[k].fields = Append(@, f.name)],
             ctx, fields)

\* Bug: the struct is entered in typedefs only when its fields are known.
resolve_type_late(ctx, name) ==
    IF name \in DOMAIN ctx.typedefs THEN [ctx |-> ctx, ref |-> ctx.typedefs[name]]
    ELSE IF name \notin DOMAIN ctx.unresolved THEN [ctx |-> Fail(ctx, "unknown", name), ref |-> NULL]
    ELSE LET item == ctx.unresolved[name]
             k    == Len(ctx.objects) + 1
             t    == ast_type_to_type_obj(Typedef(ctx, name, NULL), item.value)
             s    == StructFields(Typedef(Push(ctx, StructObject), name, NULL), k, item.fields)
         IN  IF item.tag = "type"
             THEN [ctx |-> Typedef(t.ctx, name, t.ref), ref |-> t.ref]
             ELSE [ctx |-> Typedef(s, name, ToObj(k)), ref |-> ToObj(k)]
\* A declaration is NULL while its value is resolved; a struct can be referred to at once.
resolve_type(ctx, name) ==
    IF name \in DOMAIN ctx.typedefs THEN [ctx |-> ctx, ref |-> ctx.typedefs[name]]
    ELSE IF name \notin DOMAIN ctx.unresolved THEN [ctx |-> Fail(ctx, "unknown", name), ref |-> NULL]
    ELSE LET item == ctx.unresolved[name]
             k    == Len(ctx.objects) + 1
             t    == ast_type_to_type_obj(Typedef(ctx, name, NULL), item.value)
             s    == StructFields(Typedef(Push(ctx, StructObject), name, ToObj(k)), k, item.fields)
         IN  IF item.tag = "type"
             THEN [ctx |-> Typedef(t.ctx, name, t.ref), ref |-> t.ref]
             ELSE [ctx |-> s, ref |-> ToObj(k)]

\* Bug: an array of fixed size on the heap counts as an indirection.
InPlace_heap(ctx, r) ==
    IF ~IsObj(r) THEN r
    ELSE LET o == ctx.objects[r.obj]
         IN  IF o.kind = "array" /\ ~o.heap THEN o.sub[1] ELSE r
\* What is stored in place under a reference: through arrays in the struct and arrays of
\* fixed size.  NULL when an array of nothing is met.
RECURSIVE InPlace(_, _)
InPlace(ctx, r) ==
    IF ~IsObj(r) THEN r
    ELSE LET o == ctx.objects[r.obj]
         IN  IF o.kind = "array" /\ (~o.heap \/ o.fixed) THEN InPlace(ctx, o.sub[1]) ELSE r

\* Whether the struct at k holds the one at rec.  s: the structs that need no look (checked),
\* those reported (invalids), the verdict, and whether a NULL was used.
RECURSIVE check_for_recursion(_, _, _, _)
check_for_recursion(ctx, s, rec, k) ==
    LET Field(acc, r) ==
            IF acc.found \/ r = NULL THEN acc
            ELSE LET in == InPlace(ctx, r)
                     below == check_for_recursion(ctx, acc, rec, in.obj)
                 IN  IF in = NULL THEN [acc EXCEPT !.lost = TRUE]
                     ELSE IF ~IsObj(in) \/ ctx.objects[in.obj].kind # "struct" THEN acc
                     ELSE IF in.obj = rec THEN [acc EXCEPT !.found = TRUE]
                     ELSE below
        all == FoldLeft(Field, [s EXCEPT !.checked = @ \cup {k}], ctx.objects[k].sub)
    IN  IF k \in s.checked \/ k \in s.invalids THEN [s EXCEPT !.checked = @ \cup {k}]
        ELSE IF all.found THEN [all EXCEPT !.invalids = @ \cup {k}] ELSE all

\* The structs of the tree that hold themselves, reported once for each cycle.  A struct
\* whose name now stands for something else is used as if it were one.
CheckStructs(ctx) ==
    LET Check(s, item) ==
            LET r == ctx.typedefs[item.name]
                f == check_for_recursion(ctx, [s EXCEPT !.checked = {}, !.found = FALSE], r.obj, r.obj)
            IN  IF item.tag # "struct" THEN s
                ELSE IF ~IsObj(r) \/ ctx.objects[r.obj].kind # "struct" THEN [s EXCEPT !.lost = TRUE]
                ELSE [f EXCEPT !.cycles = IF f.found THEN Append(@, item.name) ELSE @]
        all == FoldLeft(Check, [checked |-> {}, invalids |-> {}, cycles |-> <<>>, found |-> FALSE, lost |-> FALSE],
                        ctx.items)
    IN  Lost(FoldLeft(LAMBDA c, n : Fail(c, "infinite", n), ctx, all.cycles), all.lost)

\* An error for every name in names that has come before in it.
Duplicates(ctx, names) ==
    FoldLeft(LAMBDA c, i : IF \E j \in 1..(i - 1) : names[j] = names[i]
                           THEN Fail(c, "duplicate", names[i]) ELSE c,
             ctx, [i \in DOMAIN names |-> i])

resolve_types(ctx) ==
    LET l        == Load(ctx, {"type", "struct"})
        loaded   == [l.ctx EXCEPT !.unresolved = l.map]
        declared == Each(loaded, {"type"}, LAMBDA c, item : Declared(c, item.value, <<item.name>>))
        resolved == Each(declared, {"type", "struct"}, LAMBDA c, item : resolve_type(c, item.name).ctx)
        checked  == CheckStructs(resolved)
    IN  IF checked.lost THEN checked
        ELSE [Each(checked, {"struct"},
                   LAMBDA c, item : Duplicates(c, c.objects[c.typedefs[item.name].obj].fields))
              EXCEPT !.unresolved = << >>]

-----------------------------------------------------------------------------
(***************************************************************************)
(* Messages                                                                *)
(***************************************************************************)
\* The fields of a message: the names that are not new are errors as they come.
MessageFields(ctx, fields) ==
    FoldLeft(LAMBDA s, f :
                 LET t == ast_type_to_type_obj(s.ctx, f.type)
                 IN  [ctx |-> IF \E g \in Range(s.fields) : g.name = f.name
                              THEN Fail(t.ctx, "duplicate", f.name) ELSE t.ctx,
                      fields |-> Append(s.fields, [name |-> f.name, type |-> t.ref])],
             [ctx |-> ctx, fields |-> <<>>], fields)

\* Bug: the attributes are those of the whole block.
Child_sticky(s, c) ==
    IF c.tag = "attribute"
    THEN IF c.name = <<"versioned">> THEN [s EXCEPT !.versioned = TRUE]
         ELSE [s EXCEPT !.ctx = Fail(@, "unknown", c.name)]
    ELSE LET dup == \E m \in Range(s.messages) : m.name = c.name
             f   == MessageFields(IF dup THEN Fail(s.ctx, "duplicate", c.name) ELSE s.ctx, c.fields)
         IN  [s EXCEPT !.ctx = f.ctx,
                       !.messages = Append(@, [name |-> c.name, versioned |-> s.versioned, fields |-> f.fields])]
\* An attribute holds for the next message.
Child(s, c) ==
    IF c.tag = "attribute"
    THEN IF c.name = <<"versioned">> THEN [s EXCEPT !.versioned = TRUE]
         ELSE [s EXCEPT !.ctx = Fail(@, "unknown", c.name)]
    ELSE LET dup == \E m \in Range(s.messages) : m.name = c.name
             f   == MessageFields(IF dup THEN Fail(s.ctx, "duplicate", c.name) ELSE s.ctx, c.fields)
         IN  [s EXCEPT !.ctx = f.ctx, !.versioned = FALSE,
                       !.messages = Append(@, [name |-> c.name, versioned |-> s.versioned, fields |-> f.fields])]

\* A version holds for the next block of messages.  The types are all resolved: a name that
\* is no type now is unknown.
resolve_messages(ctx) ==
    LET Item(s, item) ==
            CASE item.tag = "version" ->
                    [ctx |-> NumberChecked(s.ctx, item.version),
                     version |-> get_ast_number_value(s.ctx, item.version)]
              [] item.tag = "messages" ->
                    LET dup == \E m \in Range(s.ctx.messages) : m.name = item.name
                        b == FoldLeft(Child, [ctx |-> IF dup THEN Fail(s.ctx, "duplicate", item.name) ELSE s.ctx,
                                              versioned |-> FALSE, messages |-> <<>>], item.children)
                    IN  [ctx |-> [b.ctx EXCEPT !.messages =
                                      Append(@, [name |-> item.name, version |-> s.version, messages |-> b.messages])],
                         version |-> NoVersion]
              [] OTHER -> s
    IN  FoldLeft(Item, [ctx |-> ctx, version |-> NoVersion], ctx.items).ctx

-----------------------------------------------------------------------------
(***************************************************************************)
(* Alignments and layouts of the type objects.  These are computed before  *)
(* anybody looks at the errors.                                            *)
(***************************************************************************)
\* The width of the length of an array of at most size elements.  Sizes of more
\* than 32 bits, with a length of 8 bytes, are beyond TLC's integers.
LenAlign(size) == IF size <= 255 THEN 1 ELSE IF size <= 65535 THEN 2 ELSE 4
\* The alignment of the length an array of variable size has.
OwnAlign(o) == IF o.kind = "array" /\ ~o.fixed THEN LenAlign(o.size) ELSE 1

\* The alignment of a type, with the types seen on the way: those count for nothing when
\* they come again, their parts being counted where they were seen first.
RECURSIVE resolve_alignment(_, _, _)
resolve_alignment(objects, r, seen) ==
    IF ~IsObj(r) THEN [align |-> PRIMITIF[r.prim], seen |-> seen]
    ELSE LET o == objects[r.obj]
         IN  IF o.align # 0 THEN [align |-> o.align, seen |-> seen]
             ELSE IF r.obj \in seen THEN [align |-> 1, seen |-> seen]
             ELSE FoldLeft(LAMBDA s, t : LET a == resolve_alignment(objects, t, s.seen)
                                         IN  [align |-> Max({s.align, a.align}), seen |-> a.seen],
                           [align |-> OwnAlign(o), seen |-> seen \cup {r.obj}], o.sub)

\* Bug: a type that was seen from another one counts for nothing.
Alignments_unclear(objects) ==
    FoldLeft(LAMBDA s, k : LET a == resolve_alignment(s.objects, ToObj(k), s.seen)
                           IN  [objects |-> [s.objects EXCEPT ![k].align = a.align], seen |-> a.seen],
             [objects |-> objects, seen |-> {}], [k \in DOMAIN objects |-> k]).objects
Alignments(objects) ==
    FoldLeft(LAMBDA os, k : [os EXCEPT ![k].align = resolve_alignment(os, ToObj(k), {}).align],
             objects, [k \in DOMAIN objects |-> k])

\* Whether add_fields comes to an end: it goes through structs and arrays of fixed size,
\* above holding those it is in.
RECURSIVE Ends(_, _, _)
Ends(objects, r, above) ==
    \/ ~IsObj(r)
    \/ LET o == objects[r.obj]
       IN  /\ r.obj \notin above
           /\ \/ o.kind = "array" /\ (~o.fixed \/ o.size = 0)
              \/ \A i \in DOMAIN o.sub : Ends(objects, o.sub[i], above \cup {r.obj})

resolve_additional_type_info(ctx) ==
    LET null == \E o \in Range(ctx.objects) : NULL \in Range(o.sub)
        deep == \E k \in DOMAIN ctx.objects : ~Ends(ctx.objects, ToObj(k), {})
    IN  IF null \/ deep THEN Lost(ctx, TRUE) ELSE [ctx EXCEPT !.objects = Alignments(@)]
===============================================================================
