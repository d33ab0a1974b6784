------------------------------- MODULE Layout -------------------------------
(***************************************************************************)
(* How the schema compiler lays a type out on the wire (ser/eval.c,        *)
(* ser/codegen.h).  A type is flattened into its scalar leaves, each named *)
(* by the indices that lead to it, and the leaves are sorted so that       *)
(* packing them one after the other keeps every one aligned; the arrays    *)
(* of variable length come last.                                           *)
(*                                                                         *)
(* A type is a record [kind, n, heap, sub, align]:                          *)
(*   "prim"    a scalar of n bytes                                         *)
(*   "struct"  the fields sub                                              *)
(*   "max"     at most n elements of type sub[1] (SizingMax)               *)
(*   "fixed"   exactly n elements of type sub[1] (SizingFixed)             *)
(* heap says that the field is a pointer, to the data of a "max" array or  *)
(* to the elements of a "fixed" one (written T&[^n] and T&[n]).            *)
(* Types are trees here; the graph of named types is Eval's.  Field and    *)
(* element indices count from 1; in the indices of an accessor the part    *)
(* of a "max" array is 0 for its length and 1 for its data, as in the code.*)
(* The class of arrays whose length needs 8 bytes is left out: its bound   *)
(* is beyond TLC's integers.                                               *)
(***************************************************************************)
EXTENDS Integers, SequencesExt

\* The bytes of the length of an array of at most n elements.
LenSize(n) == IF n <= 255 THEN 1 ELSE IF n <= 65535 THEN 2 ELSE 4

\* resolve_alignment: the strictest alignment of anything in the type.
resolve_alignment(kind, n, sub) ==
    Max({1} \cup {sub[i].align : i \in DOMAIN sub}
            \cup (IF kind = "max" THEN {LenSize(n)} ELSE {}))

TypeObject(kind, n, heap, sub) ==
    [kind |-> kind, n |-> n, heap |-> heap, sub |-> sub,
     align |-> IF kind = "prim" THEN n ELSE resolve_alignment(kind, n, sub)]

Prim(s)          == TypeObject("prim", s, FALSE, <<>>)
StructOf(fs)     == TypeObject("struct", 0, FALSE, fs)
MaxArray(t, n)   == TypeObject("max", n, FALSE, <<t>>)
HeapArray(t, n)  == TypeObject("max", n, TRUE, <<t>>)
FixedArray(t, n) == TypeObject("fixed", n, FALSE, <<t>>)
HeapFixedArray(t, n) == TypeObject("fixed", n, TRUE, <<t>>)

\* add_fields: the accessors of the leaves below t, in the order of the fields.
\* An array of variable length is one accessor of size 0 for its elements and
\* one for its length.
RECURSIVE add_fields(_, _)
add_fields(t, base) ==
    CASE t.kind = "prim" -> << [indices |-> base, size |-> t.n, type |-> t] >>
      [] t.kind = "max" ->
            << [indices |-> Append(base, 1), size |-> 0, type |-> t.sub[1]],
               [indices |-> Append(base, 0), size |-> LenSize(t.n),
                type |-> Prim(LenSize(t.n))] >>
      [] t.kind = "struct" ->
            FlattenSeq([i \in DOMAIN t.sub |-> add_fields(t.sub[i], Append(base, i))])
      [] t.kind = "fixed" ->
            FlattenSeq([i \in 1..t.n |-> add_fields(t.sub[1], Append(base, i))])

\* fa_compare: constant sizes before arrays, then by decreasing alignment.
fa_less(a, b) ==
    IF (a.size = 0) # (b.size = 0)
    THEN b.size = 0
    ELSE a.type.align > b.type.align

\* type_layout.  qsort is free to order equal accessors either way: ties says
\* whether this library keeps or reverses them.
type_layout(t, ties) ==
    LET fas == add_fields(t, <<>>)
        Before(i, j) == \/ fa_less(fas[i], fas[j])
                        \/ /\ ~fa_less(fas[j], fas[i])
                           /\ IF ties = "kept" THEN i < j ELSE i > j
        order == SortSeq([i \in DOMAIN fas |-> i], Before)
    IN  [type |-> t, fields |-> [i \in DOMAIN fas |-> fas[order[i]]]]

-----------------------------------------------------------------------------
(***************************************************************************)
(* CurrentAlignment (ser/codegen.h): what the generators know, while they  *)
(* emit code, of the position they have reached: an offset modulo align.   *)
(***************************************************************************)
calign(align, offset)  == [align |-> align, offset |-> offset]
calign_add(c, offset)  == [c EXCEPT !.offset = (@ + offset) % c.align]
\* The padding needed to be aligned to a.
calign_to(c, a)        == (-c.offset) % a
\* write_align: the pointer itself is rounded up, not an offset in the message.
AlignUp(address, a)    == address + ((-address) % a)

NbFixed(l) == Cardinality({i \in DOMAIN l.fields : l.fields[i].size # 0})
FixedSize(l) == FoldSeq(LAMBDA fa, s : fa.size + s, 0, l.fields)
=============================================================================
