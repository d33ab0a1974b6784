------------------------------ MODULE CodegenC ------------------------------
(***************************************************************************)
(* What the C code generated by ser/codegen_c.c does: the operators below  *)
(* are the effect of the emitted statements, with the offsets the          *)
(* generator computes when it emits them.                                  *)
(*                                                                         *)
(* Memory is a function from addresses to cells; a scalar v of s bytes is  *)
(* the cells <<v, 0>>, ..., <<v, s - 1>>, so that a byte of one scalar is  *)
(* never taken for a byte of another.  A scalar is a tuple: a leaf of the  *)
(* message, a length <<"len", n>>, a tag, a version or a magic number.     *)
(* A value of a struct or of an array is the sequence of its parts.        *)
(***************************************************************************)
EXTENDS Layout

MAGIC == 8          \* MSG_MAGIC_SIZE
Stale == <<"stale">>

Store(st, at, size, v) ==
    [st EXCEPT !.mem = [k \in at..(at + size - 1) |-> <<v, k - at>>] @@ @,
               !.acc = @ \cup {<<at, size>>}]

\* A byte nobody wrote is whatever was there.
Byte(mem, k) == IF k \in DOMAIN mem THEN mem[k] ELSE <<Stale, 0>>

Load(mem, at, size) ==
    LET v == Byte(mem, at)[1]
    IN  IF \A k \in 0..(size - 1) : Byte(mem, at + k) = <<v, k>> THEN v ELSE Stale

\* write_accessor: the part of v that the indices name.
RECURSIVE Access(_, _, _)
Access(t, v, indices) ==
    IF indices = <<>> THEN v
    ELSE LET i == Head(indices)
         IN  IF t.kind = "max"
             THEN IF i = 0 THEN <<"len", Len(v)>> ELSE v
             ELSE Access(IF t.kind = "struct" THEN t.sub[i] ELSE t.sub[1],
                         v[i], Tail(indices))

\* is_field_accessor_heap_array, for the accessor of the data of an array.
RECURSIVE IsHeap(_, _)
IsHeap(t, indices) ==
    IF Len(indices) <= 1 THEN t.heap
    ELSE IsHeap(IF t.kind = "struct" THEN t.sub[Head(indices)] ELSE t.sub[1],
                Tail(indices))

\* No field or element has index 0: it stands for the length of an array.
IsLength(indices) == indices # <<>> /\ Last(indices) = 0
LoadField(st, at, size, indices) ==
    LET v == Load(st.mem, at, size)
    IN  IF IsLength(indices) /\ v[1] # "len" THEN <<"len", st.junk>> ELSE v
LengthAt(got, path) == (CHOOSE x \in got : x[1] = Append(path, 0))[2][2]

\* Where the fields of constant size end, from buf: the padding before the
\* first one is in the offset but not in the alignment the generator tracks.
FixedStart(l, al) == al.offset + calign_to(al, l.fields[1].type.align)
FixedAlign(l, al) == calign_add(al, FixedSize(l))
\* Bug: the offset moves one field too late.
FixedOffsetLags(l, al, i) ==
    FixedStart(l, al) + FixedSize([fields |-> SubSeq(l.fields, 1, i - 2)])

FixedOffset(l, al, i) ==
    FixedStart(l, al) + FixedSize([fields |-> SubSeq(l.fields, 1, i - 1)])
ArrayFields(l)    == SubSeq(l.fields, NbFixed(l) + 1, Len(l.fields))

\* Where buf stands when the fields of constant size are done.
BodyEnd(l, al) ==
    FixedStart(l, al) + FixedSize(l)
    + calign_to(FixedAlign(l, al),
                IF ArrayFields(l) = <<>> THEN al.align
                ELSE ArrayFields(l)[1].type.align)

\* write_type_serialization (a call of a struct's function runs the same
\* statements as the inlined ones).
RECURSIVE CSerialize(_, _, _, _, _)
CSerialize(t, ties, al, v, st) ==
    LET l == type_layout(t, ties)
        PutScalar(s, i) == Store(s, st.pos + FixedOffset(l, al, i), l.fields[i].size,
                                 Access(t, v, l.fields[i].indices))
        PutArray(s, fa) ==
            FoldLeft(LAMBDA s2, e : CSerialize(fa.type, ties,
                                        calign(fa.type.align, 0), e, s2),
                     s, Access(t, v, fa.indices))
        fixed == [FoldLeft(PutScalar, st, [i \in 1..NbFixed(l) |-> i])
                    EXCEPT !.pos = @ + BodyEnd(l, al)]
    IN  IF l.fields = <<>> THEN st
        ELSE IF ArrayFields(l) = <<>> THEN fixed
        ELSE [FoldLeft(PutArray, fixed, ArrayFields(l))
                EXCEPT !.pos = AlignUp(st.base + @, al.align) - st.base]

\* write_type_deserialization: what is read goes to got, under the path of the
\* object; a heap array is allocated first.  A length made of bytes of two
\* messages reads as st.junk.
RECURSIVE CDeserialize(_, _, _, _, _)
CDeserialize(t, ties, al, path, st) ==
    LET l == type_layout(t, ties)
        at(i) == st.pos + FixedOffset(l, al, i)
        scalars == {<<path \o l.fields[i].indices,
                      LoadField(st, at(i), l.fields[i].size, l.fields[i].indices)>> :
                        i \in 1..NbFixed(l)}
        LenOf(fa) == LengthAt(scalars, path \o Front(fa.indices))
        GetArray(s, fa) ==
            LET p  == path \o fa.indices
                s1 == IF IsHeap(t, fa.indices)
                      THEN [s EXCEPT !.blocks = Append(@, p)] ELSE s
            IN  FoldLeft(LAMBDA s2, k : CDeserialize(fa.type, ties,
                             calign(fa.type.align, 0), Append(p, k), s2),
                         s1, [k \in 1..LenOf(fa) |-> k])
        fixed == [st EXCEPT !.pos = @ + BodyEnd(l, al), !.got = @ \cup scalars,
                            !.acc = @ \cup {<<at(i), l.fields[i].size>> : i \in 1..NbFixed(l)}]
    IN  IF l.fields = <<>> THEN st
        ELSE IF ArrayFields(l) = <<>> THEN fixed
        ELSE [FoldLeft(GetArray, fixed, ArrayFields(l))
                EXCEPT !.pos = AlignUp(st.base + @, al.align) - st.base]

-----------------------------------------------------------------------------
(***************************************************************************)
(* write_type_free.  It walks the type, not the layout, and leaves out a   *)
(* loop over elements in which it found nothing to free.  For every array  *)
(* on the heap it emits free(<array>.data), index 1, for one of fixed size *)
(* as well: that one has no data and is never allocated by the reader,     *)
(* which stores through the pointer the field happens to hold.             *)
(***************************************************************************)
\* Bug: nothing to free inside structs.
FreeTotalNoStructs(t) == IF t.heap THEN 1 ELSE 0

RECURSIVE FreeTotal(_)
FreeTotal(t) ==
    CASE t.kind = "prim"   -> 0
      [] t.kind = "struct" -> Len(ArrayFields(type_layout(t, "kept")))
      [] OTHER -> FreeTotal(t.sub[1]) + (IF t.heap THEN 1 ELSE 0)

RECURSIVE CFree(_, _, _)
CFree(t, path, got) ==
    LET n == IF t.kind = "fixed" THEN t.n
             ELSE LengthAt(got, path)
        Element(k) == CFree(t.sub[1],
                            IF t.kind = "fixed" THEN Append(path, k) ELSE path \o <<1, k>>, got)
    IN  CASE t.kind = "prim" -> <<>>
          [] t.kind = "struct" ->
                FlattenSeq([i \in DOMAIN t.sub |-> CFree(t.sub[i], Append(path, i), got)])
          [] OTHER ->
                (IF FreeTotal(t.sub[1]) > 0 THEN FlattenSeq([k \in 1..n |-> Element(k)]) ELSE <<>>)
                \o (IF t.heap THEN << Append(path, 1) >> ELSE <<>>)

-----------------------------------------------------------------------------
(***************************************************************************)
(* The functions generated for a family of messages: a magic number, the   *)
(* tag, the fields of the message from offset 2 on, a magic number.        *)
(* A message is [tag, type, versioned]; the version is its last field.     *)
(***************************************************************************)
\* msg_<name>_serialize; Body is the case of the message.  The length of the
\* buffer is compared last.
Serialize(Body(_), m, mem, len, base) ==
    LET st0  == [mem |-> mem, pos |-> 0, base |-> base, acc |-> {}]
        st1  == Store(Store(st0, 0, MAGIC, <<"START">>), MAGIC, 2, <<"tag", m.tag>>)
        st2  == Body([st1 EXCEPT !.pos = MAGIC])
        st3  == Store(st2, st2.pos, MAGIC, <<"END">>)
    IN  IF len < 2 * MAGIC THEN [st0 EXCEPT !.pos = -1]
        ELSE [st3 EXCEPT !.pos = IF @ + MAGIC > len THEN -1 ELSE @ + MAGIC]

\* The last tests of msg_<name>_deserialize: the second magic number, which may
\* have been read past what was received, and then the length.
\* Bug: the magic number is enough.
EndsAnywhere(st, len) == Load(st.mem, st.pos, MAGIC) = <<"END">>

EndsWithin(st, len) ==
    Load(st.mem, st.pos, MAGIC) = <<"END">> /\ st.pos + MAGIC <= len

\* msg_<name>_free, of what the struct msg holds: a message and what was read.
NoMessage == [type |-> StructOf(<<>>), got |-> {}]
msg_free(held) == CFree(held.type, <<>>, held.got)

\* msg_<name>_deserialize into a struct that holds an earlier message; pos is the
\* value returned.  A message that is refused at its end or for its version is
\* freed.  A tag that is no message's leaves msg->tag alone, and the test of the
\* second magic number then frees the earlier message.
Deserialize(Body(_, _), messages, mem, len, base, version, junk, held) ==
    LET st0   == [mem |-> mem, pos |-> MAGIC, base |-> base, acc |-> {}, got |-> {},
                  blocks |-> <<>>, freed |-> <<>>, junk |-> junk]
        known == {m \in messages : Load(mem, MAGIC, 2) = <<"tag", m.tag>>}
        m     == CHOOSE x \in known : TRUE
        st1   == IF known = {} THEN st0 ELSE Body(m, st0)
        old   == /\ known # {}
                 /\ m.versioned
                 /\ << <<Len(m.type.sub)>>, <<"version", version>> >> \notin st1.got
    IN  IF len < 2 * MAGIC \/ Load(mem, 0, MAGIC) # <<"START">>
        THEN [st0 EXCEPT !.pos = -1]
        ELSE IF old \/ ~EndsWithin(st1, len)
        THEN [st1 EXCEPT !.pos = -1,
                         !.freed = msg_free(IF known = {} THEN held
                                            ELSE [type |-> m.type, got |-> st1.got])]
        ELSE [st1 EXCEPT !.pos = @ + MAGIC]

\* The generated functions.
msg_serialize(m, ties, v, mem, len, base) ==
    Serialize(LAMBDA st : CSerialize(m.type, ties, calign(8, 2), v, st), m, mem, len, base)
msg_deserialize(messages, ties, mem, len, base, version, junk, held) ==
    Deserialize(LAMBDA m, st : CDeserialize(m.type, ties, calign(8, 2), <<>>, st),
                messages, mem, len, base, version, junk, held)
=============================================================================
