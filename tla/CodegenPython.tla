---------------------------- MODULE CodegenPython ----------------------------
(***************************************************************************)
(* What the Python code generated by ser/codegen_python.c does.  The       *)
(* writer appends to a bytearray, here a sequence of cells as in CodegenC; *)
(* the reader keeps an offset into the slice it was given.  Inside a       *)
(* message scalars are little endian; the magic numbers and the tag, which *)
(* counts from 0, are big endian.                                          *)
(***************************************************************************)
EXTENDS CodegenC

Pad(n)       == [k \in 1..n |-> << <<"zero">>, 0>>]
Pack(v, s)   == [k \in 1..s |-> <<v, k - 1>>]
PackBE(v, s) == Reverse(Pack(v, s))
\* unpack of a slice: struct.error when the slice is short.
Unpack(buf, at, s)   == Load([k \in 0..(Len(buf) - 1) |-> buf[k + 1]], at, s)
UnpackBE(buf, at, s) == Unpack(Reverse(SubSeq(buf, at + 1, at + s)), 0, s)

\* write_type_funcs, the writer.  Only before an array, and after the last one,
\* is there any padding.
RECURSIVE PySerialize(_, _, _, _, _, _)
PySerialize(t, ties, al, v, buf, inline) ==
    LET l      == type_layout(t, ties)
        offset == calign_to(al, l.fields[1].type.align)
        al1    == calign_add(calign_add(al, offset), FixedSize(l))
        fixed  == buf \o Pad(offset)
                  \o FlattenSeq([i \in 1..NbFixed(l) |->
                         Pack(Access(t, v, l.fields[i].indices), l.fields[i].size)])
        PutArray(b, fa) ==
            FoldLeft(LAMBDA b2, e : PySerialize(fa.type, ties,
                             calign(fa.type.align, 0), e, b2, FALSE),
                     b, Access(t, v, fa.indices))
        arrays == FoldLeft(PutArray,
                      fixed \o Pad(calign_to(al1, ArrayFields(l)[1].type.align)),
                      ArrayFields(l))
    IN  CASE l.fields = <<>> -> buf
          [] l.fields # <<>> /\ t.kind = "struct" /\ ~inline ->
                PySerialize(t, ties, calign(t.align, 0), v,
                            buf \o Pad(offset + calign_to(al, t.align)), TRUE)
          [] l.fields # <<>> /\ (t.kind # "struct" \/ inline) ->
                IF ArrayFields(l) = <<>> THEN fixed
                ELSE arrays \o Pad((al.align - Len(arrays)) % al.align)

\* write_type_uninit: an object under construction has its structs, and an empty
\* list for each array.  An assignment to self.f[i] raises; only an element that is
\* itself a list of fixed size is made beforehand, as [None] * n.
RECURSIVE NoIndex(_, _)
NoIndex(t, indices) ==
    CASE t.kind = "struct" -> NoIndex(t.sub[Head(indices)], Tail(indices))
      [] t.kind = "fixed"  -> FALSE
      [] OTHER -> TRUE
Assignable(t, indices) ==
    IF t.kind = "fixed" THEN t.sub[1].kind \in {"prim", "max"} ELSE NoIndex(t, indices)

\* The fields of constant size, read one after the other from at; a length that is none raises.
PyScalar(v, indices) == IF IsLength(indices) /\ v[1] # "len" THEN Stale ELSE v
PyScalars(l, buf, at, path) ==
    {<<path \o l.fields[i].indices,
       PyScalar(Unpack(buf, at + FixedSize([fields |-> SubSeq(l.fields, 1, i - 1)]), l.fields[i].size),
                l.fields[i].indices)>> : i \in 1..NbFixed(l)}

\* write_type_funcs, the reader: off counts from start, where the slice of the
\* enclosing object begins.  It skips the padding after the fields of constant
\* size, written or not.
RECURSIVE PyDeserialize(_, _, _, _, _, _), PyGet(_, _, _, _)
PyDeserialize(t, ties, al, path, st, inline) ==
    LET l      == type_layout(t, ties)
        offset == calign_to(al, l.fields[1].type.align)
        nested == PyDeserialize(t, ties, calign(t.align, 0), path,
                      [st EXCEPT !.start = @ + st.off + offset, !.off = 0], TRUE)
    IN  IF l.fields = <<>> \/ ~st.ok THEN st
        ELSE IF t.kind = "struct" /\ ~inline
        THEN [nested EXCEPT !.start = st.start, !.off = st.off + offset + @]
        ELSE PyGet([layout |-> l, ties |-> ties, al |-> al, offset |-> offset, path |-> path], st,
                   PyScalars(l, st.buf, st.start + st.off + offset, path),
                   calign_add(calign_add(al, offset), FixedSize(l)))

\* The statements for one type o, with the fields of constant size in scalars.
PyGet(o, st, scalars, al1) ==
    LET arrays == ArrayFields(o.layout)
        raised == \/ \E x \in scalars : x[2] = Stale
                  \/ \E fa \in Range(o.layout.fields) :
                        ~IsLength(fa.indices) /\ ~Assignable(o.layout.type, fa.indices)
        fixed  == [st EXCEPT !.off = @ + o.offset + FixedSize(o.layout)
                              + calign_to(al1, IF arrays = <<>> THEN o.al.align
                                               ELSE arrays[1].type.align),
                            !.got = @ \cup scalars, !.ok = @ /\ ~raised]
        GetArray(s, fa) ==
            FoldLeft(LAMBDA s2, k : PyDeserialize(fa.type, o.ties, calign(fa.type.align, 0),
                                                  o.path \o fa.indices \o <<k>>, s2, FALSE),
                     s, [k \in 1..LengthAt(scalars, o.path \o Front(fa.indices)) |-> k])
    IN  IF arrays = <<>> \/ raised THEN fixed
        ELSE [FoldLeft(GetArray, fixed, arrays) EXCEPT !.off = @ + ((o.al.align - @) % o.al.align)]

\* Bug: the tag is not counted.
PyFirstAfterMagic == MAGIC

\* Where the fields of a message begin for the reader (off = 10).
PyFirst == MAGIC + 2

\* define_message: serialize and _deserialize of a message class.
py_serialize(m, ties, v) ==
    LET body == PySerialize(m.type, ties, calign(8, 2), v,
                            PackBE(<<"START">>, MAGIC) \o PackBE(<<"tag", m.tag - 1>>, 2), TRUE)
    IN  body \o PackBE(<<"END">>, MAGIC)

\* The tests of the magic numbers and of the tag, when the fields have been read.
PyRead(m, buf, st) ==
    [ok |-> /\ UnpackBE(buf, 0, MAGIC) = <<"START">>
            /\ UnpackBE(buf, MAGIC, 2) = <<"tag", m.tag - 1>>
            /\ st.ok
            /\ st.off + MAGIC <= Len(buf)
            /\ UnpackBE(buf, st.off, MAGIC) = <<"END">>,
     got |-> st.got, off |-> st.off + MAGIC]
py_deserialize(m, ties, buf) ==
    PyRead(m, buf, PyDeserialize(m.type, ties, calign(8, 2), <<>>,
                       [buf |-> buf, start |-> 0, off |-> PyFirst, got |-> {}, ok |-> TRUE], TRUE))
==============================================================================
