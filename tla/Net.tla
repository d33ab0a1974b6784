--------------------------------- MODULE Net ---------------------------------
(***************************************************************************)
(* The protocol of jsfw: the schema net.ser, and net.c, the C code that is *)
(* checked in beside it and compiled into the program.  net.c is given as  *)
(* a table of what its functions do: for each struct and message the       *)
(* scalars <<offset, bytes, indices>> that are stored and loaded, how far  *)
(* buf then moves, the arrays that follow with what is called for their    *)
(* elements, and the alignment of buf at the end.  The serialize and the   *)
(* deserialize function of each have the same table.                       *)
(***************************************************************************)
EXTENDS CodegenC

u8  == Prim(1)
u16 == Prim(2)
u32 == Prim(4)

Abs     == StructOf(<<u16, u32, u32, u32, u32, u32>>)     \* id min max fuzz flat res
Rel     == StructOf(<<u16>>)
Key     == StructOf(<<u16>>)
Tag     == StructOf(<<HeapArray(u8, 65535)>>)             \* name: char[]
TagList == StructOf(<<HeapArray(Tag, 65535)>>)

Info    == StructOf(<<u8, u8, MaxArray(Abs, 64), MaxArray(Rel, 16), MaxArray(Key, 768)>>)
Report  == StructOf(<<u8, u8, MaxArray(u32, 64), MaxArray(u32, 16), MaxArray(u8, 768)>>)
ControllerState == StructOf(<<u16, FixedArray(u8, 3), u8, u8, u8, u8>>)
Request == StructOf(<<HeapArray(TagList, 65535), Prim(8)>>)   \* requests _version
Destroy == StructOf(<<u16>>)

DeviceVersion == 1      \* version(1) of net.ser

\* messages Device of net.ser, tagged in order from 1 (DeviceTag of net.h).
DeviceMessages ==
    { [tag |-> 1, type |-> Info, versioned |-> FALSE],
      [tag |-> 2, type |-> Report, versioned |-> FALSE],
      [tag |-> 3, type |-> ControllerState, versioned |-> FALSE],
      [tag |-> 4, type |-> Request, versioned |-> TRUE],
      [tag |-> 5, type |-> Destroy, versioned |-> FALSE] }

Code(stores, size, arrays, align) ==
    [stores |-> stores, size |-> size, arrays |-> arrays, align |-> align]
Each(indices, heap, code) == [indices |-> indices, heap |-> heap, code |-> code]
Scalar(n) == Code(<< <<0, n, <<>>>> >>, n, <<>>, 1)

\* Bug: no padding after an Abs.
abs_code_unpadded ==
            Code(<< <<0, 4, <<2>>>>, <<4, 4, <<3>>>>, <<8, 4, <<4>>>>, <<12, 4, <<5>>>>,
                    <<16, 4, <<6>>>>, <<20, 2, <<1>>>> >>, 22, <<>>, 1)

abs_code == Code(<< <<0, 4, <<2>>>>, <<4, 4, <<3>>>>, <<8, 4, <<4>>>>, <<12, 4, <<5>>>>,
                    <<16, 4, <<6>>>>, <<20, 2, <<1>>>> >>, 24, <<>>, 1)
key_code == Code(<< <<0, 2, <<1>>>> >>, 2, <<>>, 1)
rel_code == key_code
tag_code == Code(<< <<0, 2, <<1, 0>>>> >>, 2, << Each(<<1, 1>>, TRUE, Scalar(1)) >>, 2)
tag_list_code ==
    Code(<< <<0, 2, <<1, 0>>>> >>, 2, << Each(<<1, 1>>, TRUE, tag_code) >>, 2)

\* The cases of msg_device_serialize and msg_device_deserialize, by tag.
DeviceHeader == << <<2, 2, <<5, 0>>>>, <<4, 1, <<1>>>>, <<5, 1, <<2>>>>,
                   <<6, 1, <<3, 0>>>>, <<7, 1, <<4, 0>>>> >>
DeviceCode ==
    << Code(DeviceHeader, 8, << Each(<<3, 1>>, FALSE, abs_code),
                                Each(<<4, 1>>, FALSE, rel_code),
                                Each(<<5, 1>>, FALSE, key_code) >>, 8),
       Code(DeviceHeader, 8, << Each(<<3, 1>>, FALSE, Scalar(4)),
                                Each(<<4, 1>>, FALSE, Scalar(4)),
                                Each(<<5, 1>>, FALSE, Scalar(1)) >>, 8),
       Code(<< <<2, 2, <<1>>>>, <<4, 1, <<2, 1>>>>, <<5, 1, <<2, 2>>>>, <<6, 1, <<2, 3>>>>,
               <<7, 1, <<3>>>>, <<8, 1, <<4>>>>, <<9, 1, <<5>>>>, <<10, 1, <<6>>>> >>,
            16, <<>>, 1),
       Code(<< <<8, 8, <<2>>>>, <<16, 2, <<1, 0>>>> >>, 18,
            << Each(<<1, 1>>, TRUE, tag_list_code) >>, 8),
       Code(<< <<2, 2, <<1>>>> >>, 8, <<>>, 1) >>

\* The part of a value a C expression names.
RECURSIVE Part(_, _)
Part(v, indices) ==
    IF indices = <<>> THEN v
    ELSE IF Head(indices) = 0 THEN <<"len", Len(v)>>
    ELSE Part(v[Head(indices)], Tail(indices))

\* One struct or message of net.c.
RECURSIVE NetSerialize(_, _, _)
NetSerialize(code, v, st) ==
    LET stored == FoldLeft(LAMBDA s, x : Store(s, st.pos + x[1], x[2], Part(v, x[3])),
                           st, code.stores)
        PutArray(s, a) == FoldLeft(LAMBDA s2, e : NetSerialize(a.code, e, s2),
                                   s, Part(v, Front(a.indices)))
        arrays == FoldLeft(PutArray, [stored EXCEPT !.pos = @ + code.size], code.arrays)
    IN  [arrays EXCEPT !.pos = AlignUp(st.base + @, code.align) - st.base]

RECURSIVE NetDeserialize(_, _, _)
NetDeserialize(code, path, st) ==
    LET loaded == {<<path \o x[3], LoadField(st, st.pos + x[1], x[2], x[3])>> :
                       x \in Range(code.stores)}
        GetArray(s, a) ==
            LET p  == path \o a.indices
                s1 == IF a.heap THEN [s EXCEPT !.blocks = Append(@, p)] ELSE s
            IN  FoldLeft(LAMBDA s2, k : NetDeserialize(a.code, Append(p, k), s2),
                         s1, [k \in 1..LengthAt(loaded, Front(p)) |-> k])
        arrays == FoldLeft(GetArray, [st EXCEPT !.pos = @ + code.size, !.got = @ \cup loaded],
                           code.arrays)
    IN  [arrays EXCEPT !.pos = AlignUp(st.base + @, code.align) - st.base]

msg_device_serialize(m, v, mem, len, base) ==
    Serialize(LAMBDA st : NetSerialize(DeviceCode[m.tag], v, st), m, mem, len, base)
msg_device_deserialize(mem, len, base, junk, held) ==
    Deserialize(LAMBDA m, st : NetDeserialize(DeviceCode[m.tag], <<>>, st),
                DeviceMessages, mem, len, base, DeviceVersion, junk, held)
==============================================================================
