--------------------------------- MODULE Json ---------------------------------
(***************************************************************************)
(* The adapters (json.c): json_adapt walks the buffer json_parse has       *)
(* filled and writes into C structs, byte by byte.                         *)
(***************************************************************************)
EXTENDS JsonParse, FiniteSets, TLC

\* A property of an adapter: where in the text (path; "[]" is any element), where in the
\* struct, how many bytes its default and its conversion write, and the conversion:
\* "copy", "hex" or "color"; "array" and "struct" properties have an adapter of their own.
Prop(path, type, offset, default, stored) ==
    [path |-> path, type |-> type, offset |-> offset, default |-> default,
     stored |-> stored, tsf |-> "copy", sub |-> <<>>]
Hex(path, offset, size) == [Prop(path, "String", offset, size, size) EXCEPT !.tsf = "hex"]
Color(path, offset)     == [Prop(path, "String", offset, 3, 3) EXCEPT !.tsf = "color"]
Sub(path, type, offset, sub) == [Prop(path, type, offset, 8, 8) EXCEPT !.sub = sub]

Store(mem, obj, offset, width, x) ==
    [b \in {<<obj, offset + i>> : i \in 0..(width - 1)} |-> <<x, b[2] - offset>>] @@ mem

RECURSIVE json_adapt_set_defaults(_, _, _, _)
json_adapt_set_defaults(mem, props, obj, offset) ==
    FoldLeft(LAMBDA m, p :
                 IF p.type = "struct" THEN json_adapt_set_defaults(m, p.sub, obj, offset + p.offset)
                 ELSE LET m1 == IF p.type = "array"
                                THEN Store(m, obj, offset + p.offset + 8, 8, "0") ELSE m
                      IN  Store(m1, obj, offset + p.offset, p.default, "default"),
             mem, props)

\* Bug: the string is stored all the same.
Convert_any(mem, obj, offset, p, cell) == Store(mem, obj, offset + p.offset, p.stored, cell.x)
\* Strings that are no hexadecimal number, and after how many of the components of a
\* color tsf_hex_to_color finds that out.
Refused == [refused |-> 0, refused1 |-> 1, refused2 |-> 2]

\* How many bytes a conversion writes.  A transformer that does not like its string
\* leaves what was there, but for the components of a color it has stored before.
Converted(p, x) ==
    IF p.tsf = "copy" \/ x \notin DOMAIN Refused THEN p.stored
    ELSE IF p.tsf = "color" THEN Refused[x] ELSE 0

Convert(mem, obj, offset, p, cell) ==
    Store(mem, obj, offset + p.offset, Converted(p, cell.x), cell.x)

RECURSIVE Adapt(_, _, _, _, _), Within(_, _, _, _, _, _, _, _)

\* json_adapt_priv: s has the place in the buffer and the memory; path is the way from
\* where the adapter props started.
Adapt(s, props, obj, offset, path) ==
    LET h    == dst[s.buf]
        here == IF h.type = "Array" THEN Append(path, "[]") ELSE path
        next == s.buf + 1 + Cells(h.len)
        m0   == IF path = <<>> THEN json_adapt_set_defaults(s.mem, props, obj, offset) ELSE s.mem

        \* One property that is asked for here.  A value of another type than it expects is
        \* not read: what is converted was never written.
        Found(m, p) ==
            CASE p.type = "array" /\ h.type = "Array" ->
                    LET RECURSIVE Each(_, _)
                        Each(e, i) ==
                            IF e.buf >= next THEN [e EXCEPT !.n = i]
                            ELSE LET r == Adapt(e, p.sub, obj \o <<p.path[1], ToString(i)>>, 0, <<>>)
                                 IN  Each([buf |-> r.buf, mem |-> r.mem, n |-> 0], i + 1)
                        all == Each([buf |-> s.buf + 1, mem |-> m, n |-> 0], 0)
                    IN  Store(Store(all.mem, obj, offset + p.offset, 8, "elements"),
                              obj, offset + p.offset + 8, 8, ToString(all.n))
              [] p.type = "struct" ->
                    Adapt([buf |-> s.buf, mem |-> m], p.sub, obj, offset + p.offset, <<>>).mem
              [] p.type = h.type -> Convert(m, obj, offset, p,
                                            IF h.len = 0 THEN [x |-> "empty"] ELSE dst[s.buf + 1])
              [] OTHER -> Store(m, obj, offset + p.offset, p.stored, "garbage")

        found == FoldLeft(Found, m0, SelectSeq(props, LAMBDA p : p.path = here))
    IN  IF h.type \in {"Array", "Object"}
        THEN Within([buf |-> s.buf + 1, mem |-> found], next, h.type, props, obj, offset,
                    path, 0)
        ELSE [buf |-> next, mem |-> found]

\* The elements of an array are at the path of their index, members at that of their key.
Within(s, end, kind, props, obj, offset, path, i) ==
    IF s.buf >= end THEN s
    ELSE LET key   == dst[s.buf]
             value == IF kind = "Object" THEN s.buf + 1 + Cells(key.len) ELSE s.buf
             step  == IF kind = "Object" THEN dst[s.buf + 1].x ELSE ToString(i)
         IN  Within(Adapt([s EXCEPT !.buf = value], props, obj, offset,
                               Append(path, step)),
                    end, kind, props, obj, offset, path, i + 1)

json_adapt(props) == Adapt([buf |-> 1, mem |-> <<>>], props, <<>>, 0, <<>>).mem
===============================================================================
