-------------------------------- MODULE Config --------------------------------
(***************************************************************************)
(* A text goes through json_parse and, if it is a configuration or a line  *)
(* of the fifo, through the adapters of the client (client.c) or of the    *)
(* server (server.c).                                                      *)
(***************************************************************************)
EXTENDS Json

CONSTANTS
    Texts,      \* texts that are only parsed
    Caps,       \* sizes of the buffer, in cells
    Documents   \* <<adapter, value>>: values that are written out, parsed and adapted

\* Offsets and sizes in bytes, on x86-64.
ControllerStateAdapter ==
    << Color(<<"led_color">>, 6),
       Prop(<<"rumble", "0">>, "Number", 9, 1, 1), Prop(<<"rumble", "1">>, "Number", 10, 1, 1),
       Prop(<<"flash", "0">>, "Number", 11, 1, 1), Prop(<<"flash", "1">>, "Number", 12, 1, 1),
       Prop(<<"index">>, "Number", 4, 4, 4) >>

ControllerAdapter ==
    << Prop(<<"tag">>, "String", 0, 8, 8), Hex(<<"vendor">>, 8, 4),
       Hex(<<"product">>, 12, 4), Prop(<<"name">>, "String", 16, 8, 8) >>
SlotAdapter == << Sub(<<"controllers", "[]">>, "array", 0, ControllerAdapter) >>
ClientConfigAdapter ==
    << Sub(<<"slots", "[]">>, "array", 0, SlotAdapter),
       Prop(<<"fifo_path">>, "String", 16, 8, 8), Prop(<<"retry_delay">>, "Number", 24, 16, 16) >>

FilterAdapter ==
    << Hex(<<"uniq">>, 0, 8), Hex(<<"vendor">>, 8, 4),
       Hex(<<"product">>, 12, 4), Prop(<<"js">>, "Boolean", 16, 1, 1),
       Prop(<<"name">>, "String", 24, 8, 8) >>
ServerControllerAdapter ==
    << Sub(<<"filter">>, "struct", 0, FilterAdapter), Prop(<<"tag">>, "String", 32, 8, 8),
       Prop(<<"properties", "duplicate">>, "Boolean", 40, 1, 1),
       Prop(<<"properties", "ps4_hidraw">>, "Boolean", 41, 1, 1) >>
ServerConfigAdapter ==
    << Sub(<<"controllers", "[]">>, "array", 0, ServerControllerAdapter),
       Prop(<<"poll_interval">>, "Number", 16, 16, 16),
       Prop(<<"request_timeout">>, "Number", 32, 4, 4) >>

-----------------------------------------------------------------------------
(* Values, and how they are written *)

S(chars, size) == [t |-> "String", text |-> chars, size |-> size, esc |-> <<>>]
N(v)           == [t |-> "Number", v |-> v]
B(v)           == [t |-> "Boolean", v |-> v]
Null           == [t |-> "Null"]
A(items)       == [t |-> "Array", sub |-> items]
O(members)     == [t |-> "Object", sub |-> members]      \* each <<key, value>>

RECURSIVE Written(_)
Written(v) ==
    LET Commas(parts) == FoldLeft(LAMBDA w, p : IF w = <<>> THEN p ELSE w \o <<Mark(",")>> \o p,
                                  <<>>, parts)
    IN  CASE v.t = "String"  -> << Str(v) >>
          [] v.t = "Number"  -> << Num(v.v, "whole") >>
          [] v.t = "Boolean" -> << Mark(v.v) >>
          [] v.t = "Null"    -> << Mark("null") >>
          [] v.t = "Array"   ->
                <<Mark("[")>> \o Commas([i \in DOMAIN v.sub |-> Written(v.sub[i])]) \o <<Mark("]")>>
          [] v.t = "Object"  ->
                <<Mark("{")>>
                \o Commas([i \in DOMAIN v.sub |->
                              <<Str(v.sub[i][1]), Mark(":")>> \o Written(v.sub[i][2])])
                \o <<Mark("}")>>

ASSUME ConfigAssumption ==
    /\ \A t \in Texts : t \in Seq(Piece)
    /\ \A d \in Documents : Written(d[2]) \in Seq(Piece)
    /\ Caps \subseteq Nat

VARIABLES
    doc,        \* the document the text was written for, if it was
    mem         \* the struct the adapters have filled, by objects and bytes

vars == <<doc, mem, pvars>>

NoDoc == <<>>

Init ==
    /\ \/ doc = NoDoc /\ text \in Texts
       \/ \E d \in Documents : doc = d /\ text = Written(d[2])
    /\ cap \in Caps
    /\ ParseInit
    /\ mem = <<>>

json_parse == ParseNext /\ UNCHANGED <<doc, mem>>

\* A text that does not parse ends the program (configuration) or is skipped (fifo).
AdaptStep ==
    /\ Parsed /\ doc # NoDoc /\ mem = <<>>
    /\ mem' = json_adapt(doc[1])
    /\ UNCHANGED <<doc, pvars>>

Next == json_parse \/ AdaptStep

Spec == Init /\ [][Next]_vars

-----------------------------------------------------------------------------
(***************************************************************************)
(* Properties                                                              *)
(***************************************************************************)
\* Reads a buffer by its lengths alone: the values between two places of it.
RECURSIVE Decoded(_, _)
Decoded(from, end) ==
    IF from >= end THEN <<>>
    ELSE LET h    == dst[from]
             next == from + 1 + Cells(h.len)
             v    == CASE h.type = "String"  -> S(dst[from + 1].x, h.len)
                       [] h.type = "Number"  -> N(dst[from + 1].x)
                       [] h.type = "Boolean" -> B(dst[from + 1].x)
                       [] h.type = "Null"    -> Null
                       [] h.type = "Array"   -> A(Decoded(from + 1, next))
                       [] h.type = "Object"  ->
                             LET flat == Decoded(from + 1, next)
                             IN  O([i \in 1..(Len(flat) \div 2) |-> <<flat[2 * i - 1], flat[2 * i]>>])
         IN  <<v>> \o Decoded(next, end)

\* The text as a strict reader has to take it for the parser's answer to be right.
Tolerated(p) ==
    CASE p.c \in {"str", "unquoted"} ->
            Str([p EXCEPT !.esc = <<>>,
                          !.size = FoldLeft(LAMBDA n, cp : n + Utf8(cp), p.size, p.esc)])
      [] p.c = "num"      -> Num(p.v, "whole")
      [] OTHER            -> p

\* Whatever text is accepted, the buffer is what the text says: read by its lengths and
\* written out again it is the text, up to what follows its first value (and up to what
\* json.c tolerates, a key without its opening quote and a sign or an e without digits).
\* Strings with more than one \uXXXX are left out: they are not read as they are written.
AcceptedIsWritten ==
    Parsed /\ (\A p \in Range(text) : p.c = "str" => Len(p.esc) <= 1) =>
        LET d == Decoded(1, Len(dst) + 1)
        IN  /\ Len(d) = 1
            /\ IsPrefix(Written(d[1]), [i \in DOMAIN text |-> Tolerated(text[i])])

\* The cells a value takes.
RECURSIVE Needed(_)
Needed(v) ==
    CASE v.t = "String"             -> 1 + Cells(v.size)
      [] v.t \in {"Number", "Boolean"} -> 2
      [] v.t = "Null"               -> 1
      [] v.t = "Array"              -> FoldLeft(LAMBDA n, x : n + Needed(x), 1, v.sub)
      [] v.t = "Object"             -> FoldLeft(LAMBDA n, m : n + Needed(m[1]) + Needed(m[2]), 1, v.sub)

\* A document that fits is read, and one that does not is refused.
FitsOrRefused ==
    doc # NoDoc /\ pc = "done" =>
        err = IF Needed(doc[2]) < cap THEN "NoError" ELSE "DstOverflow"

\* The value a path leads to, if there is one.
RECURSIVE At(_, _)
At(v, path) ==
    IF path = <<>> THEN {v}
    ELSE IF Head(path) = "[]" THEN IF v.t = "Array" THEN {v} ELSE {}
    ELSE UNION { At(x, Tail(path)) :
             x \in IF v.t = "Object" THEN {m[2] : m \in {m \in Range(v.sub) : m[1].text = Head(path)}}
                   ELSE IF v.t = "Array"
                   THEN {v.sub[i] : i \in {i \in DOMAIN v.sub : ToString(i - 1) = Head(path)}}
                   ELSE {} }

Bytes(p) == LET size == IF p.type = "array" THEN 16 ELSE p.stored
            IN  p.offset..(p.offset + size - 1)
\* Bytes of a property that no other one of its struct writes, of those in others.
Own(p, others) == Bytes(p) \ UNION {Bytes(q) : q \in others \ {p}}

Content(v) == IF v.t = "String" THEN v.text ELSE v.v

\* What a property is: the value in the text; its default if there is none, or an array,
\* whose elements have a path of their own; of a string that its conversion refuses as
\* much as was stored before, and then the default.
RECURSIVE HoldsAt(_, _, _, _)
HoldsAt(props, v, obj, offset) ==
    \A p \in Range(props) :
        LET found  == At(v, p.path)
            right  == \A x \in found : p.type \in {x.t, "array", "struct"} \/ x.t = "Array"
        IN  CASE p.type = "struct" ->
                    HoldsAt(p.sub, IF found = {} THEN Null ELSE CHOOSE x \in found : TRUE,
                            obj, offset + p.offset)
              [] p.type = "array" ->
                    LET items == IF found = {} THEN <<>> ELSE (CHOOSE x \in found : TRUE).sub
                    IN  /\ mem[<<obj, offset + p.offset + 8>>] = <<ToString(Len(items)), 0>>
                        /\ \A i \in DOMAIN items :
                             HoldsAt(p.sub, items[i], obj \o <<p.path[1], ToString(i - 1)>>, 0)
              [] OTHER ->
                    LET given   == {Content(x) : x \in {x \in found : x.t # "Array"}}
                        value   == CHOOSE x \in given : TRUE
                        stored  == IF given = {} THEN 0 ELSE Converted(p, value)
                        written == {q \in Range(props) : At(v, q.path) # {}}
                    IN  right =>
                          /\ \A b \in Own(p, written) : b < p.offset + stored =>
                                mem[<<obj, offset + b>>] = <<value, b - p.offset>>
                          /\ \A b \in Own(p, Range(props)) : b >= p.offset + stored =>
                                mem[<<obj, offset + b>>] = <<"default", b - p.offset>>

\* After the adapters every property has the value the text gives it, in every slot,
\* controller and filter, or its default, where no other property writes over it.
AdaptedAsWritten ==
    mem # <<>> => HoldsAt(doc[1], doc[2], <<>>, 0)
===============================================================================
