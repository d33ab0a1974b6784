------------------------------ MODULE JsonParse ------------------------------
(***************************************************************************)
(* The JSON parser (json.c) with which both programs read their            *)
(* configuration and the client reads its fifo.                            *)
(*                                                                         *)
(* A text is a sequence of pieces: a bracket, comma or colon, a string, a  *)
(* number or a word; whitespace between them is left out.  json_parse      *)
(* writes cells of 8 bytes into a buffer: a header with a type and a       *)
(* length in bytes, then the contents.  A container's length is filled in  *)
(* when it ends.                                                           *)
(*                                                                         *)
(* stack has the calls of json_parse_array and json_parse_object that have *)
(* not returned: which one, and where its header is.  A step is what       *)
(* happens between two calls of json_parse_value or json_parse_string.     *)
(***************************************************************************)
EXTENDS Integers, Sequences, SequencesExt

\* Pieces.  A string is what it says (text) in so many bytes (size) besides those of the
\* characters esc that are written \uXXXX, in order; it may lack its opening quote.  A
\* number may end after its sign, its dot or its e.  "tru" and "nul" are words that start
\* like true or false and like null and go on differently; junk is anything else.
Mark(c)      == [c |-> c]
Str(s)       == [c |-> "str", text |-> s.text, size |-> s.size, esc |-> s.esc]
Unquoted(s)  == [Str(s) EXCEPT !.c = "unquoted"]
Num(v, form) == [c |-> "num", v |-> v, form |-> form]

\* What the four digits of a \uXXXX say.
CodeUnit == 0..65535

Piece ==
    [c : {"{", "}", "[", "]", ":", ",", "true", "false", "null",
          "tru", "nul", "junk"}]
    \cup [c : {"str", "unquoted"}, text : STRING, size : Nat, esc : Seq(CodeUnit)]
    \cup [c : {"num"}, v : STRING, form : {"whole", "minus", "dot", "exp"}]

VARIABLES
    text, cap,  \* what json_parse was called with; the size of the buffer is in cells
    at,         \* *buf
    dst,        \* what was written, up to *dst
    stack,      \* calls of json_parse_array and json_parse_object
    str,        \* json_parse_string: escapes read, un_codepoint, header->len, and
                \* whether a character is not what was written, or the string a key
    pc,         \* what is called or returned to
    err,        \* jerrno
    keys        \* history: the headers of keys

inputs == <<text, cap>>
pvars  == <<text, cap, at, dst, stack, str, pc, err, keys>>

Cells(bytes)    == (bytes + 7) \div 8
Header(t, len)  == [type |-> t, len |-> len]
Data(x, bytes)  == [i \in 1..Cells(bytes) |-> [type |-> "data", x |-> x]]

NoStr == [n |-> 0, cp |-> 0, size |-> 0, garbled |-> FALSE, key |-> FALSE]

ParseInit ==
    /\ at = 1
    /\ dst = <<>>
    /\ stack = <<>>
    /\ str = NoStr
    /\ pc = "value"
    /\ err = "NoError"
    /\ keys = {}

AtEnd   == at > Len(text)
Here    == text[at]
Skip    == at' = at + 1
Fail(e) == err' = e /\ pc' = "done"

\* Where a value returns to.
Returned(calls) == pc' = IF calls = <<>> THEN "done" ELSE "after"

\* Bug: the check only covers the header.
Room_header(bytes) == 8 * Len(dst) < 8 * cap
\* Bug: every value is taken to need a header more than it does.
Room_twice(bytes) == 8 * Len(dst) + bytes + 8 < 8 * cap
\* The space for what is about to be written is checked first, and has to leave a byte.
Room(bytes) == 8 * Len(dst) + bytes < 8 * cap

-----------------------------------------------------------------------------
(* json_parse_string *)

\* Bytes of a code point in UTF-8; none if there is no such code point.
Utf8(cp) == IF cp < 128 THEN 1 ELSE IF cp < 2048 THEN 2 ELSE IF cp < 65536 THEN 3
            ELSE IF cp <= 1114111 THEN 4 ELSE 0

\* un_codepoint is an int of 32 bits that every escape shifts its four digits into, and
\* that is never set back: the last two escapes are in it.
un_codepoint(before, cp) ==
    LET high == before % 65536
    IN  (IF high >= 32768 THEN high - 65536 ELSE high) * 65536 + cp

StringHere == IF AtEnd THEN FALSE ELSE Here.c \in {"str", "unquoted"}

\* The first character is skipped without a look at it: at the place of a key it may be
\* no quote.  Anything else there is a string without an end, or with the wrong one.
String(key) ==
    \/ /\ StringHere
       /\ Room(8 + Here.size)
       /\ dst' = Append(dst, Header("String", 0))
       /\ str' = [n |-> 0, cp |-> 0, size |-> Here.size, garbled |-> FALSE, key |-> key]
       /\ pc' = "string"
       /\ keys' = IF key THEN keys \cup {Len(dst) + 1} ELSE keys
       /\ UNCHANGED <<inputs, at, stack, err>>
    \/ /\ \/ ~Room(8)
          \/ StringHere /\ ~Room(8 + Here.size)
       /\ Fail("DstOverflow")
       /\ UNCHANGED <<inputs, at, dst, stack, str, keys>>
    \/ /\ Room(8)
       /\ ~StringHere
       /\ Fail(IF \E i \in at..Len(text) : text[i].c = "str" THEN "ObjectBadChar"
               ELSE "SrcOverflow")
       /\ UNCHANGED <<inputs, at, dst, stack, str, keys>>

\* A \uXXXX: its bytes, unless it is no code point or there is no room.
Escape ==
    /\ pc = "string"
    /\ str.n < Len(Here.esc)
    /\ LET written == Here.esc[str.n + 1]
           read == un_codepoint(str.cp, written)
       IN  \/ /\ Utf8(read) > 0
              /\ Room(str.size + Utf8(read))
              /\ str' = [str EXCEPT !.n = @ + 1, !.cp = read, !.size = @ + Utf8(read),
                                    !.garbled = @ \/ read # written]
              /\ UNCHANGED <<pc, err>>
           \/ /\ Utf8(read) = 0
              /\ Fail("StringBadUnicode")
              /\ UNCHANGED str
           \/ /\ Utf8(read) > 0
              /\ ~Room(str.size + Utf8(read))
              /\ Fail("DstOverflow")
              /\ UNCHANGED str
    /\ UNCHANGED <<inputs, at, dst, stack, keys>>

\* The closing quote: the contents are padded to whole cells.
StringEnd ==
    /\ pc = "string"
    /\ str.n = Len(Here.esc)
    /\ \/ /\ Room(8 * Cells(str.size))
          /\ dst' = [dst EXCEPT ![Len(dst)].len = str.size]
                    \o Data(IF str.garbled THEN "garbled" ELSE Here.text, str.size)
          /\ Skip
          /\ IF str.key THEN pc' = "colon" ELSE Returned(stack)
          /\ UNCHANGED err
       \/ /\ ~Room(8 * Cells(str.size))
          /\ Fail("DstOverflow")
          /\ UNCHANGED <<at, dst>>
    /\ UNCHANGED <<inputs, stack, str, keys>>

-----------------------------------------------------------------------------
(* json_parse_number, json_parse_boolean, json_parse_null *)

\* A sign or an e without digits is let through unless the text ends there.  The text may
\* be too short for the word that is expected.
Outcomes ==
    IF Here.c \in {"tru", "nul"}
    THEN {"BadKeyword"} \cup (IF at + 4 > Len(text) THEN {"SrcOverflow"} ELSE {})
    ELSE IF Here.c # "num" \/ Here.form = "whole" THEN {"NoError"}
    ELSE IF at = Len(text) THEN {"SrcOverflow"}
    ELSE IF Here.form = "dot" THEN {"NumberBadChar"}
    ELSE {"NoError"}

\* Bug: any boolean is stored as true.
Scalar_true ==
    CASE Here.c = "num"             -> <<Header("Number", 8)>> \o Data(Here.v, 8)
      [] Here.c \in {"null", "nul"} -> <<Header("Null", 0)>>
      [] OTHER                      -> <<Header("Boolean", 8)>> \o Data("true", 8)
Scalar ==
    CASE Here.c = "num"             -> <<Header("Number", 8)>> \o Data(Here.v, 8)
      [] Here.c \in {"null", "nul"} -> <<Header("Null", 0)>>
      [] OTHER                      -> <<Header("Boolean", 8)>> \o Data(Here.c, 8)

\* The header and the value are written before the text is read any further.
json_parse_scalar ==
    /\ pc = "value"
    /\ ~AtEnd /\ Here.c \in {"num", "true", "false", "null", "tru", "nul"}
    /\ \/ /\ ~Room(8 * Len(Scalar))
          /\ Fail("DstOverflow")
          /\ UNCHANGED <<at, dst>>
       \/ /\ Room(8 * Len(Scalar))
          /\ dst' = dst \o Scalar
          /\ Skip
          /\ \E e \in Outcomes :
                IF e = "NoError" THEN Returned(stack) /\ UNCHANGED err ELSE Fail(e)
    /\ UNCHANGED <<inputs, stack, str, keys>>

-----------------------------------------------------------------------------
(* json_parse_array, json_parse_object *)

Type(c)    == IF c = "[" THEN "Array" ELSE "Object"
Closing(t) == IF t = "Array" THEN "]" ELSE "}"
\* The top of the loop of an array or an object.
Turn(t)    == pc' = IF t = "Array" THEN "value" ELSE "key"

\* The header, and a look at whether it is empty.
json_parse_container ==
    /\ pc = "value"
    /\ ~AtEnd /\ Here.c \in {"[", "{"}
    /\ LET t == Type(Here.c)
       IN  \/ /\ ~Room(8)
              /\ Fail("DstOverflow")
              /\ UNCHANGED <<at, dst, stack>>
           \/ /\ Room(8)
              /\ dst' = Append(dst, Header(t, 0))
              /\ \/ /\ at = Len(text)
                    /\ Skip
                    /\ Fail("SrcOverflow")
                    /\ UNCHANGED stack
                 \/ /\ at < Len(text) /\ text[at + 1].c = Closing(t)
                    /\ at' = at + 2
                    /\ Returned(stack)
                    /\ UNCHANGED <<stack, err>>
                 \/ /\ at < Len(text) /\ text[at + 1].c # Closing(t)
                    /\ Skip
                    /\ stack' = Append(stack, [type |-> t, h |-> Len(dst) + 1])
                    /\ Turn(t)
                    /\ UNCHANGED err
    /\ UNCHANGED <<inputs, str, keys>>

json_parse_key == pc = "key" /\ String(TRUE)

Colon ==
    /\ pc = "colon"
    /\ \/ AtEnd /\ Fail("SrcOverflow") /\ UNCHANGED at
       \/ ~AtEnd /\ Here.c # ":" /\ Fail("ObjectBadChar") /\ UNCHANGED at
       \/ ~AtEnd /\ Here.c = ":" /\ Skip /\ pc' = "value" /\ UNCHANGED err
    /\ UNCHANGED <<inputs, dst, stack, str, keys>>

\* Bug: the header is counted.
Close_header(h) == [dst EXCEPT ![h].len = 8 * (Len(dst) - h + 1)]
\* The length of a container is known when it ends.
Close(h) == [dst EXCEPT ![h].len = 8 * (Len(dst) - h)]

\* A value of an array or an object is there: another one, or the end.
After ==
    /\ pc = "after"
    /\ LET top == Last(stack)
       IN  \/ /\ AtEnd
              /\ Fail("SrcOverflow")
              /\ UNCHANGED <<at, dst, stack>>
           \/ /\ ~AtEnd /\ Here.c = ","
              /\ Skip
              /\ Turn(top.type)
              /\ UNCHANGED <<dst, stack, err>>
           \/ /\ ~AtEnd /\ Here.c = Closing(top.type)
              /\ Skip
              /\ dst' = Close(top.h)
              /\ stack' = Front(stack)
              /\ Returned(stack')
              /\ UNCHANGED err
           \/ /\ ~AtEnd /\ Here.c \notin {",", Closing(top.type)}
              /\ Fail("BadChar")
              /\ UNCHANGED <<at, dst, stack>>
    /\ UNCHANGED <<inputs, str, keys>>

-----------------------------------------------------------------------------
(* json_parse_value *)

Quoted == pc = "value" /\ ~AtEnd /\ Here.c = "str" /\ String(FALSE)

NoValue ==
    /\ pc = "value"
    /\ \/ AtEnd /\ Fail("SrcOverflow")
       \/ /\ ~AtEnd /\ Here.c \in {"}", "]", ":", ",", "junk", "unquoted"}
          /\ Fail("BadChar")
    /\ UNCHANGED <<inputs, at, dst, stack, str, keys>>

\* What follows the value in the text is not looked at.
ParseNext ==
    \/ Quoted \/ Escape \/ StringEnd
    \/ json_parse_scalar \/ json_parse_container \/ NoValue
    \/ json_parse_key \/ Colon \/ After

ParseSpec ==
    /\ text \in Seq(Piece)
    /\ cap \in Nat
    /\ ParseInit
    /\ [][ParseNext]_pvars

-----------------------------------------------------------------------------
(* Properties *)

Container == {"Array", "Object"}
JError    == {"NoError", "DstOverflow", "SrcOverflow", "BadKeyword", "BadChar", "StringBadUnicode",
              "NumberBadChar", "ObjectBadChar"}

\* What a string or a number says, a boolean, or a string with a character that is not
\* what was written.
Contents == STRING \cup {"true", "false", "tru", "garbled"}

Cell == [type : {"String", "Number", "Boolean", "Null"} \cup Container, len : Nat]
        \cup [type : {"data"}, x : Contents]

\* Types of the parser's variables.
ParseTypeOK ==
    /\ text \in Seq(Piece) /\ cap \in Nat
    /\ at \in Nat \ {0}
    /\ dst \in Seq(Cell)
    /\ stack \in Seq([type : Container, h : Nat \ {0}])
    /\ str \in [n : Nat, cp : Int, size : Nat, garbled : BOOLEAN, key : BOOLEAN]
    /\ pc \in {"value", "key", "string", "colon", "after", "done"}
    /\ err \in JError
    /\ keys \subseteq DOMAIN dst

\* What json_parse is asked for and json_adapt relies on.
Parsed == pc = "done" /\ err = "NoError"

\* Whatever the text and the size of the buffer, nothing is written past the buffer, and
\* nothing is read past the text: what runs off its end is an error.
InBuffer ==
    /\ Len(dst) <= cap
    /\ pc = "string" => ~AtEnd /\ Room(str.size)
    /\ at <= Len(text) + 1

\* The cells of a buffer that are headers, and where the next one should be.
Heads(d)     == {i \in DOMAIN d : d[i].type # "data"}
NextOf(d, h) == h + 1 + Cells(d[h].len)

\* The buffer of an accepted text can be walked by its lengths alone, to any depth, as
\* json_adapt does: from a header the next one, or the end, is met; what starts inside a
\* container ends in it, nothing starts inside a scalar, and a container that is not empty
\* starts with a header; the members of an object are pairs of a key, which is a string,
\* and a value.
Walkable ==
    Parsed =>
        LET H == Heads(dst)
            Then(h) == NextOf(dst, h)
        IN  /\ 1 \in H /\ Then(1) = Len(dst) + 1
            /\ \A h \in H :
                  /\ Then(h) \in H \cup {Len(dst) + 1}
                  /\ dst[h].type \in Container /\ dst[h].len # 0 => h + 1 \in H
                  /\ dst[h].type = "Object" /\ dst[h].len # 0 => h + 1 \in keys
                  /\ \A g \in H : h < g /\ g < Then(h) =>
                        dst[h].type \in Container /\ Then(g) <= Then(h)
            /\ \A k \in keys :
                  /\ k \in H /\ dst[k].type = "String"
                  /\ Then(k) \in H \ keys
                  /\ \/ Then(Then(k)) \in keys
                     \/ \E h \in H : /\ h < k /\ dst[h].type = "Object"
                                     /\ Then(h) = Then(Then(k))
===============================================================================
