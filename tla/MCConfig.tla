------------------------------- MODULE MCConfig -------------------------------
(***************************************************************************)
(* All short texts, and documents for each of the adapters: lines of the   *)
(* fifo, configurations of the client and of the server, with members that *)
(* are missing, of the wrong type, refused by their conversion or unknown. *)
(***************************************************************************)
EXTENDS Config

Key(k) == S(k, 5)
Word   == S("abc", 3)
Long   == S("abcdefghi", 9)
Bad    == S("refused", 8)
Bads   == {Bad, S("refused1", 8), S("refused2", 8)}
Once   == [S("%", 7) EXCEPT !.esc = <<955>>]
Twice  == [S("%%", 1) EXCEPT !.esc = <<2, 955>>]
Wrong  == [S("%%", 1) EXCEPT !.esc = <<955, 2>>]

Pieces == { Mark(c) : c \in {"{", "}", "[", "]", ":", ",", "true", "null", "junk"} }
          \cup {Str(Word), Str(Once), Unquoted(Long), Num("1", "whole"), Num("0", "minus"), Num("2", "dot")}

\* Texts are read up to the end of their first value: only those that start with a
\* bracket are read any further than their second piece.
ShortTexts ==
    UNION {[1..n -> Pieces] : n \in 0..2}
    \cup { <<Mark(b)>> \o s : b \in {"[", "{"}, s \in UNION {[1..n -> Pieces] : n \in 2..4} }

Insertions == {Mark(","), Mark("]"), Mark("["), Mark("tru"), Mark("nul"), Num("1", "exp"), Unquoted(Word), Str(Twice), Str(Wrong)}

\* Members of an object in either order, some of them missing.
Some(members) ==
    { O(m) : m \in UNION { {s, Reverse(s)} :
                 s \in {SelectSeq(members, LAMBDA x : x \in T) : T \in SUBSET Range(members)} } }

Lines ==
    LET pair == A(<<N("255"), N("300")>>)
    IN  Some(<< <<Key("led_color"), Word>>, <<Key("rumble"), pair>>, <<Key("index"), N("1")>>,
                <<Key("flash"), A(<<N("7")>>)>> >>)
        \cup UNION { Some(<< <<Key("led_color"), bad>>, <<Key("rumble"), N("3")>>,
                 <<Key("index"), Null>>, <<Key("other"), O(<< <<Key("index"), N("9")>> >>)>> >>) :
                 bad \in Bads }
        \cup {A(<<O(<< <<Key("index"), N("1")>> >>)>>), N("1")}

Controllers ==
    Some(<< <<Key("tag"), Long>>, <<Key("vendor"), Word>>, <<Key("name"), Word>> >>)
    \cup {O(<< <<Key("tag"), A(<<Word>>)>>, <<Key("product"), Bad>>, <<Key("name"), Bad>> >>)}
Clients ==
    { O(<< <<Key("slots"), A(slots)>>, <<Key("fifo_path"), Word>> >>) :
          slots \in { <<>>, <<O(<<>>)>> } \cup
                    { << O(<< <<Key("controllers"), A(<<c, O(<<>>), c>>)>> >>), Word,
                         O(<< <<Key("controllers"), A(<<>>)>> >>) >> : c \in Controllers } }
    \cup {O(<< <<Key("retry_delay"), N("2")>>, <<Key("slots"), O(<<>>)>> >>)}

Filters ==
    Some(<< <<Key("uniq"), Word>>, <<Key("js"), B("true")>>, <<Key("name"), Long>> >>)
    \cup {N("1"), O(<< <<Key("vendor"), Bad>>, <<Key("duplicate"), B("true")>> >>)}
Servers ==
    { O(<< <<Key("controllers"), A(<< O(<< <<Key("filter"), f>>, <<Key("tag"), Word>>,
                <<Key("properties"), O(<< <<Key("duplicate"), B("false")>> >>)>> >>), O(<<>>) >>)>>,
           <<Key("request_timeout"), N("10")>> >>) : f \in Filters }

AllDocuments ==
    ({ControllerStateAdapter} \X Lines) \cup ({ClientConfigAdapter} \X Clients)
    \cup ({ServerConfigAdapter} \X Servers)

\* The documents, cut short anywhere, and with a piece less or one too many.
AllTexts ==
    ShortTexts \cup UNION { LET w == Written(d[2]) IN
        UNION { {SubSeq(w, 1, i - 1), RemoveAt(w, i)} \cup {InsertAt(w, i, p) : p \in Insertions}
                         : i \in DOMAIN w } : d \in AllDocuments }
===============================================================================
