-------------------------------- MODULE MCSer --------------------------------
(***************************************************************************)
(* All programs of up to four items out of pools that are about one thing  *)
(* each, the damaged texts of a program that has everything and of a small *)
(* one, and all short texts.                                               *)
(***************************************************************************)
EXTENDS Ser

Nb(d)      == [type |-> "Number", lit |-> Digit[d], lexeme |-> <<d>>]
Id(w)      == [type |-> "Ident", lit |-> 0, lexeme |-> <<w>>]
T(w)       == [tag |-> "Ident", name |-> <<w>>]
List(t)    == [tag |-> "HeapArray", size |-> [tag |-> "NoSize"], of |-> t]
HeapOf(t, n)  == [tag |-> "HeapArray", size |-> [tag |-> "FixedSize", value |-> n], of |-> t]
UpTo(t, n) == [tag |-> "FieldArray", size |-> [tag |-> "MaxSize", value |-> n], of |-> t]
Times(t, n) == [tag |-> "FieldArray", size |-> [tag |-> "FixedSize", value |-> n], of |-> t]

Const(w, v)  == [tag |-> "const", name |-> <<w>>, value |-> v]
Type(w, t)   == [tag |-> "type", name |-> <<w>>, value |-> t]
F(w, t)      == [name |-> <<w>>, type |-> t]
Struct(w, fs) == [tag |-> "struct", name |-> <<w>>, fields |-> fs]
Version(v)   == [tag |-> "version", version |-> v]
Msg(w, fs)   == [tag |-> "message", name |-> <<w>>, fields |-> fs]
Attr(w)      == [tag |-> "attribute", name |-> <<w>>]
Block(w, cs) == [tag |-> "messages", name |-> <<w>>, children |-> cs]

UpToItems(pool, n) == UNION {[1..k -> pool] : k \in 1..n}

\* Constants in chains and cycles, and where they are used.
ConstPool ==
    { Const("a", Nb("3")), Const("a", Id("b")), Const("b", Id("c")), Const("c", Id("b")), Const("c", Nb("7")),
      Const("b", Id("d")), Type("x", Times(T("u8"), Id("a"))), Version(Id("b")) }

\* Declarations of declarations and arrays.
DeclPool ==
    { Type("x", T("y")), Type("y", UpTo(T("x"), Nb("2"))), Type("y", T("u32")), Type("y", List(T("z"))),
      Type("z", T("y")), Type("z", T("w")), Struct("z", <<F("f", T("u16"))>>), Struct("x", <<>>) }

\* Structs that hold each other, in place or not.
StructPool ==
    { Struct("x", <<F("f", T("u8")), F("g", T("y"))>>), Struct("x", <<F("f", List(T("y")))>>),
      Struct("x", <<F("f", T("y")), F("f", T("u64"))>>),
      Struct("y", <<F("f", UpTo(T("z"), Nb("2")))>>), Struct("y", <<F("f", List(T("x"))), F("g", T("z"))>>),
      Struct("y", <<F("f", T("u32"))>>),
      Struct("z", <<F("f", HeapOf(T("x"), Nb("2")))>>), Struct("z", <<F("f", List(T("x"))), F("g", T("u64"))>>),
      Type("w", List(T("u16"))) }

MessagePool ==
    { Block("m", << Msg("p", <<F("f", T("u8"))>>), Attr("versioned"), Msg("q", <<>>), Msg("r", <<F("g", T("x"))>>) >>),
      Block("m", << Attr("versioned"), Msg("p", <<F("f", List(T("x"))), F("g", T("u32"))>>),
                    Attr("versioned"), Attr("versioned"), Msg("q", <<F("f", T("u8"))>>) >>),
      Block("n", << Msg("p", <<F("f", T("u8")), F("f", T("u8"))>>) >>),
      Block("n", << Msg("p", <<>>), Msg("p", <<>>) >>),
      Block("o", << Attr("other"), Msg("p", <<>>) >>), Block("o", <<>>),
      Version(Nb("1")), Version(Id("a")), Const("a", Nb("4")),
      Struct("x", <<F("f", T("u16"))>>) }

\* The order in which a struct and a declaration may refer to each other.
Mutual == << Struct("y", <<F("f", T("x")), F("g", T("u32"))>>), Type("x", List(T("y"))) >>

AllPrograms ==
    {Mutual} \cup UpToItems(ConstPool, 4) \cup UpToItems(DeclPool, 3) \cup UpToItems(StructPool, 4) \cup UpToItems(MessagePool, 3)

Everything ==
    << Const("a", Nb("3")), Version(Id("a")), Type("x", UpTo(T("u8"), Id("a"))),
       Struct("y", <<F("f", List(T("x"))), F("g", HeapOf(Times(T("u16"), Nb("2")), Nb("4")))>>),
       Block("m", << Attr("versioned"), Msg("p", <<F("f", T("y")), F("g", T("x"))>>), Msg("q", <<>>) >>) >>
Small == << Const("a", Nb("3")), Struct("y", <<F("f", T("u8"))>>) >>

DamagedPrograms == {Everything, Small}
Pieces == {"a", "const", "struct", "messages", "3", "5", "_", "?", "/", "#", ",", ";", "}", "{", "[", "]", "&", "^", " ", Newline}

\* Numbers around the largest one, too.
ShortTexts ==
    UNION {[1..n -> {"a", "struct", "5", "_", "?", "/", "#", " ", Newline}] : n \in 0..4}
    \cup UNION {[1..n -> {"0", "3", "4", "6", " "}] : n \in 1..4}

\* A type declaration that comes before the struct that refers to it.
Recursive ==
    UpToItems({Type("x", List(T("y"))), Struct("y", <<F("f", T("x"))>>), Struct("y", <<F("f", T("u8"))>>)}, 2)
==============================================================================
