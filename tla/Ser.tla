--------------------------------- MODULE Ser ---------------------------------
(***************************************************************************)
(* The schema compiler (ser/main.c): a source is lexed, parsed, evaluated, *)
(* and its structs are put in the order in which the generators write them *)
(* (ser/codegen.c).  Each stage stops the compiler after its errors are    *)
(* reported.                                                               *)
(***************************************************************************)
EXTENDS Parser, Eval, Define

CONSTANTS
    Programs,       \* programs, as trees, that are compiled as they are
    Damaged,        \* programs that are compiled with one piece too many, or some missing
    Insertions,     \* the pieces that get into a damaged text
    Texts           \* other texts

VARIABLES
    program,        \* what the author had in mind; <<>> for other texts
    pc,             \* the next stage, or how the compiler ended
    parsed,         \* the result of the parser
    ctx             \* the evaluation context

defines == <<deps, left, defined>>
vars == <<program, text, pc, lexed, parsed, ctx, defines>>

-----------------------------------------------------------------------------
(***************************************************************************)
(* How a tree is written.                                                  *)
(***************************************************************************)
RECURSIVE TypePieces(_)
TypePieces(t) ==
    IF ~IsArray(t) THEN t.name
    ELSE TypePieces(t.of)
         \o (IF t.tag = "HeapArray" /\ t.size.tag # "NoSize" THEN <<"&">> ELSE <<>>)
         \o <<"[">> \o (IF t.size.tag = "MaxSize" THEN <<"^">> ELSE <<>>)
         \o (IF t.size.tag = "NoSize" THEN <<>> ELSE t.size.value.lexeme) \o <<"]">>

FieldPieces(fields) ==
    <<"{">> \o FlattenSeq([i \in DOMAIN fields |->
                  (IF i > 1 THEN <<",">> ELSE <<>>) \o fields[i].name \o <<":">> \o TypePieces(fields[i].type)])
            \o <<"}">>

NodePieces(n) ==
    CASE n.tag = "const"     -> <<"const", " ">> \o n.name \o <<"=">> \o n.value.lexeme \o <<";">>
      [] n.tag = "type"      -> <<"type", " ">> \o n.name \o <<"=">> \o TypePieces(n.value) \o <<";">>
      [] n.tag = "version"   -> <<"version", "(">> \o n.version.lexeme \o <<")", ";">>
      [] n.tag = "struct"    -> <<"struct", " ">> \o n.name \o FieldPieces(n.fields)
      [] n.tag = "attribute" -> <<"#", "[">> \o n.name \o <<"]">>
      [] n.tag = "message"   -> n.name \o FieldPieces(n.fields)
      [] n.tag = "messages"  ->
            <<"messages", " ">> \o n.name \o <<"{">>
            \o FlattenSeq([i \in DOMAIN n.children |->
                   LET c == n.children[i]
                   IN  IF c.tag = "attribute" THEN <<"#", "[">> \o c.name \o <<"]">>
                       ELSE c.name \o FieldPieces(c.fields)])
            \o <<"}">>

Written(tree) == FlattenSeq([i \in DOMAIN tree |-> NodePieces(tree[i]) \o <<Newline>>])

Damage(t) ==
    UNION { { SubSeq(t, 1, i),                                          \* cut off
              SubSeq(t, 1, i) \o SubSeq(t, i + 2, Len(t)) }             \* one piece missing
            \cup { SubSeq(t, 1, i) \o <<x>> \o SubSeq(t, i + 1, Len(t)) : x \in Insertions }
          : i \in 0..Len(t) }

-----------------------------------------------------------------------------
Init ==
    /\ \/ program \in Programs /\ text = Written(program)
       \/ program = <<>> /\ \E p \in Damaged : text \in Damage(Written(p))
       \/ program = <<>> /\ text \in Texts
    /\ pc = "lex"
    /\ lexed = lexer_init /\ parsed = <<>> /\ ctx = <<>>
    /\ deps = <<>> /\ left = {} /\ defined = <<>>

Lex ==
    /\ pc = "lex" /\ lexer_scan
    /\ UNCHANGED <<program, pc, parsed, ctx, defines>>

LexEnd ==
    /\ pc = "lex" /\ lexer_end
    /\ pc' = IF lexed'.errors # <<>> THEN "aborted" ELSE "parse"
    /\ UNCHANGED <<program, parsed, ctx, defines>>

\* The tree is resolved in place; its spans are not needed any more.
Tree == [i \in DOMAIN parsed.got |-> parsed.got[i].node]

Parse ==
    /\ pc = "parse"
    /\ parsed' = parse(lexed.tokens)
    /\ pc' = CASE parsed'.hang -> "hung"
               [] parsed'.errors # <<>> -> "aborted"
               [] OTHER -> "statics"
    /\ UNCHANGED <<program, text, lexed, ctx, defines>>

\* The stages of resolve_statics, one after the other.
Resolve(at, Stage(_), next) ==
    /\ pc = at
    /\ ctx' = Stage(ctx)
    /\ pc' = IF ctx'.lost THEN "lost" ELSE next
    /\ UNCHANGED <<program, text, lexed, parsed, defines>>

Statics    == Resolve("statics", LAMBDA c : resolve_statics(Tree), "constants")
Constants  == Resolve("constants", resolve_constants, "types")
Types      == Resolve("types", resolve_types, "messages")
Messages   == Resolve("messages", resolve_messages, "additional")
Additional == Resolve("additional", resolve_additional_type_info, "report")

Report ==
    /\ pc = "report"
    /\ pc' = IF ctx.errors # <<>> THEN "aborted" ELSE "generate"
    /\ UNCHANGED <<program, text, lexed, parsed, ctx, defines>>

\* Bug: what is in an array of the struct is not looked at.
Direct_plain(objects, r) == r
\* What has to be defined before a struct with a field of this type.
RECURSIVE Direct(_, _)
Direct(objects, r) ==
    IF IsObj(r) /\ objects[r.obj].kind = "array" /\ ~objects[r.obj].heap
    THEN Direct(objects, objects[r.obj].sub[1]) ELSE r

\* define_structs: the structs and what they depend on ...
Generate ==
    LET structs == {k \in DOMAIN ctx.objects :
                       ctx.objects[k].kind = "struct" /\ ToObj(k) \in Range(ctx.typedefs)}
        Needed(k) == {Direct(ctx.objects, r) : r \in Range(ctx.objects[k].sub)}
    IN  /\ pc = "generate"
        /\ deps' = [k \in structs |-> {d \in structs : ToObj(d) \in Needed(k)}]
        /\ left' = structs /\ defined' = <<>>
        /\ pc' = "define"
        /\ UNCHANGED <<program, text, lexed, parsed, ctx>>

\* ... and the passes, up to the one that defines nothing.
DefineSome == pc = "define" /\ Pass /\ UNCHANGED <<program, text, pc, lexed, parsed, ctx>>

Defined ==
    /\ pc = "define" /\ to_define = {}
    /\ pc' = "done"
    /\ UNCHANGED <<program, text, lexed, parsed, ctx, defines>>

Next == Lex \/ LexEnd \/ Parse \/ Statics \/ Constants \/ Types \/ Messages \/ Additional \/ Report
        \/ Generate \/ DefineSome \/ Defined

Spec == Init /\ [][Next]_vars

-----------------------------------------------------------------------------
(***************************************************************************)
(* A property of the parser                                                *)
(***************************************************************************)
\* A tree accepted by the parser is the text: an item has the tokens of its span and no
\* others, up to a comma after the last field and an & before []; the tokens outside of all items, which the
\* parser passes over, start none; and a program that is not damaged is read as meant.
ParsedAsWritten ==
    parsed # <<>> =>
        LET ts == lexed.tokens
            Span(it) == FlattenSeq([i \in 1..(it.to - it.from + 1) |-> ts[it.from + i - 1].lexeme])
            Bare(s) == SelectSeq(s, LAMBDA c : c \notin {" ", ",", "&"})
        IN  /\ program # <<>> => pc # "hung" /\ parsed.errors = <<>> /\ Tree = program
            /\ parsed.errors = <<>> /\ pc # "hung" =>
                  /\ \A it \in Range(parsed.got) : Bare(Span(it)) = Bare(NodePieces(it.node))
                  /\ \A i \in DOMAIN ts : ts[i].type \in ItemStart =>
                        \E it \in Range(parsed.got) : i = it.from

-----------------------------------------------------------------------------
(***************************************************************************)
(* What a program means, without the order in which it is evaluated.       *)
(***************************************************************************)
Nodes(tags)  == {n \in Range(Tree) : n.tag \in tags}
Names(tags)  == {n.name : n \in Nodes(tags)}
Prims        == {<<w>> : w \in DOMAIN PRIMITIF}
AllFields    == {n.fields : n \in Nodes({"struct"})}
                \cup {c.fields : c \in {d \in UNION {Range(n.children) : n \in Nodes({"messages"})} : d.tag = "message"}}
AllTypes     == {n.value : n \in Nodes({"type"})} \cup {f.type : f \in UNION {Range(fs) : fs \in AllFields}}

RECURSIVE Sizes(_)
Sizes(t) == IF ~IsArray(t) THEN {} ELSE Sizes(t.of) \cup (IF t.size.tag = "NoSize" THEN {} ELSE {t.size.value})
AllNumbers   == UNION {Sizes(t) : t \in AllTypes} \cup {n.version : n \in Nodes({"version"})}
                \cup {n.value : n \in Nodes({"const"})}

OnceEach(s)  == \A i, j \in DOMAIN s : s[i].name = s[j].name => i = j
Of(s, tags)  == SelectSeq(s, LAMBDA n : n.tag \in tags)

\* What can be reached from S along the pairs of R.
RECURSIVE Reach(_, _)
Reach(R, S) == LET next == {e[2] : e \in {d \in R : d[1] \in S}}
               IN  IF next \subseteq S THEN S ELSE Reach(R, S \cup next)
Acyclic(R)  == \A e \in R : e[1] \notin Reach(R, {e[2]})

\* The names a type holds in place: not those behind an array on the heap whose size varies.
RECURSIVE Holds(_)
Holds(t) == IF ~IsArray(t) THEN {t.name}
            ELSE IF t.tag = "HeapArray" /\ t.size.tag # "FixedSize" THEN {} ELSE Holds(t.of)

\* The names a type holds in the struct itself.
RECURSIVE Held(_)
Held(t) == IF ~IsArray(t) THEN {t.name} ELSE IF t.tag = "HeapArray" THEN {} ELSE Held(t.of)

WellFormed ==
    /\ OnceEach(Of(Tree, {"const"})) /\ OnceEach(Of(Tree, {"type", "struct"})) /\ OnceEach(Of(Tree, {"messages"}))
    /\ \A n \in Nodes({"messages"}) : OnceEach(Of(n.children, {"message"}))
    /\ \A n \in Nodes({"messages"}) : \A c \in Range(n.children) : c.tag = "attribute" => c.name = <<"versioned">>
    /\ \A fs \in AllFields : OnceEach(fs)
    /\ \A n \in Nodes({"struct"}) : n.fields # <<>>
    /\ \A x \in AllNumbers : x.type = "Ident" => x.lexeme \in Names({"const"})
    /\ \A t \in AllTypes : Element(t) \in Names({"type", "struct"}) \cup Prims
    /\ Acyclic({<<n.name, n.value.lexeme>> : n \in Nodes({"const"})})
    /\ Acyclic({<<n.name, Element(n.value)>> : n \in Nodes({"type"})})
    /\ Acyclic(UNION {{n.name} \X Holds(n.value) : n \in Nodes({"type"})}
               \cup UNION {{n.name} \X UNION {Holds(f.type) : f \in Range(n.fields)} : n \in Nodes({"struct"})})

\* The number a constant stands for.
RECURSIVE Means(_)
Means(x) == IF x.type = "Number" THEN x.lit
            ELSE Means((CHOOSE n \in Nodes({"const"}) : n.name = x.lexeme).value)

-----------------------------------------------------------------------------
(***************************************************************************)
(* Properties of the evaluation                                            *)
(***************************************************************************)
Accepted == pc \in {"report", "generate", "define", "done"} /\ ctx.errors = <<>>

\* A program gets as far as the generators if and only if it is well formed: names are
\* known and defined once, nothing is defined by itself, no struct holds itself.  (One that
\* is not may also end the compiler before its errors are reported: resolve_alignment and
\* add_fields do not expect it.)
Judged ==
    /\ Accepted => WellFormed
    /\ pc = "aborted" /\ ctx # <<>> => ~WellFormed
    /\ pc = "lost" => ~WellFormed

\* What eval.c says where types are resolved, "this accepts recursive types": without an
\* error, every field and every element has its type.
TypesResolved ==
    ctx # <<>> /\ ctx.errors = <<>> =>
        /\ ~ctx.lost
        /\ pc \notin {"constants", "types"} =>
              \A o \in Range(ctx.objects) : NULL \notin Range(o.sub)

\* An accepted program's blocks of messages have the version that was written for them,
\* their messages the attributes, and array sizes and versions the value of the constant
\* they name, wherever it is defined.
Meant ==
    Accepted =>
        LET at == SetToSortSeq({i \in DOMAIN Tree : Tree[i].tag = "messages"}, <)
            \* what last came before i and after the one before it
            Since(s, tags, i, until) ==
                {j \in 1..(i - 1) : s[j].tag \in tags /\ \A k \in j..(i - 1) : s[k].tag # until}
        IN  /\ Len(ctx.messages) = Len(at)
            /\ \A m \in DOMAIN at :
                  LET vs == Since(Tree, {"version"}, at[m], "messages")
                      cs == Tree[at[m]].children
                      ms == SetToSortSeq({i \in DOMAIN cs : cs[i].tag = "message"}, <)
                  IN  /\ ctx.messages[m].version = IF vs = {} THEN NoVersion ELSE Means(Tree[Max(vs)].version)
                      /\ Len(ctx.messages[m].messages) = Len(ms)
                      /\ \A i \in DOMAIN ms :
                            ctx.messages[m].messages[i].versioned = (Since(cs, {"attribute"}, ms[i], "message") # {})
            /\ {o.size : o \in {p \in Range(ctx.objects) : p.kind = "array"}}
                   \subseteq {HeapMax} \cup {Means(x) : x \in AllNumbers}
            /\ \A n \in Names({"const"}) :
                  ctx.constants[n] = [value |-> Means([type |-> "Ident", lexeme |-> n]), valid |-> TRUE]

\* The alignment of a type is the strictest one of all that can be reached from it,
\* recursive types included.
Strictest ==
    Accepted =>
        LET os == ctx.objects
            R  == {e \in (DOMAIN os) \X (DOMAIN os) : ToObj(e[2]) \in Range(os[e[1]].sub)}
        IN  \A k \in DOMAIN os :
                os[k].align = Max(UNION { {OwnAlign(os[j])} \cup {PRIMITIF[r.prim] : r \in {q \in Range(os[j].sub) : ~IsObj(q)}}
                                          : j \in Reach(R, {k}) })

\* Every struct of an accepted program is defined, once, and after the structs it holds: in
\* fields, in arrays of the struct, and by way of declarations.  (The map that is emptied
\* on the way is taken to be one: Hashmap says when it is.)
DefinedInOrder ==
    pc = "done" =>
        LET R == UNION {{n.name} \X Held(n.value) : n \in Nodes({"type"})}
                 \cup UNION {{n.name} \X UNION {Held(f.type) : f \in Range(n.fields)} : n \in Nodes({"struct"})}
            Place(n) == {i \in DOMAIN defined : ToObj(defined[i]) = ctx.typedefs[n]}
        IN  \A n \in Names({"struct"}) :
                /\ Cardinality(Place(n)) = 1
                /\ \A m \in Names({"struct"}) \cap Reach(R, {e[2] : e \in {d \in R : d[1] = n}}) :
                      Max(Place(m)) < Max(Place(n))
==============================================================================
