-------------------------------- MODULE Parser --------------------------------
(***************************************************************************)
(* The parser of the schema compiler (ser/parser.c), a recursive descent   *)
(* that reports an error, skips and goes on.                               *)
(*                                                                         *)
(* A parser state p has the next token at, the errors, whether the         *)
(* production still holds (ok: what bubble returns on when it does not),   *)
(* what the production has gathered (got), and whether the parser has come *)
(* to a loop that never ends (hang).  A tree keeps the spans of its items  *)
(* only, as positions of tokens.                                           *)
(***************************************************************************)
EXTENDS Lexer

peek(ts, p)     == ts[p.at].type
previous(ts, p) == ts[p.at - 1]
check(ts, p, types) == peek(ts, p) \in types
skip_until(ts, p, types) ==
    [p EXCEPT !.at = Min({i \in p.at..Len(ts) : ts[i].type \in types \cup {"Eof"}})]

\* The end of the file is never passed: there the token is the one before.
advance(ts, p)  == IF peek(ts, p) = "Eof" THEN p ELSE [p EXCEPT !.at = @ + 1]

\* Bug: the production fails and nobody hears of it.
err_expected_quiet(p, at, types) == [p EXCEPT !.ok = FALSE]
err_expected(p, at, types) == [p EXCEPT !.ok = FALSE, !.errors = Append(@, [at |-> at, expected |-> types])]
Got(p, x)       == [p EXCEPT !.got = Append(@, x)]

consume(ts, p, type) ==
    IF check(ts, p, {type}) THEN advance(ts, p) ELSE err_expected(p, p.at, {type})

\* The token that was consumed, its name only.
Named(ts, p) == LET q == consume(ts, p, "Ident") IN IF q.ok THEN Got(q, previous(ts, q).lexeme) ELSE q

\* parse_number and parse_ident look at a token that they have already passed.
Passed(q, t, types, value) == IF t.type \in types THEN Got(q, value) ELSE err_expected(q, q.at - 1, types)
Taken(ts, p)  == previous(ts, advance(ts, p))
NumberOf(t)   == [type |-> t.type, lit |-> t.lit, lexeme |-> t.lexeme]
parse_number(ts, p) == Passed(advance(ts, p), Taken(ts, p), {"Number", "Ident"},
                              NumberOf(Taken(ts, p)))
parse_ident(ts, p)  == Passed(advance(ts, p), Taken(ts, p), {"Ident"},
                              [tag |-> "Ident", name |-> Taken(ts, p).lexeme])

\* The node that a production makes of its parts g.
Node(tag, g) ==
    CASE tag \in {"MaxSize", "FixedSize"} -> [tag |-> tag, value |-> g[1]]
      [] tag \in {"HeapArray", "FieldArray"} ->
            [tag |-> IF g[1].tag = "NoSize" THEN "HeapArray" ELSE tag, size |-> g[1]]
      [] tag = "field"                -> [name |-> g[1], type |-> g[2]]
      [] tag \in {"message", "struct"} -> [tag |-> tag, name |-> g[1], fields |-> g[2]]
      [] tag = "attribute"            -> [tag |-> tag, name |-> g[1]]
      [] tag = "messages"             -> [tag |-> tag, name |-> g[1], children |-> g[2]]
      [] tag = "version"              -> [tag |-> tag, version |-> g[1]]
      [] tag \in {"type", "const"}     -> [tag |-> tag, name |-> g[1], value |-> g[2]]

\* A production: its parts one after the other until one fails, and the node of them.
RECURSIVE Part(_, _, _), Parts(_, _, _)
Parts(ts, p, parts) ==
    IF ~p.ok \/ parts = <<>> THEN p ELSE Parts(ts, Part(ts, p, Head(parts)), Tail(parts))
Made(q, before, tag) == [q EXCEPT !.got = IF q.ok THEN Append(before, Node(tag, q.got)) ELSE before]
Production(ts, p, parts, tag) == Made(Parts(ts, [p EXCEPT !.got = <<>>], parts), p.got, tag)

parse_size(ts, p) ==
    IF check(ts, p, {"RightBracket"}) THEN Got(p, [tag |-> "NoSize"])
    ELSE IF check(ts, p, {"Caret"})
    THEN Production(ts, advance(ts, p), <<"number">>, "MaxSize")
    ELSE Production(ts, p, <<"number">>, "FixedSize")

\* The brackets after a type, the innermost first.  An array without a size is on the heap.
Bracket(ts, p) ==
    IF check(ts, p, {"Ampersand"})
    THEN Production(ts, advance(ts, p), <<"LeftBracket", "size", "RightBracket">>, "HeapArray")
    ELSE Production(ts, p, <<"LeftBracket", "size", "RightBracket">>, "FieldArray")
RECURSIVE Brackets(_, _, _)
Brackets(ts, p, type) ==
    IF ~check(ts, p, {"Ampersand", "LeftBracket"}) THEN Got(p, type)
    ELSE LET q == Bracket(ts, p)
         IN  IF q.ok THEN Brackets(ts, [q EXCEPT !.got = p.got], [of |-> type] @@ Last(q.got)) ELSE q

parse_type(ts, p) ==
    LET q == parse_ident(ts, p)
    IN  IF q.ok THEN Brackets(ts, [q EXCEPT !.got = p.got], Last(q.got)) ELSE q

parse_field(ts, p) == Production(ts, p, <<"name", "Colon", "type">>, "field")

\* The fields of a message or a struct: a bad one is skipped, and the loop goes on only
\* after a comma.
RECURSIVE Fields(_, _, _)
Fields(ts, p, fields) ==
    LET f     == parse_field(ts, p)
        q     == IF f.ok THEN [f EXCEPT !.got = p.got]
                 ELSE [skip_until(ts, f, {"Comma", "Ident", "RightBrace"}) EXCEPT !.ok = TRUE]
        found == IF f.ok THEN Append(fields, Last(f.got)) ELSE fields
    IN  IF check(ts, p, {"RightBrace"}) THEN Got(p, fields)
        ELSE IF check(ts, q, {"Comma"}) THEN Fields(ts, advance(ts, q), found)
        ELSE Got(q, found)

parse_message(ts, p) ==
    Production(ts, p, <<"name", "LeftBrace", "fields", "RightBrace">>, "message")

parse_attribute(ts, p) ==
    Production(ts, p, <<"Hash", "LeftBracket", "name", "RightBracket">>, "attribute")

parse_attribute_or_message(ts, p) ==
    IF check(ts, p, {"Hash"}) THEN parse_attribute(ts, p)
    ELSE IF check(ts, p, {"Ident"}) THEN parse_message(ts, p)
    ELSE err_expected(p, p.at, {"Hash", "Ident"})

\* The children of a messages block.  At the end of the file nothing matches, nothing is
\* skipped, and the loop adds errors for ever.
RECURSIVE Children(_, _, _)
Children(ts, p, children) ==
    LET c == parse_attribute_or_message(ts, p)
    IN  IF check(ts, p, {"RightBrace"}) THEN Got(advance(ts, p), children)
        ELSE IF check(ts, p, {"Eof"}) THEN [p EXCEPT !.ok = FALSE, !.hang = TRUE]
        ELSE IF c.ok THEN Children(ts, [c EXCEPT !.got = p.got], Append(children, Last(c.got)))
        ELSE Children(ts, [skip_until(ts, c, {"RightBrace", "Hash", "Ident"}) EXCEPT !.ok = TRUE], children)

Part(ts, p, part) ==
    CASE part = "name"     -> Named(ts, p)
      [] part = "number"   -> parse_number(ts, p)
      [] part = "size"     -> parse_size(ts, p)
      [] part = "type"     -> parse_type(ts, p)
      [] part = "fields"   -> Fields(ts, p, <<>>)
      [] part = "children" -> Children(ts, p, <<>>)
      [] OTHER             -> consume(ts, p, part)

parse_version(ts, p) ==
    Production(ts, p, <<"Version", "LeftParen", "number", "RightParen", "Semicolon">>, "version")
parse_struct(ts, p) ==
    Production(ts, p, <<"Struct", "name", "LeftBrace", "fields", "RightBrace">>, "struct")
parse_type_decl(ts, p) ==
    Production(ts, p, <<"Type", "name", "Equal", "type", "Semicolon">>, "type")
parse_messages(ts, p) ==
    Production(ts, p, <<"Messages", "name", "LeftBrace", "children">>, "messages")
parse_constant(ts, p) ==
    Production(ts, p, <<"Const", "name", "Equal", "number", "Semicolon">>, "const")

\* What starts no item is passed over without an error.
parse_item(ts, p) ==
    CASE check(ts, p, {"Version"})  -> parse_version(ts, p)
      [] check(ts, p, {"Struct"})   -> parse_struct(ts, p)
      [] check(ts, p, {"Type"})     -> parse_type_decl(ts, p)
      [] check(ts, p, {"Messages"}) -> parse_messages(ts, p)
      [] check(ts, p, {"Const"})    -> parse_constant(ts, p)
      [] OTHER                      -> [advance(ts, p) EXCEPT !.ok = FALSE]

ItemStart == {"Version", "Struct", "Type", "Messages", "Const"}

RECURSIVE parse_items(_, _, _)
parse_items(ts, p, items) ==
    LET q    == parse_item(ts, p)
        item == [node |-> Last(q.got), from |-> p.at, to |-> q.at - 1]
    IN  IF check(ts, p, {"Eof"}) \/ p.hang THEN [p EXCEPT !.got = items]
        ELSE IF q.ok THEN parse_items(ts, [q EXCEPT !.got = <<>>], Append(items, item))
        ELSE parse_items(ts, [skip_until(ts, q, ItemStart) EXCEPT !.ok = TRUE], items)

parse(ts) ==
    parse_items(ts, [at |-> 1, errors |-> <<>>, ok |-> TRUE, got |-> <<>>, hang |-> FALSE], <<>>)
===============================================================================
