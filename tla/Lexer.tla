-------------------------------- MODULE Lexer --------------------------------
(***************************************************************************)
(* The lexer of the schema compiler (ser/lexer.c).                         *)
(*                                                                         *)
(* A text is a sequence of pieces: a word (a letter followed by letters    *)
(* and digits), a digit, a punctuation mark, a blank, a line break, or     *)
(* something else.  Pieces of an identifier that touch are one lexeme.     *)
(* Positions count pieces; lines and columns serve the reports only.       *)
(* A step is a turn of the loop of lexer_lex, or what comes after it.      *)
(***************************************************************************)
EXTENDS Integers, SequencesExt, FiniteSetsExt

CONSTANT LitRange       \* one more than the largest number (2^64)

ASSUME LexerAssumption == LitRange \in Nat /\ LitRange > 10

VARIABLES
    text,
    lexed           \* the lexer: the next piece to read, the tokens and the errors

Newline == "newline"
Blank   == {" ", "tab", Newline, "return"}
Keyword == [messages |-> "Messages", struct |-> "Struct", version |-> "Version",
            const |-> "Const", type |-> "Type"]
Marks   == {"(", ")", "{", "}", "[", "]", ",", ";", "&", "^", ":", "=", "#"}
Mark(c) ==
    CASE c = "(" -> "LeftParen"   [] c = ")" -> "RightParen"   [] c = "{" -> "LeftBrace" [] c = "}" -> "RightBrace"
      [] c = "[" -> "LeftBracket" [] c = "]" -> "RightBracket" [] c = "," -> "Comma"     [] c = ";" -> "Semicolon"
      [] c = "&" -> "Ampersand"   [] c = "^" -> "Caret"        [] c = ":" -> "Colon"     [] c = "=" -> "Equal"
      [] c = "#" -> "Hash"
Digits  == {"0", "1", "2", "3", "4", "5", "6", "7", "8", "9"}
Digit   == [c \in Digits |-> CHOOSE n \in 0..9 : ToString(n) = c]
Strange == {"?", "_"}

is_digit(c)       == c \in Digits
is_ident_start(c) == c \notin Blank \cup Strange \cup {"/"} \cup Marks \cup Digits
is_ident(c)       == is_ident_start(c) \/ is_digit(c) \/ c = "_"

-----------------------------------------------------------------------------
lexer_init == [at |-> 1, tokens |-> <<>>, errors |-> <<>>]

\* The first place from i on where the text ends or holds no piece of the class In.
EndOf(i, In(_)) == Min({j \in i..(Len(text) + 1) : j > Len(text) \/ ~In(text[j])})

\* The token of the pieces from l.at up to, and not including, end.
token(l, end, type, lit) ==
    [type |-> type, at |-> l.at, len |-> end - l.at, lit |-> lit,
     lexeme |-> SubSeq(text, l.at, end - 1)]

lexer_add_token(l, end, type, lit) ==
    [l EXCEPT !.at = end, !.tokens = Append(@, token(l, end, type, lit))]

lexer_add_error(l, type, len) ==
    [l EXCEPT !.errors = Append(@, [type |-> type, at |-> l.at, len |-> len])]

\* Bug: a value that stays the same is taken for an overflow.
Digit_added_same(n, c) ==
    LET nlit == (n.lit * 10 + Digit[c]) % LitRange
    IN  [lit |-> nlit, overflow |-> n.overflow \/ nlit <= n.lit]
\* Overflow is noticed only when the wrapped value is smaller than the one before.
Digit_added(n, c) ==
    LET nlit == (n.lit * 10 + Digit[c]) % LitRange
    IN  [lit |-> nlit, overflow |-> n.overflow \/ nlit < n.lit]

lexer_scan_number(l) ==
    LET end == EndOf(l.at, is_digit)
        n   == FoldLeft(Digit_added, [lit |-> 0, overflow |-> FALSE], SubSeq(text, l.at, end - 1))
    IN  lexer_add_token(IF n.overflow THEN lexer_add_error(l, "overflow", end - l.at) ELSE l,
                        end, "Number", n.lit)

lexer_scan_ident(l) ==
    LET end  == EndOf(l.at, is_ident)
        word == text[l.at]
    IN  lexer_add_token(l, end,
                        IF end = l.at + 1 /\ word \in DOMAIN Keyword THEN Keyword[word] ELSE "Ident", 0)

\* Bug: an unexpected character joins the last error wherever that is.
Unexpected_anywhere(l) ==
    IF l.errors # <<>> /\ l.errors[Len(l.errors)].type = "unexpected"
    THEN [l EXCEPT !.errors[Len(l.errors)].len = @ + 1]
    ELSE lexer_add_error(l, "unexpected", 1)
\* An unexpected character joins the error it touches.
Unexpected(l) ==
    LET last == l.errors[Len(l.errors)]
    IN  IF /\ l.errors # <<>>
           /\ last.type = "unexpected" /\ last.at + last.len = l.at
        THEN [l EXCEPT !.errors[Len(l.errors)].len = @ + 1]
        ELSE lexer_add_error(l, "unexpected", 1)

\* Two slashes hide the rest of the line, one alone is passed over.
Comment(at) ==
    IF at <= Len(text) /\ text[at] = "/" THEN EndOf(at, LAMBDA c : c # Newline) ELSE at

\* A hash runs on into the case of the slash: its second slash may be the first of the text.
lexer_scan ==
    LET c    == text[lexed.at]
        next == lexed.at + 1
    IN  /\ lexed.at <= Len(text)
        /\ \/ c \in Marks /\ c # "#" /\ lexed' = lexer_add_token(lexed, next, Mark(c), 0)
           \/ c = "#" /\ lexed' = [lexer_add_token(lexed, next, Mark(c), 0) EXCEPT !.at = Comment(next)]
           \/ c = "/" /\ lexed' = [lexed EXCEPT !.at = Comment(next)]
           \/ c \in Blank /\ lexed' = [lexed EXCEPT !.at = next]
           \/ is_digit(c) /\ lexed' = lexer_scan_number(lexed)
           \/ is_ident_start(c) /\ lexed' = lexer_scan_ident(lexed)
           \/ c \in Strange /\ lexed' = [Unexpected(lexed) EXCEPT !.at = next]
        /\ UNCHANGED text

\* After the loop.
Finished == lexed.tokens # <<>> /\ Last(lexed.tokens).type = "Eof"
lexer_end ==
    /\ lexed.at > Len(text) /\ ~Finished
    /\ lexed' = lexer_add_token(lexed, lexed.at, "Eof", 0)
    /\ UNCHANGED text

LexInit == text \in Seq(STRING) /\ lexed = lexer_init
LexNext == lexer_scan \/ lexer_end
LexSpec == LexInit /\ [][LexNext]_<<text, lexed>>

-----------------------------------------------------------------------------
(***************************************************************************)
(* Properties                                                              *)
(***************************************************************************)
\* Where a comment starts: at two slashes, or at a slash after a hash.
CommentAt(j) ==
    text[j] = "/" /\ ((j < Len(text) /\ text[j + 1] = "/") \/ (j > 1 /\ text[j - 1] = "#"))
\* It hides the rest of the line.
Hidden(i) == \E j \in 1..i : CommentAt(j) /\ \A k \in j..i : text[k] # Newline

Unexpecteds  == {e \in Range(lexed.errors) : e.type = "unexpected"}
Covering(i)  == {x \in Range(lexed.tokens) \cup Unexpecteds : i \in x.at..(x.at + x.len - 1)}

\* The tokens and the errors about unexpected characters cover what is neither blank nor
\* hidden, each piece once (a slash that stands alone is ignored); a token's lexeme is what
\* it covers, and the pieces of one word are in one token.
Tiled ==
    Finished =>
        /\ \A i \in DOMAIN text :
              Cardinality(Covering(i)) = IF Hidden(i) \/ text[i] \in Blank \cup {"/"} THEN 0 ELSE 1
        /\ \A t \in Range(lexed.tokens) : t.lexeme = SubSeq(text, t.at, t.at + t.len - 1)
        /\ \A t, u \in Range(lexed.tokens) :
              t.len > 0 /\ u.len > 0 /\ u.at = t.at + t.len /\ is_ident_start(text[t.at])
                  => ~is_ident(text[u.at])

\* A number that can be represented has its value and is no error.
NumbersRead ==
    Finished =>
        LET Value(s) == FoldLeft(LAMBDA v, c : v * 10 + Digit[c], 0, s)
        IN  \A t \in Range(lexed.tokens) : t.type = "Number" /\ Value(t.lexeme) < LitRange =>
                /\ t.lit = Value(t.lexeme)
                /\ \A e \in Range(lexed.errors) : e.at # t.at
==============================================================================
