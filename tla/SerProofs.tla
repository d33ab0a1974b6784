------------------------------ MODULE SerProofs ------------------------------
(***************************************************************************)
(* Proofs about the schema compiler: the lexer (module Lexer), for every   *)
(* text, and the order of the definitions (module Define), for every       *)
(* program.                                                                *)
(*                                                                         *)
(* The lexer: the tokens and the errors tile the text.                     *)
(* What has been read is tiled, and what has not been read is no part of a *)
(* comment that has been entered: a comment starts at the second of two    *)
(* pieces, so the lexer must never stop between them.                      *)
(***************************************************************************)
EXTENDS Lexer, Define, SetLemmas, FiniteSetTheorems, SequenceTheorems

N == Len(text)

Silent(i) == Hidden(i) \/ text[i] \in Blank \cup {"/"}

Error == [type : {"overflow", "unexpected"}, at : Nat, len : Nat]

LexTypes ==
    /\ text \in Seq(STRING)
    /\ lexed \in [at     : 1..(N + 1),
                  tokens : Seq(Range(lexed.tokens)),
                  errors : Seq(Error)]
    /\ \A t \in Range(lexed.tokens) : t.at \in Nat /\ t.len \in Nat /\ t.type # "unexpected"

Items == Range(lexed.tokens) \cup Unexpecteds

\* Errors about unexpected characters are in the order of their places.
InOrder(es) ==
    /\ \A p, q \in DOMAIN es :
          p < q /\ es[p].type = "unexpected" /\ es[q].type = "unexpected"
              => es[p].at + es[p].len <= es[q].at
    /\ \A p \in DOMAIN es : es[p].type = "unexpected" => es[p].len > 0

\* Everything found lies in what has been read.
Behind == \A x \in Items : 1 <= x.at /\ x.at + x.len <= lexed.at

Covered(i) == IF Silent(i) THEN Covering(i) = {} ELSE \E x \in Items : Covering(i) = {x}

\* No comment reaches from what is before a into a, and none starts there.
Outside(a) ==
    a <= N =>
        /\ \A j \in 1..(a - 1) : CommentAt(j) => \E k \in j..a : text[k] = Newline
        /\ a > 1 /\ text[a] = "/" => text[a - 1] # "#"

Worded(t) ==
    /\ t.lexeme = SubSeq(text, t.at, t.at + t.len - 1)
    /\ t.len > 0 /\ t.at + t.len <= N /\ is_ident_start(text[t.at]) => ~is_ident(text[t.at + t.len])

LexInv ==
    /\ LexTypes
    /\ Behind
    /\ InOrder(lexed.errors)
    /\ \A i \in 1..(lexed.at - 1) : Covered(i)
    /\ Outside(lexed.at)
    /\ \A t \in Range(lexed.tokens) : Worded(t)
    /\ Finished => lexed.at > N

-----------------------------------------------------------------------------
(***************************************************************************)
(* The classes of pieces                                                   *)
(***************************************************************************)
\* Nothing that is a mark, a part of a word or strange is blank or a slash, and words have
\* no marks in them.
LEMMA Classes ==
    ASSUME NEW c
    PROVE  /\ c \in Marks => c \notin Blank \cup {"/"} /\ ~is_ident_start(c)
           /\ is_digit(c) => is_ident(c) /\ ~is_ident_start(c)
           /\ is_ident_start(c) => is_ident(c)
           /\ is_ident(c) => c \notin Blank \cup {"/", "#"}
           /\ c \in Strange => c \notin Blank \cup {"/", "#"} /\ ~is_ident_start(c)
<1>1. c \in Marks => c \notin Blank \cup {"/"} /\ ~is_ident_start(c)
  BY DEF Marks, Blank, Newline, is_ident_start
<1>2. is_digit(c) => is_ident(c) /\ ~is_ident_start(c) /\ c \notin Blank \cup {"/", "#"}
  BY DEF Digits, is_digit, is_ident, is_ident_start, Blank, Newline
<1>3. is_ident_start(c) => is_ident(c) /\ c \notin Blank \cup {"/", "#"}
  BY DEF Marks, is_ident, is_ident_start
<1>4. c \in Strange => c \notin Blank \cup {"/", "#"} /\ ~is_ident_start(c)
  BY DEF Strange, Blank, Newline, is_ident_start
<1>5. "_" \notin Blank \cup {"/", "#"}
  BY DEF Blank, Newline
<1> QED
  BY <1>1, <1>2, <1>3, <1>4, <1>5 DEF is_ident

-----------------------------------------------------------------------------
(***************************************************************************)
(* Where a lexeme and a comment end                                        *)
(***************************************************************************)
LEMMA DigitsEnd ==
    ASSUME N \in Nat, NEW i \in 1..N, is_digit(text[i])
    PROVE  LET e == EndOf(i, is_digit)
           IN  e \in (i + 1)..(N + 1) /\ \A k \in i..(e - 1) : is_digit(text[k])
<1> DEFINE S == {j \in i..(N + 1) : j > N \/ ~is_digit(text[j])}
<1>1. S \in SUBSET Nat /\ N + 1 \in S /\ i \notin S
  OBVIOUS
<1>2. Min(S) \in S /\ \A y \in S : Min(S) <= y
  BY <1>1, MinIsLeast
<1>3. EndOf(i, is_digit) = Min(S)
  BY DEF EndOf, N
<1> HIDE DEF S
<1>4. Min(S) \in (i + 1)..(N + 1)
  BY <1>1, <1>2 DEF S
<1>5. \A k \in i..(Min(S) - 1) : k \notin S /\ k \in i..(N + 1) /\ k <= N
  BY <1>2, <1>4
<1>6. \A k \in i..(Min(S) - 1) : is_digit(text[k])
  BY <1>5 DEF S
<1> QED
  BY <1>3, <1>4, <1>6

LEMMA WordEnd ==
    ASSUME N \in Nat, NEW i \in 1..N, is_ident(text[i])
    PROVE  LET e == EndOf(i, is_ident)
           IN  /\ e \in (i + 1)..(N + 1)
               /\ \A k \in i..(e - 1) : is_ident(text[k])
               /\ e <= N => ~is_ident(text[e])
<1> DEFINE S == {j \in i..(N + 1) : j > N \/ ~is_ident(text[j])}
<1>1. S \in SUBSET Nat /\ N + 1 \in S /\ i \notin S
  OBVIOUS
<1>2. Min(S) \in S /\ \A y \in S : Min(S) <= y
  BY <1>1, MinIsLeast
<1>3. EndOf(i, is_ident) = Min(S)
  BY DEF EndOf, N
<1>7. Min(S) <= N => ~is_ident(text[Min(S)])
  BY <1>2
<1> HIDE DEF S
<1>4. Min(S) \in (i + 1)..(N + 1)
  BY <1>1, <1>2 DEF S
<1>5. \A k \in i..(Min(S) - 1) : k \notin S /\ k \in i..(N + 1) /\ k <= N
  BY <1>2, <1>4
<1>6. \A k \in i..(Min(S) - 1) : is_ident(text[k])
  BY <1>5 DEF S
<1> QED
  BY <1>3, <1>4, <1>6, <1>7

\* A comment goes on to the end of its line, and nothing of it is left there.
LEMMA CommentEnd ==
    ASSUME N \in Nat, NEW i \in 1..N, text[i] = "/"
    PROVE  /\ Comment(i) \in (i + 1)..(N + 1)
           /\ \A k \in i..(Comment(i) - 1) : text[k] # Newline
           /\ Outside(Comment(i))
<1> DEFINE S == {j \in i..(N + 1) : j > N \/ ~(text[j] # Newline)}
<1>1. S \in SUBSET Nat /\ N + 1 \in S /\ i \notin S
  BY DEF Newline
<1>2. Min(S) \in S /\ \A y \in S : Min(S) <= y
  BY <1>1, MinIsLeast
<1>3. Comment(i) = Min(S)
  BY DEF EndOf, N, Comment
<1>7. Min(S) <= N => text[Min(S)] = Newline
  BY <1>2
<1> HIDE DEF S
<1>4. Min(S) \in (i + 1)..(N + 1)
  BY <1>1, <1>2 DEF S
<1>5. \A k \in i..(Min(S) - 1) : k \notin S /\ k \in i..(N + 1) /\ k <= N
  BY <1>2, <1>4
<1>6. \A k \in i..(Min(S) - 1) : text[k] # Newline
  BY <1>5 DEF S
<1>8. Outside(Min(S))
  BY <1>4, <1>7 DEF Outside, Newline
<1> QED
  BY <1>3, <1>4, <1>6, <1>8

LEMMA NoComment ==
    ASSUME NEW i, ~(i <= Len(text) /\ text[i] = "/")
    PROVE  Comment(i) = i
BY DEF Comment

-----------------------------------------------------------------------------
(***************************************************************************)
(* What lies ahead is not hidden, unless a comment starts in between.      *)
(***************************************************************************)
LEMMA Visible ==
    ASSUME N \in Nat, NEW a \in 1..N, Outside(a), NEW i \in a..N, \A j \in a..i : text[j] # "/"
    PROVE  ~Hidden(i)
<1> SUFFICES ASSUME NEW j \in 1..i, CommentAt(j), \A k \in j..i : text[k] # Newline
             PROVE  FALSE
  BY DEF Hidden
<1>1. j < a
  BY DEF CommentAt
<1>2. PICK k \in j..a : text[k] = Newline
  BY <1>1 DEF Outside
<1> QED
  BY <1>2

LEMMA OutsideKept ==
    ASSUME N \in Nat, NEW a \in 1..N, Outside(a), NEW e \in (a + 1)..(N + 1),
           \A j \in a..(e - 1) : ~CommentAt(j),
           e <= N /\ text[e] = "/" => text[e - 1] # "#"
    PROVE  Outside(e)
<1> SUFFICES ASSUME e <= N, NEW j \in 1..(e - 1), CommentAt(j)
             PROVE  \E k \in j..e : text[k] = Newline
  BY DEF Outside
<1>1. j < a
  OBVIOUS
<1>2. PICK k \in j..a : text[k] = Newline
  BY <1>1 DEF Outside
<1> QED
  BY <1>1, <1>2

\* Pieces without slashes and hashes in them.
LEMMA Plain ==
    ASSUME N \in Nat, NEW a \in 1..N, Outside(a), NEW e \in (a + 1)..(N + 1),
           \A j \in a..(e - 1) : text[j] \notin {"/", "#"}
    PROVE  Outside(e) /\ \A i \in a..(e - 1) : ~Hidden(i)
<1>1. \A j \in a..(e - 1) : ~CommentAt(j)
  BY DEF CommentAt
<1>2. text[e - 1] # "#"
  OBVIOUS
<1>3. Outside(e)
  BY <1>1, <1>2, OutsideKept
<1>4. ASSUME NEW i \in a..(e - 1) PROVE ~Hidden(i)
  <2>1. i \in a..N /\ \A j \in a..i : text[j] # "/"
    OBVIOUS
  <2> QED BY <2>1, Visible
<1> QED
  BY <1>3, <1>4

-----------------------------------------------------------------------------
(***************************************************************************)
(* What a step does to the pieces that are covered                         *)
(***************************************************************************)
LEMMA Facts ==
    ASSUME LexInv
    PROVE  /\ N \in Nat
           /\ lexed.at \in 1..(N + 1)
           /\ \A x \in Items : x.at \in Nat /\ x.len \in Nat /\ 1 <= x.at /\ x.at + x.len <= lexed.at
<1>1. N \in Nat
  BY DEF LexInv, LexTypes, N
<1>2. lexed.at \in 1..(N + 1)
  BY DEF LexInv, LexTypes
<1>3. \A x \in Unexpecteds : x \in Error
  BY DEF LexInv, LexTypes, Unexpecteds, Range
<1> QED
  BY <1>1, <1>2, <1>3 DEF LexInv, LexTypes, Items, Behind, Error

LEMMA SameText ==
    ASSUME text' = text
    PROVE  /\ N' = N
           /\ \A i : Silent(i)' <=> Silent(i)
           /\ \A a : Outside(a)' <=> Outside(a)
           /\ \A t : Worded(t)' <=> Worded(t)
BY DEF N, Silent, Hidden, CommentAt, Outside, Worded

\* Only what is passed over silently is read.
LEMMA CoverQuiet ==
    ASSUME LexInv, text' = text, Items' = Items, NEW e \in lexed.at..(N + 1), lexed'.at = e,
           \A i \in lexed.at..(e - 1) : Silent(i)
    PROVE  \A i \in 1..(e - 1) : Covered(i)'
<1> SUFFICES ASSUME NEW i \in 1..(e - 1) PROVE Covered(i)'
  OBVIOUS
<1>1. Covering(i)' = Covering(i)
  BY DEF Covering, Items
<1>2. Silent(i)' <=> Silent(i)
  BY SameText
<1>3. CASE i < lexed.at
  <2>1. Covered(i)
    BY <1>3, Facts DEF LexInv
  <2> QED BY <2>1, <1>1, <1>2 DEF Covered
<1>4. CASE i >= lexed.at
  <2>1. Silent(i)
    BY <1>4, Facts
  <2>2. Covering(i) = {}
    BY <1>4, Facts DEF Covering, Items
  <2> QED BY <2>1, <2>2, <1>1, <1>2 DEF Covered
<1> QED
  BY <1>3, <1>4, Facts

\* A token or an error is found, and what follows it may be hidden.
LEMMA CoverAdd ==
    ASSUME LexInv, text' = text, NEW x, Items' = Items \cup {x},
           x.at = lexed.at, x.len \in Nat,
           NEW e \in (lexed.at + x.len)..(N + 1), lexed'.at = e,
           \A i \in lexed.at..(lexed.at + x.len - 1) : ~Silent(i),
           \A i \in (lexed.at + x.len)..(e - 1) : Silent(i)
    PROVE  \A i \in 1..(e - 1) : Covered(i)'
<1> SUFFICES ASSUME NEW i \in 1..(e - 1) PROVE Covered(i)'
  OBVIOUS
<1>1. Covering(i)' = Covering(i) \cup {y \in {x} : i \in y.at..(y.at + y.len - 1)}
  BY DEF Covering, Items
<1>2. Silent(i)' <=> Silent(i)
  BY SameText
<1>3. CASE i < lexed.at
  <2>1. Covered(i)
    BY <1>3, Facts DEF LexInv
  <2>2. Covering(i)' = Covering(i)
    BY <1>1, <1>3, Facts
  <2> QED BY <2>1, <2>2, <1>2 DEF Covered
<1>4. CASE i >= lexed.at
  <2>1. Covering(i) = {}
    BY <1>4, Facts DEF Covering, Items
  <2>2. CASE i < lexed.at + x.len
    <3>1. Covering(i)' = {x} /\ x \in Items'
      BY <2>1, <2>2, <1>1, <1>4, Facts
    <3>2. ~Silent(i)
      BY <2>2, <1>4, Facts
    <3> QED BY <3>1, <3>2, <1>2 DEF Covered
  <2>3. CASE i >= lexed.at + x.len
    <3>1. Covering(i)' = {}
      BY <2>1, <2>3, <1>1, Facts
    <3>2. Silent(i)
      BY <2>3, <1>4, Facts
    <3> QED BY <3>1, <3>2, <1>2 DEF Covered
  <2> QED BY <2>2, <2>3, Facts
<1> QED
  BY <1>3, <1>4, Facts

\* An error grows by the piece after it.
LEMMA CoverJoin ==
    ASSUME LexInv, text' = text, NEW y \in Items, NEW x, Items' = (Items \ {y}) \cup {x},
           x.at = y.at, x.len = y.len + 1, y.len > 0, y.at + y.len = lexed.at,
           lexed.at <= N, lexed'.at = lexed.at + 1, ~Silent(lexed.at)
    PROVE  \A i \in 1..lexed.at : Covered(i)'
<1> SUFFICES ASSUME NEW i \in 1..lexed.at PROVE Covered(i)'
  OBVIOUS
<1>1. Covering(i)' = (Covering(i) \ {y}) \cup {z \in {x} : i \in z.at..(z.at + z.len - 1)}
  BY DEF Covering, Items
<1>2. Silent(i)' <=> Silent(i)
  BY SameText
<1>3. CASE i < lexed.at
  <2>1. Covered(i)
    BY <1>3, Facts DEF LexInv
  <2>2. y \in Covering(i) <=> i >= y.at
    BY <1>3, Facts DEF Covering, Items
  <2>3. i \in x.at..(x.at + x.len - 1) <=> i >= y.at
    BY <1>3, Facts
  <2>4. CASE i >= y.at
    <3>1. Covering(i) = {y}
      BY <2>1, <2>2, <2>4 DEF Covered
    <3>2. Covering(i)' = {x} /\ x \in Items'
      BY <3>1, <2>3, <2>4, <1>1
    <3> QED BY <3>1, <3>2, <2>1, <1>2 DEF Covered
  <2>5. CASE ~(i >= y.at)
    <3>1. Covering(i)' = Covering(i) /\ y \notin Covering(i)
      BY <2>2, <2>3, <2>5, <1>1
    <3> QED BY <3>1, <2>1, <1>2 DEF Covered, Covering, Items
  <2> QED BY <2>4, <2>5
<1>4. CASE i = lexed.at
  <2>1. Covering(i) = {}
    BY <1>4, Facts DEF Covering, Items
  <2>2. Covering(i)' = {x} /\ x \in Items'
    BY <2>1, <1>1, <1>4, Facts
  <2> QED BY <2>2, <1>2, <1>4 DEF Covered
<1> QED
  BY <1>3, <1>4, Facts

-----------------------------------------------------------------------------
(***************************************************************************)
(* The invariant after a step of each kind                                 *)
(***************************************************************************)
LEMMA Appended ==
    ASSUME NEW s, s \in Seq(Range(s)), NEW x
    PROVE  /\ Range(Append(s, x)) = Range(s) \cup {x}
           /\ Append(s, x) \in Seq(Range(s) \cup {x})
           /\ Last(Append(s, x)) = x
<1>1. s \in Seq(Range(s) \cup {x}) /\ x \in Range(s) \cup {x}
  OBVIOUS
<1>2. Append(s, x) \in Seq(Range(s) \cup {x})
  BY <1>1
<1>3. /\ DOMAIN Append(s, x) = 1..(Len(s) + 1) /\ DOMAIN s = 1..Len(s) /\ Len(s) \in Nat
      /\ Append(s, x)[Len(s) + 1] = x
      /\ \A i \in 1..Len(s) : Append(s, x)[i] = s[i]
      /\ Len(Append(s, x)) = Len(s) + 1
  BY <1>1
<1>4. Range(Append(s, x)) = Range(s) \cup {x}
  BY <1>3 DEF Range
<1>5. Last(Append(s, x)) = x
  BY <1>3 DEF Last
<1> QED
  BY <1>2, <1>4, <1>5

\* Nothing is found.
LEMMA Passed ==
    ASSUME LexInv, text' = text, NEW e \in lexed.at..(N + 1), lexed.at <= N,
           lexed' = [lexed EXCEPT !.at = e],
           \A i \in lexed.at..(e - 1) : Silent(i), Outside(e)
    PROVE  LexInv'
<1>1. lexed'.at = e /\ lexed'.tokens = lexed.tokens /\ lexed'.errors = lexed.errors
  BY DEF LexInv, LexTypes
<1>2. Items' = Items
  BY <1>1 DEF Items, Unexpecteds
<1>3. N' = N /\ \A a : Outside(a)' <=> Outside(a)
  BY SameText
<1>4. LexTypes'
  BY <1>1, <1>3 DEF LexInv, LexTypes, N
<1>5. Behind'
  BY <1>1, <1>2, Facts DEF Behind
<1>6. InOrder(lexed.errors)'
  BY <1>1 DEF LexInv, InOrder
<1>7. \A i \in 1..(lexed'.at - 1) : Covered(i)'
  BY <1>1, <1>2, CoverQuiet
<1>8. Outside(lexed.at)'
  BY <1>1, <1>3 DEF Outside, CommentAt
<1>9. \A t \in Range(lexed'.tokens) : Worded(t)'
  BY <1>1, SameText DEF LexInv
<1>10. ~Finished'
  BY <1>1, Facts DEF LexInv, Finished
<1> QED
  BY <1>4, <1>5, <1>6, <1>7, <1>8, <1>9, <1>10 DEF LexInv

\* A token is found.
LEMMA Found ==
    ASSUME LexInv, text' = text, NEW t, NEW es \in Seq(Error),
           {x \in Range(es) : x.type = "unexpected"} = Unexpecteds, InOrder(es),
           t.at = lexed.at, t.len \in Nat, NEW e \in (lexed.at + t.len)..(N + 1),
           lexed' = [at |-> e, tokens |-> Append(lexed.tokens, t), errors |-> es],
           \A i \in lexed.at..(lexed.at + t.len - 1) : ~Silent(i),
           \A i \in (lexed.at + t.len)..(e - 1) : Silent(i),
           Outside(e), Worded(t), t.type = "Eof" => e > N, t.type # "unexpected"
    PROVE  LexInv'
<1>1. lexed'.at = e /\ lexed'.tokens = Append(lexed.tokens, t) /\ lexed'.errors = es
  OBVIOUS
<1>0. lexed.tokens \in Seq(Range(lexed.tokens))
  BY DEF LexInv, LexTypes
<1>2. /\ Range(lexed'.tokens) = Range(lexed.tokens) \cup {t}
      /\ lexed'.tokens \in Seq(Range(lexed.tokens) \cup {t})
      /\ Last(lexed'.tokens) = t
  BY <1>1, <1>0, Appended
<1>3. Items' = Items \cup {t}
  BY <1>1, <1>2 DEF Items, Unexpecteds
<1>4. N' = N
  BY SameText
<1>5. LexTypes'
  <2>1. lexed' \in [at : 1..(N + 1), tokens : Seq(Range(lexed'.tokens)), errors : Seq(Error)]
    BY <1>1, <1>2, Facts
  <2>2. \A u \in Range(lexed'.tokens) : u.at \in Nat /\ u.len \in Nat /\ u.type # "unexpected"
    BY <1>2, Facts DEF LexInv, LexTypes
  <2> QED BY <2>1, <2>2, <1>4 DEF LexInv, LexTypes
<1>6. Behind'
  BY <1>1, <1>3, Facts DEF Behind
<1>7. InOrder(lexed.errors)'
  BY <1>1 DEF InOrder
<1>8. \A i \in 1..(lexed'.at - 1) : Covered(i)'
  BY <1>1, <1>3, CoverAdd
<1>9. Outside(lexed.at)'
  BY <1>1, <1>4 DEF Outside, CommentAt
<1>10. \A u \in Range(lexed'.tokens) : Worded(u)'
  BY <1>2, SameText DEF LexInv
<1>11. Finished' => lexed'.at > N'
  BY <1>1, <1>2, <1>4 DEF Finished
<1> QED
  BY <1>5, <1>6, <1>7, <1>8, <1>9, <1>10, <1>11 DEF LexInv

\* An unexpected character.
LEMMA Complained ==
    ASSUME LexInv, text' = text, lexed.at <= N, text[lexed.at] \in Strange,
           lexed' = [Unexpected(lexed) EXCEPT !.at = lexed.at + 1]
    PROVE  LexInv'
<1> DEFINE a == lexed.at  es == lexed.errors  m == Len(es)
           e == [type |-> "unexpected", at |-> a, len |-> 1]
<1>0. a \in 1..N /\ N \in Nat /\ es \in Seq(Error) /\ InOrder(es) /\ Outside(a) /\ ~Finished
  BY Facts DEF LexInv, LexTypes
<1>1. Outside(a + 1) /\ ~Silent(a)
  <2>1. text[a] \notin {"/", "#"} /\ text[a] \notin Blank
    BY Classes
  <2>2. a + 1 \in (a + 1)..(N + 1) /\ \A j \in a..((a + 1) - 1) : text[j] \notin {"/", "#"}
    BY <1>0, <2>1
  <2> HIDE DEF a
  <2>3. Outside(a + 1) /\ \A i \in a..((a + 1) - 1) : ~Hidden(i)
    BY <1>0, <2>2, Plain
  <2>4. ~Hidden(a)
    BY <1>0, <2>3
  <2> QED BY <2>1, <2>3, <2>4 DEF Silent
<1>2. N' = N
  BY SameText
<1>3. es # <<>> => m \in DOMAIN es /\ m \in Nat /\ es[m] \in Error /\ DOMAIN es = 1..m
  BY <1>0
<1>4. /\ lexed' \in [at : {a + 1}, tokens : {lexed.tokens}, errors : Seq(Error)]
      /\ InOrder(lexed'.errors)
      /\ \A i \in 1..a : Covered(i)'
      /\ \A x \in Items' : 1 <= x.at /\ x.at + x.len <= a + 1
  <2>1. CASE es # <<>> /\ es[m].type = "unexpected" /\ es[m].at + es[m].len = a
    <3> DEFINE y == es[m]  x == [y EXCEPT !.len = @ + 1]  fs == [es EXCEPT ![m] = x]
    <3>1. lexed' = [at |-> a + 1, tokens |-> lexed.tokens, errors |-> fs]
      BY <2>1 DEF Unexpected, LexInv, LexTypes
    <3>2. x \in Error /\ x.at = y.at /\ x.len = y.len + 1 /\ x.type = "unexpected"
      BY <2>1, <1>3 DEF Error
    <3>3. fs \in Seq(Error) /\ DOMAIN fs = 1..m /\ m \in Nat \ {0}
      BY <2>1, <3>2, <1>3, <1>0
    <3>4. fs[m] = x /\ \A p \in 1..m : p # m => fs[p] = es[p]
      BY <2>1, <1>3
    <3>5. y \in Unexpecteds /\ y.len > 0 /\ y \in Error
      BY <2>1, <1>3, <1>0 DEF Unexpecteds, Range, InOrder
    <3> HIDE DEF y, x, fs
    <3>6. ASSUME NEW p \in 1..m, p # m, es[p] = y PROVE FALSE
      <4>1. es[p].at + es[p].len <= es[m].at
        BY <3>6, <2>1, <1>3, <1>0 DEF InOrder, y
      <4> QED BY <3>6, <3>5, <4>1, <1>3, <2>1 DEF y, Error
    <3>7. {z \in Range(fs) : z.type = "unexpected"} = (Unexpecteds \ {y}) \cup {x}
      <4>1. \A p \in 1..m : p # m => es[p] # y
        BY <3>6
      <4>2. DOMAIN es = 1..m /\ es[m] = y
        BY <1>3, <2>1 DEF y
      <4> QED BY <4>1, <4>2, <3>2, <3>3, <3>4 DEF Unexpecteds, Range
    <3>8. Items' = (Items \ {y}) \cup {x}
      <4>1. Unexpecteds' = (Unexpecteds \ {y}) \cup {x}
        BY <3>1, <3>7 DEF Unexpecteds
      <4>2. y \notin Range(lexed.tokens)
        BY <3>5 DEF LexInv, LexTypes, Unexpecteds
      <4> QED BY <4>1, <4>2, <3>1 DEF Items
    <3>9. y \in Items /\ y.at + y.len = a
      BY <3>5, <2>1 DEF Items, y
    <3>10. \A i \in 1..a : Covered(i)'
      BY <3>1, <3>2, <3>5, <3>8, <3>9, <1>0, <1>1, CoverJoin
    <3>11. \A z \in Items' : 1 <= z.at /\ z.at + z.len <= a + 1
      BY <3>2, <3>5, <3>8, <3>9, Facts DEF Error
    <3>12. InOrder(fs)
      <4>1. ASSUME NEW p \in 1..m, NEW q \in 1..m, p < q,
                   fs[p].type = "unexpected", fs[q].type = "unexpected"
            PROVE  fs[p].at + fs[p].len <= fs[q].at
        <5>1. p # m /\ fs[p] = es[p]
          BY <4>1, <3>3, <3>4
        <5>2. fs[q].at = es[q].at /\ es[q].type = "unexpected"
          BY <4>1, <3>2, <3>4, <2>1 DEF y
        <5> QED BY <4>1, <5>1, <5>2, <1>0, <1>3, <2>1 DEF InOrder
      <4>2. ASSUME NEW p \in 1..m, fs[p].type = "unexpected" PROVE fs[p].len > 0
        <5>1. CASE p = m
          BY <5>1, <3>2, <3>4, <3>5 DEF Error
        <5>2. CASE p # m
          BY <5>2, <4>2, <3>4, <1>0, <1>3, <2>1 DEF InOrder
        <5> QED BY <5>1, <5>2
      <4> QED BY <4>1, <4>2, <3>3 DEF InOrder
    <3>13. lexed' \in [at : {a + 1}, tokens : {lexed.tokens}, errors : Seq(Error)] /\ lexed'.errors = fs
      <4>1. fs \in Seq(Error) BY <3>3
      <4>2. [at |-> a + 1, tokens |-> lexed.tokens, errors |-> fs]
                \in [at : {a + 1}, tokens : {lexed.tokens}, errors : Seq(Error)]
        BY <4>1, Zenon
      <4>3. lexed'.errors = fs BY <3>1
      <4> QED BY <4>2, <4>3, <3>1, Zenon
    <3> QED BY <3>13, <3>10, <3>11, <3>12, Zenon
  <2>2. CASE ~(es # <<>> /\ es[m].type = "unexpected" /\ es[m].at + es[m].len = a)
    <3> DEFINE fs == Append(es, e)
    <3>1. lexed' = [at |-> a + 1, tokens |-> lexed.tokens, errors |-> fs]
      BY <2>2 DEF Unexpected, lexer_add_error, LexInv, LexTypes
    <3>2. e \in Error /\ e.at = a /\ e.len = 1 /\ e.type = "unexpected"
      BY <1>0 DEF Error
    <3> HIDE DEF e
    <3>3. /\ fs \in Seq(Error) /\ DOMAIN fs = 1..(m + 1) /\ m \in Nat /\ DOMAIN es = 1..m
          /\ fs[m + 1] = e /\ \A p \in 1..m : fs[p] = es[p]
      BY <3>2, <1>0
    <3> HIDE DEF fs
    <3>4. Items' = Items \cup {e}
      <4>1. {z \in Range(fs) : z.type = "unexpected"} = Unexpecteds \cup {e}
        BY <3>2, <3>3 DEF Unexpecteds, Range
      <4> QED BY <4>1, <3>1 DEF Items, Unexpecteds
    <3>5. \A i \in 1..a : Covered(i)'
      <4>1. a + 1 \in (lexed.at + e.len)..(N + 1) /\ e.len \in Nat
        BY <3>2, <1>0
      <4>2. \A i \in lexed.at..(lexed.at + e.len - 1) : ~Silent(i)
        BY <3>2, <1>0, <1>1
      <4>3. \A i \in (lexed.at + e.len)..((a + 1) - 1) : Silent(i)
        BY <3>2, <1>0
      <4>4. \A i \in 1..((a + 1) - 1) : Covered(i)'
        BY <3>1, <3>2, <3>4, <4>1, <4>2, <4>3, CoverAdd
      <4> QED BY <4>4, <1>0
    <3>6. \A z \in Items' : 1 <= z.at /\ z.at + z.len <= a + 1
      BY <3>2, <3>4, <1>0, Facts
    <3>7. InOrder(fs)
      <4>1. ASSUME NEW p \in 1..m, es[p].type = "unexpected" PROVE es[p].at + es[p].len <= a
        <5>1. es[p] \in Items
          BY <4>1, <3>3 DEF Items, Unexpecteds, Range
        <5> QED BY <5>1, Facts
      <4>2. ASSUME NEW p \in 1..(m + 1), NEW q \in 1..(m + 1), p < q,
                   fs[p].type = "unexpected", fs[q].type = "unexpected"
            PROVE  fs[p].at + fs[p].len <= fs[q].at
        <5>1. p \in 1..m /\ fs[p] = es[p]
          BY <4>2, <3>3
        <5>2. CASE q = m + 1
          BY <5>1, <5>2, <4>1, <4>2, <3>2, <3>3
        <5>3. CASE q \in 1..m
          BY <5>1, <5>3, <4>2, <3>3, <1>0 DEF InOrder
        <5> QED BY <5>2, <5>3, <3>3
      <4>3. ASSUME NEW p \in 1..(m + 1), fs[p].type = "unexpected" PROVE fs[p].len > 0
        <5>1. CASE p = m + 1
          BY <5>1, <3>2, <3>3
        <5>2. CASE p \in 1..m
          BY <5>2, <4>3, <3>3, <1>0 DEF InOrder
        <5> QED BY <5>1, <5>2, <3>3
      <4> QED BY <4>2, <4>3, <3>3 DEF InOrder
    <3>8. lexed' \in [at : {a + 1}, tokens : {lexed.tokens}, errors : Seq(Error)] /\ lexed'.errors = fs
      <4>1. fs \in Seq(Error) BY <3>3
      <4>2. [at |-> a + 1, tokens |-> lexed.tokens, errors |-> fs]
                \in [at : {a + 1}, tokens : {lexed.tokens}, errors : Seq(Error)]
        BY <4>1, Zenon
      <4>3. lexed'.errors = fs BY <3>1
      <4> QED BY <4>2, <4>3, <3>1, Zenon
    <3> QED BY <3>8, <3>5, <3>6, <3>7, Zenon
  <2> QED BY <2>1, <2>2
<1>5. lexed'.at = a + 1 /\ lexed'.tokens = lexed.tokens /\ lexed'.errors \in Seq(Error)
  BY <1>4
<1>6. LexTypes'
  BY <1>0, <1>2, <1>4, <1>5 DEF LexInv, LexTypes
<1>7. Behind' /\ InOrder(lexed.errors)'
  BY <1>4, <1>5 DEF Behind, InOrder
<1>8. Outside(lexed.at)'
  BY <1>1, <1>2, <1>5 DEF Outside, CommentAt
<1>9. \A t \in Range(lexed'.tokens) : Worded(t)'
  BY <1>5, SameText DEF LexInv
<1>10. ~Finished'
  BY <1>0, <1>5 DEF Finished
<1>11. \A i \in 1..(lexed'.at - 1) : Covered(i)'
  BY <1>0, <1>4, <1>5
<1> QED
  BY <1>6, <1>7, <1>8, <1>9, <1>10, <1>11 DEF LexInv

-----------------------------------------------------------------------------
(***************************************************************************)
(* The cases of lexer_scan                                                 *)
(***************************************************************************)
\* A token of pieces that are neither marks nor slashes nor blanks.
LEMMA Lexeme ==
    ASSUME LexInv, text' = text, lexed.at <= N, NEW e \in (lexed.at + 1)..(N + 1),
           \A k \in lexed.at..(e - 1) : is_ident(text[k]),
           is_ident_start(text[lexed.at]) /\ e <= N => ~is_ident(text[e]),
           NEW type, type \notin {"Eof", "unexpected"}, NEW lit, NEW es \in Seq(Error),
           {x \in Range(es) : x.type = "unexpected"} = Unexpecteds, InOrder(es),
           lexed' = [at |-> e, tokens |-> Append(lexed.tokens, token(lexed, e, type, lit)), errors |-> es]
    PROVE  LexInv'
<1> DEFINE a == lexed.at  t == token(lexed, e, type, lit)
<1>1. a \in 1..N /\ N \in Nat /\ Outside(a)
  BY Facts DEF LexInv
<1>2. t.at = a /\ t.len = e - a /\ t.type = type /\ t.lexeme = SubSeq(text, a, e - 1)
  BY DEF token
<1> HIDE DEF t
<1>3. \A k \in a..(e - 1) : text[k] \notin Blank \cup {"/", "#"}
  BY Classes
<1>4. Outside(e) /\ \A i \in a..(e - 1) : ~Hidden(i)
  <2>1. \A k \in a..(e - 1) : text[k] \notin {"/", "#"}
    BY <1>3
  <2> QED BY <2>1, <1>1, Plain
<1>5. \A i \in a..(e - 1) : ~Silent(i)
  BY <1>3, <1>4 DEF Silent
<1>6. t.len \in Nat /\ a + t.len = e /\ a + t.len - 1 = e - 1
  BY <1>1, <1>2
<1>7. Worded(t)
  BY <1>2, <1>6, <1>1 DEF Worded
<1>8. \A i \in a..(a + t.len - 1) : ~Silent(i)
  BY <1>5, <1>6
<1>9. \A i \in (a + t.len)..(e - 1) : Silent(i)
  BY <1>6, <1>1
<1>10. e \in (a + t.len)..(N + 1)
  BY <1>6, <1>1
<1> QED
  BY <1>2, <1>4, <1>6, <1>7, <1>8, <1>9, <1>10, Found DEF t

LEMMA ScanIdent ==
    ASSUME LexInv, text' = text, lexed.at <= N, is_ident_start(text[lexed.at]),
           lexed' = lexer_scan_ident(lexed)
    PROVE  LexInv'
<1> DEFINE a == lexed.at  e == EndOf(a, is_ident)
           type == IF e = a + 1 /\ text[a] \in DOMAIN Keyword THEN Keyword[text[a]] ELSE "Ident"
<1>1. a \in 1..N /\ N \in Nat /\ lexed.errors \in Seq(Error) /\ InOrder(lexed.errors)
  BY Facts DEF LexInv, LexTypes
<1>2. /\ e \in (a + 1)..(N + 1)
      /\ \A k \in a..(e - 1) : is_ident(text[k])
      /\ e <= N => ~is_ident(text[e])
  BY <1>1, Classes, WordEnd
<1>3. type \notin {"Eof", "unexpected"}
  BY DEF Keyword
<1>4. lexed' = [at |-> e, tokens |-> Append(lexed.tokens, token(lexed, e, type, 0)), errors |-> lexed.errors]
  <2>1. lexed' = lexer_add_token(lexed, e, type, 0)
    BY DEF lexer_scan_ident
  <2> HIDE DEF e, type
  <2> QED BY <2>1 DEF lexer_add_token, LexInv, LexTypes
<1> HIDE DEF e, type
<1> QED
  BY <1>1, <1>2, <1>3, <1>4, Lexeme DEF Unexpecteds

LEMMA ScanNumber ==
    ASSUME LexInv, text' = text, lexed.at <= N, is_digit(text[lexed.at]),
           lexed' = lexer_scan_number(lexed)
    PROVE  LexInv'
<1> DEFINE a == lexed.at  e == EndOf(a, is_digit)  es == lexed.errors  m == Len(es)
           n == FoldLeft(Digit_added, [lit |-> 0, overflow |-> FALSE], SubSeq(text, a, e - 1))
           over == [type |-> "overflow", at |-> a, len |-> e - a]
           fs == IF n.overflow THEN Append(es, over) ELSE es
<1>1. a \in 1..N /\ N \in Nat /\ es \in Seq(Error) /\ InOrder(es) /\ m \in Nat
  BY Facts DEF LexInv, LexTypes
<1>2. e \in (a + 1)..(N + 1) /\ \A k \in a..(e - 1) : is_digit(text[k])
  BY <1>1, DigitsEnd
<1>3. \A k \in a..(e - 1) : is_ident(text[k])
  BY <1>2, Classes
<1>4. ~is_ident_start(text[a])
  BY Classes
<1>5. lexed' = [at |-> e, tokens |-> Append(lexed.tokens, token(lexed, e, "Number", n.lit)), errors |-> fs]
  <2>1. lexed' = lexer_add_token(IF n.overflow THEN lexer_add_error(lexed, "overflow", e - a) ELSE lexed,
                                 e, "Number", n.lit)
    BY DEF lexer_scan_number
  <2> HIDE DEF e, n
  <2>2. CASE n.overflow
    BY <2>1, <2>2 DEF lexer_add_token, lexer_add_error, token, LexInv, LexTypes
  <2>3. CASE ~n.overflow
    BY <2>1, <2>3 DEF lexer_add_token, LexInv, LexTypes
  <2> QED BY <2>2, <2>3
<1>6. fs \in Seq(Error) /\ {x \in Range(fs) : x.type = "unexpected"} = Unexpecteds /\ InOrder(fs)
  <2> HIDE DEF e, n
  <2>1. CASE n.overflow
    <3>1. over \in Error /\ over.type # "unexpected"
      BY <1>1, <1>2 DEF Error
    <3> HIDE DEF over
    <3>2. /\ fs \in Seq(Error) /\ DOMAIN fs = 1..(m + 1) /\ DOMAIN es = 1..m
          /\ fs[m + 1] = over /\ \A p \in 1..m : fs[p] = es[p]
      BY <3>1, <2>1, <1>1
    <3> HIDE DEF fs
    <3>3. {x \in Range(fs) : x.type = "unexpected"} = Unexpecteds
      <4>1. Range(fs) = Range(es) \cup {over}
        BY <3>2, <1>1 DEF Range
      <4> QED BY <4>1, <3>1 DEF Unexpecteds
    <3>4. \A p \in 1..(m + 1) : fs[p].type = "unexpected" => p \in 1..m /\ fs[p] = es[p]
      BY <3>1, <3>2, <1>1
    <3>5. InOrder(fs)
      BY <3>2, <3>4, <1>1 DEF InOrder
    <3> QED BY <3>2, <3>3, <3>5
  <2>2. CASE ~n.overflow
    <3>1. fs = es
      BY <2>2
    <3> HIDE DEF fs
    <3> QED BY <3>1, <1>1 DEF Unexpecteds
  <2> QED BY <2>1, <2>2
<1> HIDE DEF e, n, fs
<1> QED
  BY <1>1, <1>2, <1>3, <1>4, <1>5, <1>6, Lexeme

\* A mark, and the comment that a hash may be followed by.
LEMMA ScanMark ==
    ASSUME LexInv, text' = text, lexed.at <= N, text[lexed.at] \in Marks,
           NEW e, e = IF text[lexed.at] = "#" THEN Comment(lexed.at + 1) ELSE lexed.at + 1,
           lexed' = [lexer_add_token(lexed, lexed.at + 1, Mark(text[lexed.at]), 0) EXCEPT !.at = e]
    PROVE  LexInv'
<1> DEFINE a == lexed.at  c == text[a]  t == token(lexed, a + 1, Mark(c), 0)
<1>1. a \in 1..N /\ N \in Nat /\ Outside(a) /\ lexed.errors \in Seq(Error) /\ InOrder(lexed.errors)
  BY Facts DEF LexInv, LexTypes
<1>2. c \notin Blank /\ c # "/" /\ ~is_ident_start(c)
  BY Classes
<1>3. Mark(c) \notin {"Eof", "unexpected"}
  BY DEF Mark, Marks
<1>4. lexed' = [at |-> e, tokens |-> Append(lexed.tokens, t), errors |-> lexed.errors]
  BY DEF lexer_add_token, LexInv, LexTypes
<1>5. t.at = a /\ t.len = 1 /\ t.type = Mark(c) /\ t.lexeme = SubSeq(text, a, (a + 1) - 1)
  <2>1. t.at = a /\ t.len = (a + 1) - a /\ t.type = Mark(c) /\ t.lexeme = SubSeq(text, a, (a + 1) - 1)
    BY DEF token
  <2>2. (a + 1) - a = 1
    BY <1>1
  <2> QED BY <2>1, <2>2
<1> HIDE DEF t
<1>6. Worded(t)
  BY <1>1, <1>2, <1>5 DEF Worded
<1>7. ~Silent(a)
  <2>1. \A j \in a..a : text[j] # "/"
    BY <1>1, <1>2
  <2>2. a \in a..N
    BY <1>1
  <2>3. ~Hidden(a)
    BY <2>1, <2>2, <1>1, Visible
  <2> QED BY <2>3, <1>2 DEF Silent
<1>8. \A j \in a..((a + 1) - 1) : ~CommentAt(j)
  BY <1>1, <1>2 DEF CommentAt
<1>9. e \in (a + 1)..(N + 1) /\ Outside(e) /\ \A i \in (a + 1)..(e - 1) : Silent(i)
  <2>1. CASE c = "#" /\ a + 1 <= N /\ text[a + 1] = "/"
    <3>1. /\ e \in (a + 2)..(N + 1)
          /\ \A k \in (a + 1)..(e - 1) : text[k] # Newline
          /\ Outside(e)
      BY <2>1, <1>1, CommentEnd
    <3>2. CommentAt(a + 1)
      BY <2>1, <1>1 DEF CommentAt
    <3>3. ASSUME NEW i \in (a + 1)..(e - 1) PROVE Hidden(i)
      <4>1. a + 1 \in 1..i /\ \A k \in (a + 1)..i : text[k] # Newline
        BY <3>1, <1>1
      <4> QED BY <4>1, <3>2 DEF Hidden
    <3> QED BY <3>1, <3>3, <1>1 DEF Silent
  <2>2. CASE ~(c = "#" /\ a + 1 <= N /\ text[a + 1] = "/")
    <3>1. e = a + 1
      BY <2>2, NoComment DEF N
    <3>2. a + 1 <= N /\ text[a + 1] = "/" => text[(a + 1) - 1] # "#"
      BY <2>2, <1>1
    <3>3. a + 1 \in (a + 1)..(N + 1)
      BY <1>1
    <3>4. Outside(a + 1)
      BY <3>2, <3>3, <1>1, <1>8, OutsideKept
    <3> QED BY <3>1, <3>3, <3>4, <1>1
  <2> QED BY <2>1, <2>2
<1>10. /\ \A i \in a..(a + t.len - 1) : ~Silent(i)
       /\ \A i \in (a + t.len)..(e - 1) : Silent(i)
       /\ e \in (a + t.len)..(N + 1) /\ t.len \in Nat
  BY <1>1, <1>5, <1>7, <1>9
<1> QED
  BY <1>1, <1>3, <1>4, <1>5, <1>6, <1>9, <1>10, Found DEF Unexpecteds

LEMMA ScanSlash ==
    ASSUME LexInv, text' = text, lexed.at <= N, text[lexed.at] = "/",
           lexed' = [lexed EXCEPT !.at = Comment(lexed.at + 1)]
    PROVE  LexInv'
<1> DEFINE a == lexed.at  e == Comment(a + 1)
<1>1. a \in 1..N /\ N \in Nat /\ Outside(a)
  BY Facts DEF LexInv
<1>2. e \in a..(N + 1) /\ Outside(e) /\ \A i \in a..(e - 1) : Silent(i)
  <2>1. CASE a + 1 <= N /\ text[a + 1] = "/"
    <3>1. /\ e \in (a + 2)..(N + 1)
          /\ \A k \in (a + 1)..(e - 1) : text[k] # Newline
          /\ Outside(e)
      BY <2>1, <1>1, CommentEnd
    <3>2. CommentAt(a) /\ text[a] # Newline
      BY <2>1, <1>1 DEF CommentAt, Newline, N
    <3>3. ASSUME NEW i \in a..(e - 1) PROVE Hidden(i)
      <4>1. a \in 1..i /\ \A k \in a..i : text[k] # Newline
        BY <3>1, <3>2, <1>1
      <4> QED BY <4>1, <3>2 DEF Hidden
    <3> QED BY <3>1, <3>3, <1>1 DEF Silent
  <2>2. CASE ~(a + 1 <= N /\ text[a + 1] = "/")
    <3>1. e = a + 1
      BY <2>2, NoComment DEF N
    <3>2. ~CommentAt(a)
      BY <2>2, <1>1 DEF CommentAt, Outside, N
    <3>3. a + 1 \in (a + 1)..(N + 1) /\ \A j \in a..((a + 1) - 1) : ~CommentAt(j)
      BY <3>2, <1>1
    <3>4. text[(a + 1) - 1] # "#"
      BY <1>1
    <3>5. Outside(a + 1)
      BY <3>3, <3>4, <1>1, OutsideKept
    <3>6. Silent(a)
      BY DEF Silent
    <3> QED BY <3>1, <3>3, <3>5, <3>6, <1>1
  <2> QED BY <2>1, <2>2
<1> HIDE DEF e
<1> QED
  BY <1>2, Passed DEF e

LEMMA ScanBlank ==
    ASSUME LexInv, text' = text, lexed.at <= N, text[lexed.at] \in Blank,
           lexed' = [lexed EXCEPT !.at = lexed.at + 1]
    PROVE  LexInv'
<1> DEFINE a == lexed.at
<1>1. a \in 1..N /\ N \in Nat /\ Outside(a)
  BY Facts DEF LexInv
<1>2. text[a] \notin {"/", "#"}
  BY DEF Blank, Newline
<1>3. a + 1 \in (a + 1)..(N + 1) /\ \A j \in a..((a + 1) - 1) : text[j] \notin {"/", "#"}
  BY <1>1, <1>2
<1>4. Outside(a + 1)
  BY <1>1, <1>3, Plain
<1>5. a + 1 \in a..(N + 1) /\ \A i \in a..((a + 1) - 1) : Silent(i)
  BY <1>1 DEF Silent
<1> QED
  BY <1>4, <1>5, Passed

LEMMA LexEnds ==
    ASSUME LexInv, lexer_end
    PROVE  LexInv'
<1> DEFINE a == lexed.at  t == token(lexed, a, "Eof", 0)
<1>1. a \in 1..(N + 1) /\ N \in Nat /\ a > N /\ lexed.errors \in Seq(Error) /\ InOrder(lexed.errors) /\ text' = text
  BY Facts DEF LexInv, LexTypes, lexer_end, N
<1>2. lexed' = [at |-> a, tokens |-> Append(lexed.tokens, t), errors |-> lexed.errors]
  BY DEF lexer_end, lexer_add_token, LexInv, LexTypes
<1>3. t.at = a /\ t.len = 0 /\ t.type = "Eof" /\ t.lexeme = SubSeq(text, a, a - 1)
  BY <1>1 DEF token
<1> HIDE DEF t
<1>4. Worded(t) /\ Outside(a)
  BY <1>1, <1>3 DEF Worded, Outside
<1>5. /\ \A i \in a..(a + t.len - 1) : ~Silent(i)
      /\ \A i \in (a + t.len)..(a - 1) : Silent(i)
      /\ a \in (a + t.len)..(N + 1) /\ t.len \in Nat
  BY <1>1, <1>3
<1> QED
  BY <1>1, <1>2, <1>3, <1>4, <1>5, Found DEF Unexpecteds

LEMMA Scan ==
    ASSUME LexInv, lexer_scan
    PROVE  LexInv'
<1> DEFINE c == text[lexed.at]  next == lexed.at + 1
<1>1. lexed.at <= N /\ text' = text
  BY DEF lexer_scan, N
<1>2. CASE c \in Marks /\ c # "#" /\ lexed' = lexer_add_token(lexed, next, Mark(c), 0)
  <2>1. lexed' = [lexer_add_token(lexed, next, Mark(c), 0) EXCEPT !.at = next]
    BY <1>2 DEF lexer_add_token, LexInv, LexTypes
  <2> QED BY <1>1, <1>2, <2>1, ScanMark
<1>3. CASE c = "#" /\ lexed' = [lexer_add_token(lexed, next, Mark(c), 0) EXCEPT !.at = Comment(next)]
  BY <1>1, <1>3, ScanMark DEF Marks
<1>4. CASE c = "/" /\ lexed' = [lexed EXCEPT !.at = Comment(next)]
  BY <1>1, <1>4, ScanSlash
<1>5. CASE c \in Blank /\ lexed' = [lexed EXCEPT !.at = next]
  BY <1>1, <1>5, ScanBlank
<1>6. CASE is_digit(c) /\ lexed' = lexer_scan_number(lexed)
  BY <1>1, <1>6, ScanNumber
<1>7. CASE is_ident_start(c) /\ lexed' = lexer_scan_ident(lexed)
  BY <1>1, <1>7, ScanIdent
<1>8. CASE c \in Strange /\ lexed' = [Unexpected(lexed) EXCEPT !.at = next]
  BY <1>1, <1>8, Complained
<1> QED
  BY <1>2, <1>3, <1>4, <1>5, <1>6, <1>7, <1>8 DEF lexer_scan

-----------------------------------------------------------------------------
\* The inductive invariant of the lexer (ser/lexer.c).
THEOREM LexInvariant == LexSpec => []LexInv
<1>1. LexInit => LexInv
  <2> SUFFICES ASSUME LexInit PROVE LexInv
    OBVIOUS
  <2>1. text \in Seq(STRING) /\ N \in Nat /\ lexed = [at |-> 1, tokens |-> <<>>, errors |-> <<>>]
    BY DEF LexInit, lexer_init, N
  <2>2. Range(lexed.tokens) = {} /\ Unexpecteds = {} /\ Items = {}
    BY <2>1 DEF Range, Unexpecteds, Items
  <2>3. LexTypes
    BY <2>1, <2>2 DEF LexTypes
  <2>4. InOrder(lexed.errors) /\ Outside(lexed.at) /\ Behind /\ ~Finished
    BY <2>1, <2>2 DEF InOrder, Outside, Behind, Finished
  <2> QED BY <2>1, <2>2, <2>3, <2>4 DEF LexInv
<1>2. LexInv /\ [LexNext]_<<text, lexed>> => LexInv'
  <2> SUFFICES ASSUME LexInv, [LexNext]_<<text, lexed>> PROVE LexInv'
    OBVIOUS
  <2>1. CASE lexer_scan
    BY <2>1, Scan
  <2>2. CASE lexer_end
    BY <2>2, LexEnds
  <2>3. CASE UNCHANGED <<text, lexed>>
    <3>1. text' = text /\ lexed' = lexed
      BY <2>3
    <3>2. Items' = Items /\ N' = N /\ (\A i : Covering(i)' = Covering(i))
      BY <3>1 DEF Items, Unexpecteds, N, Covering
    <3>3. \A i : Covered(i)' <=> Covered(i)
      BY <3>1, <3>2, SameText DEF Covered
    <3>4. (LexTypes' <=> LexTypes) /\ (Behind' <=> Behind) /\ (InOrder(lexed.errors)' <=> InOrder(lexed.errors))
          /\ (Finished' <=> Finished) /\ (Outside(lexed.at)' <=> Outside(lexed.at))
      BY <3>1, <3>2, SameText DEF LexTypes, Behind, InOrder, Finished, Outside, CommentAt
    <3>5. \A t \in Range(lexed'.tokens) : Worded(t)'
      BY <3>1, SameText DEF LexInv
    <3> QED BY <3>1, <3>2, <3>3, <3>4, <3>5 DEF LexInv
  <2> QED BY <2>1, <2>2, <2>3 DEF LexNext
<1> QED
  BY <1>1, <1>2, PTL DEF LexSpec

\* Tiled for every text: no piece of a schema is lost or read twice by lexer_scan.
THEOREM LexerTiles == LexSpec => []Tiled
<1>1. LexInv => Tiled
  <2> SUFFICES ASSUME LexInv, Finished PROVE Tiled
    BY DEF Tiled
  <2>1. N \in Nat /\ DOMAIN text = 1..N /\ lexed.at = N + 1
    BY Facts DEF LexInv, LexTypes, N
  <2>2. ASSUME NEW i \in DOMAIN text
        PROVE  Cardinality(Covering(i)) = IF Hidden(i) \/ text[i] \in Blank \cup {"/"} THEN 0 ELSE 1
    <3>1. Covered(i)
      BY <2>1 DEF LexInv
    <3>2. CASE Silent(i)
      BY <3>1, <3>2, FS_EmptySet DEF Covered, Silent
    <3>3. CASE ~Silent(i)
      <4>1. PICK x : Covering(i) = {x}
        BY <3>1, <3>3 DEF Covered
      <4> QED BY <4>1, <3>3, FS_Singleton DEF Silent
    <3> QED BY <3>2, <3>3
  <2>3. \A t \in Range(lexed.tokens) : t.lexeme = SubSeq(text, t.at, t.at + t.len - 1)
    BY DEF LexInv, Worded
  <2>4. ASSUME NEW t \in Range(lexed.tokens), NEW u \in Range(lexed.tokens),
               t.len > 0, u.len > 0, u.at = t.at + t.len, is_ident_start(text[t.at])
        PROVE  ~is_ident(text[u.at])
    <3>1. u \in Items /\ t \in Items
      BY DEF Items
    <3>2. t.at + t.len <= N
      BY <2>1, <2>4, <3>1, Facts
    <3> QED BY <3>2, <2>4 DEF LexInv, Worded
  <2> QED BY <2>2, <2>3, <2>4 DEF Tiled
<1> QED
  BY <1>1, LexInvariant, PTL

-----------------------------------------------------------------------------
(***************************************************************************)
(* The order of the definitions.  What has been defined is what is not in  *)
(* the map any more; a struct leaves it after all that it depends on.      *)
(***************************************************************************)
Once(s)  == \A i, j \in DOMAIN s : s[i] = s[j] => i = j
After(s) == \A i \in DOMAIN s : \A d \in deps[s[i]] \cap DOMAIN deps : \E j \in 1..(i - 1) : s[j] = d

DefineInv ==
    /\ IsFiniteSet(DOMAIN deps)
    /\ left \subseteq DOMAIN deps
    /\ defined \in Seq(DOMAIN deps)
    /\ Range(defined) = DOMAIN deps \ left
    /\ Once(defined)
    /\ After(defined)

\* What is in one of the orders of a finite set.
LEMMA Orders ==
    ASSUME NEW S, IsFiniteSet(S), NEW s \in SetToSeqs(S)
    PROVE  s \in Seq(S) /\ Range(s) = S /\ Once(s)
<1> DEFINE n == Cardinality(S)
<1>1. n \in Nat
  BY FS_CardinalityType
<1>2. s \in [1..n -> S] /\ \A i, j \in 1..n : i # j => s[i] # s[j]
  BY DEF SetToSeqs
<1>3. IsFiniteSet(1..n) /\ Cardinality(1..n) = n
  BY <1>1, FS_Interval
<1> HIDE DEF n
<1>4. s \in Injection(1..n, S)
  BY <1>2 DEF Injection, IsInjective
<1>5. s \in Surjection(1..n, S)
  BY <1>3, <1>4, FS_Injection DEF n
<1>6. s \in Seq(S) /\ DOMAIN s = 1..n
  BY <1>1, <1>2
<1>7. Range(s) = S
  BY <1>5, <1>6 DEF Surjection, Range
<1> QED
  BY <1>2, <1>6, <1>7 DEF Once

LEMMA PassKept ==
    ASSUME DefineInv, Pass
    PROVE  DefineInv'
<1> DEFINE T == to_define  m == Len(defined)  D == DOMAIN deps
<1>1. /\ deps' = deps /\ left' = left \ T /\ T \subseteq left /\ left \subseteq D
      /\ defined \in Seq(D) /\ Range(defined) = D \ left /\ Once(defined) /\ After(defined)
  BY DEF Pass, to_define, DefineInv
<1>2. IsFiniteSet(T)
  <2>1. T \subseteq D /\ IsFiniteSet(D)
    BY <1>1 DEF DefineInv
  <2> QED BY <2>1, FS_Subset
<1>3. PICK s \in SetToSeqs(T) : defined' = defined \o s
  BY DEF Pass
<1>4. \A k \in T : deps[k] \cap left = {}
  BY DEF to_define
<1> HIDE DEF T, D
<1>5. s \in Seq(T) /\ Range(s) = T /\ Once(s)
  BY <1>2, Orders
<1>6. T \subseteq D
  BY <1>1
<1>7. s \in Seq(D)
  BY <1>5, <1>6
<1> DEFINE r == defined \o s
<1>8. /\ r \in Seq(D) /\ m \in Nat /\ Len(s) \in Nat
      /\ DOMAIN r = 1..(m + Len(s)) /\ DOMAIN defined = 1..m /\ DOMAIN s = 1..Len(s)
      /\ \A i \in 1..m : r[i] = defined[i]
      /\ \A i \in (m + 1)..(m + Len(s)) : r[i] = s[i - m] /\ i - m \in 1..Len(s)
  BY <1>1, <1>7
<1> HIDE DEF r, m
<1>9. (\A i \in 1..m : r[i] \in D \ left) /\ (\A i \in (m + 1)..(m + Len(s)) : r[i] \in T)
  BY <1>1, <1>5, <1>8 DEF Range
<1>10. Range(r) = Range(defined) \cup Range(s)
  <2>1. \A i \in 1..Len(s) : m + i \in (m + 1)..(m + Len(s)) /\ r[m + i] = s[i]
    BY <1>8
  <2>2. \A i \in 1..(m + Len(s)) : i \in 1..m \/ i \in (m + 1)..(m + Len(s))
    BY <1>8
  <2>3. ASSUME NEW i \in DOMAIN r PROVE r[i] \in Range(defined) \cup Range(s)
    BY <2>2, <1>8 DEF Range
  <2>4. ASSUME NEW x \in Range(defined) PROVE x \in Range(r)
    <3>1. PICK i \in 1..m : x = defined[i]
      BY <1>8 DEF Range
    <3>2. i \in DOMAIN r /\ r[i] = x
      BY <3>1, <1>8
    <3> QED BY <3>2 DEF Range
  <2>5. ASSUME NEW x \in Range(s) PROVE x \in Range(r)
    <3>1. PICK i \in 1..Len(s) : x = s[i]
      BY <1>8 DEF Range
    <3>2. m + i \in DOMAIN r /\ r[m + i] = x
      BY <3>1, <2>1, <1>8
    <3> QED BY <3>2 DEF Range
  <2> QED BY <2>3, <2>4, <2>5 DEF Range
<1>11. Range(r) = D \ (left \ T)
  BY <1>1, <1>5, <1>6, <1>10
<1>12. Once(r)
  <2> SUFFICES ASSUME NEW i \in DOMAIN r, NEW j \in DOMAIN r, r[i] = r[j] PROVE i = j
    BY DEF Once
  <2>1. CASE i \in 1..m /\ j \in 1..m
    BY <2>1, <1>1, <1>8 DEF Once
  <2>2. CASE i \in (m + 1)..(m + Len(s)) /\ j \in (m + 1)..(m + Len(s))
    <3>1. s[i - m] = s[j - m] /\ i - m \in DOMAIN s /\ j - m \in DOMAIN s
      BY <2>2, <1>8
    <3>2. i - m = j - m
      BY <3>1, <1>5 DEF Once
    <3> QED BY <3>2, <2>2, <1>8
  <2>3. ~(i \in 1..m /\ j \in (m + 1)..(m + Len(s))) /\ ~(j \in 1..m /\ i \in (m + 1)..(m + Len(s)))
    BY <1>1, <1>9
  <2> QED BY <2>1, <2>2, <2>3, <1>8
<1>13. After(r)
  <2> SUFFICES ASSUME NEW i \in DOMAIN r, NEW d \in deps[r[i]] \cap DOMAIN deps
               PROVE  \E j \in 1..(i - 1) : r[j] = d
    BY DEF After
  <2>1. CASE i \in 1..m
    <3>1. PICK j \in 1..(i - 1) : defined[j] = d
      BY <2>1, <1>1, <1>8 DEF After
    <3> QED BY <3>1, <2>1, <1>8
  <2>2. CASE i \in (m + 1)..(m + Len(s))
    <3>1. d \in Range(defined)
      BY <2>2, <1>1, <1>4, <1>9 DEF D
    <3>2. PICK j \in 1..m : defined[j] = d
      BY <3>1, <1>8 DEF Range
    <3> QED BY <3>2, <2>2, <1>8
  <2> QED BY <2>1, <2>2, <1>8
<1>14. defined' = r /\ left' = left \ T /\ left \ T \subseteq D /\ DOMAIN deps' = D
  BY <1>1, <1>3 DEF r, D
<1> QED
  BY <1>1, <1>8, <1>11, <1>12, <1>13, <1>14 DEF DefineInv, Once, After, D

\* DependenciesFirst for every program: define_structs of ser/codegen.c.
THEOREM DefinesInOrder == DefineSpec => []DependenciesFirst
<1>1. DefineInit => DefineInv
  BY DEF DefineInit, DefineInv, Once, After, Range
<1>2. DefineInv /\ [Pass]_<<deps, left, defined>> => DefineInv'
  <2> SUFFICES ASSUME DefineInv, [Pass]_<<deps, left, defined>> PROVE DefineInv'
    OBVIOUS
  <2>1. CASE Pass
    BY <2>1, PassKept
  <2>2. CASE UNCHANGED <<deps, left, defined>>
    BY <2>2 DEF DefineInv, Once, After
  <2> QED BY <2>1, <2>2
<1>3. DefineInv => DependenciesFirst
  <2> SUFFICES ASSUME DefineInv PROVE DependenciesFirst
    OBVIOUS
  <2>1. ASSUME to_define = {}, NEW k \in DOMAIN deps \ Range(defined)
        PROVE  \E d \in deps[k] : d \in DOMAIN deps \ Range(defined)
    <3>1. k \in left /\ left = DOMAIN deps \ Range(defined)
      BY DEF DefineInv
    <3>2. deps[k] \cap left # {}
      BY <2>1, <3>1 DEF to_define
    <3> QED BY <3>1, <3>2
  <2> QED BY <2>1 DEF DefineInv, DependenciesFirst, Once, After
<1> QED
  BY <1>1, <1>2, <1>3, PTL DEF DefineSpec
==============================================================================
