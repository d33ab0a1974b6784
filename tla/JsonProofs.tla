------------------------------ MODULE JsonProofs ------------------------------
(***************************************************************************)
(* Proofs about the JSON parser (module JsonParse), for every text and     *)
(* every size of the buffer: InBuffer and Walkable.                        *)
(*                                                                         *)
(* The inductive invariant is about a buffer d, the calls s on the stack,  *)
(* the keys ks and the place p in the code, so that the lemmas can speak   *)
(* of the state before and after a step alike.                             *)
(***************************************************************************)
EXTENDS JsonParse, SequenceTheorems, TLAPS

\* Containers whose end has not been met; their lengths are not known.
Open(s)      == {s[i].h : i \in DOMAIN s}
Closed(d, s) == Heads(d) \ Open(s)
End(d)       == Len(d) + 1
Top(s)       == s[Len(s)]

\* The calls on the stack are for headers in the buffer, one inside the other.
Stacked(d, s) ==
    /\ \A i \in DOMAIN s : s[i].h \in Heads(d) /\ d[s[i].h].type = s[i].type
    /\ \A i, j \in DOMAIN s : i < j => s[i].h < s[j].h
    /\ s # <<>> => s[1].h = 1

\* What Walkable says of headers, with those that are still open.
Tiles(d, s, ks) ==
    /\ \A h \in Closed(d, s) :
          /\ NextOf(d, h) \in Heads(d) \cup {End(d)}
          /\ d[h].type \in Container /\ d[h].len # 0 => h + 1 \in Heads(d)
          /\ d[h].type = "Object" /\ d[h].len # 0 => h + 1 \in ks
          /\ \A g \in Heads(d) : h < g /\ g < NextOf(d, h) =>
                /\ d[h].type \in Container
                /\ g \in Closed(d, s)
                /\ NextOf(d, g) <= NextOf(d, h)
    /\ \A h \in Open(s) :
          h < Len(d) => h + 1 \in Heads(d) /\ (d[h].type = "Object" => h + 1 \in ks)

\* Where the parser is, and what it has written last.
Placed(d, s, ks, p, key) ==
    /\ p \in {"key", "colon", "after"} => s # <<>>
    /\ p \in {"key", "colon"} => Top(s).type = "Object"
    /\ p = "value" /\ s = <<>> => d = <<>>
    /\ p = "value" /\ s # <<>> /\ Top(s).type = "Object" => Top(s).h < Len(d)
    /\ p \in {"string", "colon", "after"} => Len(d) \notin Open(s)
    /\ p = "string" =>
          /\ d # <<>>
          /\ d[Len(d)] = Header("String", 0)
          /\ key <=> Len(d) \in ks
          /\ key => s # <<>> /\ Top(s).type = "Object"
          /\ s = <<>> => Len(d) = 1
          /\ \A h \in Closed(d, s) : h # Len(d) => NextOf(d, h) <= Len(d)
    /\ p = "done" => s = <<>> /\ 1 \in Heads(d) /\ NextOf(d, 1) = End(d)

\* The call that a member of an object is for.
InObject(s, k) == s # <<>> /\ Top(s).type = "Object" /\ Top(s).h < k

\* What Walkable says of keys, with the member that is being read.
KeyRead(d, s, p, k) ==
    /\ NextOf(d, k) = End(d)
    /\ InObject(s, k)
    /\ p \in {"colon", "value"} \/ (p = "string" /\ k = Len(d))

ValueRead(d, s, p, k) ==
    /\ NextOf(d, NextOf(d, k)) = End(d)
    /\ InObject(s, k)
    /\ p \in {"after", "key"} \/ (p = "string" /\ NextOf(d, k) = Len(d))

Pairs(d, s, ks, p) ==
    \A k \in ks :
        /\ k \in Heads(d) /\ d[k].type = "String"
        /\ NextOf(d, k) \in Heads(d) \ ks \/ KeyRead(d, s, p, k)
        /\ \A i \in DOMAIN s : NextOf(d, k) = s[i].h =>
              i > 1 /\ s[i - 1].type = "Object" /\ s[i - 1].h < k
        /\ NextOf(d, k) \in Closed(d, s) =>
              \/ NextOf(d, NextOf(d, k)) \in ks
              \/ \E h \in Closed(d, s) : /\ h < k /\ d[h].type = "Object"
                                         /\ NextOf(d, h) = NextOf(d, NextOf(d, k))
              \/ ValueRead(d, s, p, k)

Structure(d, s, ks, p, key) ==
    Stacked(d, s) /\ Tiles(d, s, ks) /\ Placed(d, s, ks, p, key) /\ Pairs(d, s, ks, p)

ParseInv ==
    /\ ParseTypeOK
    /\ InBuffer
    /\ pc = "string" => StringHere
    /\ err # "NoError" => pc = "done"
    /\ err = "NoError" => Structure(dst, stack, keys, pc, str.key)

-----------------------------------------------------------------------------
(* Buffers *)

\* Whole cells.
LEMMA CellsNat == \A n \in Nat : Cells(n) \in Nat /\ Cells(8 * n) = n /\ n <= 8 * Cells(n)
BY DEF Cells

LEMMA CellsZero == Cells(0) = 0
BY DEF Cells

\* A cell that is no data is a header.
LEMMA CellFacts == \A c \in Cell : c.type # "data" => c.len \in Nat
BY DEF Cell

\* A header is in the buffer, and the next one comes after it.
LEMMA HeadFacts ==
    ASSUME NEW d \in Seq(Cell), NEW h \in Heads(d)
    PROVE  /\ h \in 1..Len(d) /\ h \in Nat
           /\ d[h].len \in Nat
           /\ NextOf(d, h) \in Nat /\ h < NextOf(d, h)
<1>1. h \in 1..Len(d) /\ d[h].type # "data" /\ d[h] \in Cell
  BY DEF Heads
<1>2. d[h].len \in Nat
  BY <1>1, CellFacts
<1>3. Cells(d[h].len) \in Nat
  BY <1>2, CellsNat
<1>. QED
  BY <1>1, <1>2, <1>3 DEF NextOf

\* What a step does to the buffer d: a header c is written after it, with room for what it
\* has the length of.
Wrote(d, e, c) ==
    /\ Len(e) = Len(d) + 1 + Cells(c.len)
    /\ Heads(e) = Heads(d) \cup {End(d)}
    /\ \A h \in Heads(d) : e[h] = d[h]
    /\ e[End(d)] = c

\* The string that is its last header gets its n bytes.
Ended(d, e, n) ==
    /\ Len(e) = Len(d) + Cells(n)
    /\ Heads(e) = Heads(d)
    /\ \A h \in Heads(d) : h # Len(d) => e[h] = d[h]
    /\ e[Len(d)] = Header("String", n)

\* The container at h gets its length.
Shut(d, e, h) ==
    /\ Len(e) = Len(d)
    /\ Heads(e) = Heads(d)
    /\ \A g \in Heads(d) : g # h => e[g] = d[g]
    /\ e[h].type = d[h].type /\ e[h].len = 8 * (Len(d) - h)

Datas == [type : {"data"}, x : Contents]

LEMMA DataFacts ==
    ASSUME NEW n \in Nat, NEW x \in Contents
    PROVE  Data(x, n) \in Seq(Datas) /\ Len(Data(x, n)) = Cells(n)
<1>1. Cells(n) \in Nat
  BY CellsNat
<1>2. \A i \in 1..Cells(n) : [type |-> "data", x |-> x] \in Datas
  BY DEF Datas
<1>. DEFINE f == [i \in 1..Cells(n) |-> [type |-> "data", x |-> x]]
<1>3. f \in [1..Cells(n) -> Datas]
  BY <1>2
<1>4. f \in Seq(Datas)
  BY <1>1, <1>3, IsASeq
<1>5. Len(f) = Cells(n)
  BY <1>1, <1>3, <1>4, LenProperties
<1>. QED
  BY <1>4, <1>5 DEF Data

LEMMA DatasAreCells ==
    ASSUME NEW x \in Seq(Datas)
    PROVE  x \in Seq(Cell) /\ \A i \in 1..Len(x) : x[i].type = "data"
<1>1. Datas \subseteq Cell /\ \A y \in Datas : y.type = "data"
  BY DEF Cell, Datas
<1>2. Len(x) \in Nat /\ DOMAIN x = 1..Len(x) /\ \A i \in 1..Len(x) : x[i] \in Datas
  OBVIOUS
<1>3. x \in [1..Len(x) -> Cell]
  BY <1>1, <1>2, SeqDef
<1>. QED
  BY <1>1, <1>2, <1>3, IsASeq

LEMMA WroteData ==
    ASSUME NEW d \in Seq(Cell), NEW c \in Cell, c.type # "data",
           NEW x \in Seq(Datas), Len(x) = Cells(c.len)
    PROVE  LET e == d \o (<<c>> \o x) IN e \in Seq(Cell) /\ Wrote(d, e, c)
<1>. DEFINE e == d \o (<<c>> \o x)
<1>1. x \in Seq(Cell) /\ \A i \in 1..Len(x) : x[i].type = "data"
  BY DatasAreCells
<1>2. e \in Seq(Cell) /\ Len(e) = Len(d) + 1 + Len(x)
  BY <1>1
<1>3. \A i \in 1..Len(d) : e[i] = d[i]
  BY <1>1
<1>4. e[Len(d) + 1] = c
  BY <1>1
<1>5. \A i \in 1..Len(e) : i > Len(d) + 1 => e[i].type = "data"
  <2>1. \A i \in 1..Len(e) : i > Len(d) + 1 => e[i] = x[i - Len(d) - 1] /\ i - Len(d) - 1 \in 1..Len(x)
    BY <1>1, <1>2
  <2>. QED  BY <2>1, <1>1
<1>6. DOMAIN d = 1..Len(d) /\ DOMAIN e = 1..Len(e) /\ Len(d) \in Nat /\ Len(x) \in Nat
  BY <1>2
<1>. HIDE DEF e
<1>7. Heads(e) = Heads(d) \cup {Len(d) + 1}
  <2>1. \A i : i \in 1..Len(e) /\ e[i].type # "data"
               <=> (i \in 1..Len(d) /\ d[i].type # "data") \/ i = Len(d) + 1
    BY <1>2, <1>3, <1>4, <1>5, <1>6
  <2>. QED  BY <2>1, <1>6 DEF Heads
<1>8. \A h \in Heads(d) : e[h] = d[h]
  BY <1>3, <1>6 DEF Heads
<1>. QED
  BY <1>2, <1>4, <1>7, <1>8 DEF Wrote, End, e

LEMMA EndedString ==
    ASSUME NEW d \in Seq(Cell), d # <<>>, d[Len(d)] = Header("String", 0),
           NEW n \in Nat, NEW x \in Seq(Datas), Len(x) = Cells(n)
    PROVE  LET e == [d EXCEPT ![Len(d)].len = n] \o x IN e \in Seq(Cell) /\ Ended(d, e, n)
<1>. DEFINE f == [d EXCEPT ![Len(d)].len = n]
            e == f \o x
<1>1. Len(d) \in 1..Len(d) /\ DOMAIN d = 1..Len(d) /\ Len(d) \in Nat
  OBVIOUS
<1>2. Header("String", n) \in Cell /\ Header("String", n).type # "data"
  BY DEF Header, Cell
<1>3. [d[Len(d)] EXCEPT !.len = n] = Header("String", n)
  BY DEF Header
<1>4. /\ DOMAIN f = 1..Len(d)
      /\ f[Len(d)] = Header("String", n)
      /\ \A i \in 1..Len(d) : i # Len(d) => f[i] = d[i]
  BY <1>1, <1>3
<1>5. f \in [1..Len(d) -> Cell]
  BY <1>1, <1>2, <1>4
<1>6. f \in Seq(Cell) /\ Len(f) = Len(d)
  BY <1>1, <1>5, IsASeq, LenProperties
<1>7. x \in Seq(Cell) /\ \A i \in 1..Len(x) : x[i].type = "data"
  BY DatasAreCells
<1>. HIDE DEF f
<1>8. e \in Seq(Cell) /\ Len(e) = Len(d) + Len(x) /\ DOMAIN e = 1..Len(e) /\ Len(x) \in Nat
  <2>1. e \in Seq(Cell) /\ Len(e) = Len(f) + Len(x) /\ Len(x) \in Nat
    <3>1. f \in Seq(Cell) /\ x \in Seq(Cell)
      BY <1>6, <1>7
    <3>. QED  BY <3>1
  <2>. HIDE DEF e
  <2>. QED  BY <2>1, <1>6
<1>9. \A i \in 1..Len(d) : e[i] = f[i]
  BY <1>6, <1>7
<1>10. \A i \in 1..Len(e) : i > Len(d) => e[i].type = "data"
  <2>1. \A i \in 1..Len(e) : i > Len(d) => e[i] = x[i - Len(d)] /\ i - Len(d) \in 1..Len(x)
    BY <1>6, <1>7, <1>8, ConcatProperties
  <2>. QED  BY <2>1, <1>7
<1>11. d[Len(d)].type # "data"
  BY DEF Header
<1>. HIDE DEF e
<1>12. Heads(e) = Heads(d)
  <2>1. \A i \in 1..Len(d) : e[i].type # "data" <=> d[i].type # "data"
    BY <1>1, <1>2, <1>4, <1>9, <1>11
  <2>2. \A i : i \in 1..Len(e) /\ e[i].type # "data" <=> i \in 1..Len(d) /\ d[i].type # "data"
    BY <2>1, <1>1, <1>8, <1>10
  <2>. QED  BY <2>2, <1>1, <1>8 DEF Heads
<1>13. \A h \in Heads(d) : h # Len(d) => e[h] = d[h]
  BY <1>1, <1>4, <1>9 DEF Heads
<1>14. e[Len(d)] = Header("String", n)
  BY <1>1, <1>4, <1>9
<1>. QED
  BY <1>8, <1>12, <1>13, <1>14 DEF Ended, f, e

LEMMA ShutContainer ==
    ASSUME NEW d \in Seq(Cell), NEW h \in Heads(d)
    PROVE  LET e == [d EXCEPT ![h].len = 8 * (Len(d) - h)] IN e \in Seq(Cell) /\ Shut(d, e, h)
<1>. DEFINE n == 8 * (Len(d) - h)
            e == [d EXCEPT ![h].len = n]
<1>1. h \in 1..Len(d) /\ DOMAIN d = 1..Len(d) /\ Len(d) \in Nat
  BY HeadFacts
<1>2. n \in Nat /\ d[h] \in Cell /\ d[h].type # "data"
  BY <1>1 DEF Heads
<1>. HIDE DEF n
<1>3. \A c \in Cell : c.type # "data" => [c EXCEPT !.len = n] \in Cell
  BY <1>2 DEF Cell
<1>4. \A c \in Cell : c.type # "data" => [c EXCEPT !.len = n].type = c.type /\ [c EXCEPT !.len = n].len = n
  BY <1>2 DEF Cell
<1>5. /\ DOMAIN e = 1..Len(d)
      /\ e[h] = [d[h] EXCEPT !.len = n]
      /\ \A i \in 1..Len(d) : i # h => e[i] = d[i]
  BY <1>1
<1>6. e[h] \in Cell /\ e[h].type = d[h].type /\ e[h].len = n
  BY <1>2, <1>3, <1>4, <1>5
<1>7. e \in [1..Len(d) -> Cell]
  BY <1>1, <1>5, <1>6
<1>8. e \in Seq(Cell) /\ Len(e) = Len(d)
  BY <1>1, <1>7, IsASeq, LenProperties
<1>. HIDE DEF e
<1>9. Heads(e) = Heads(d)
  BY <1>1, <1>5, <1>6 DEF Heads
<1>10. \A g \in Heads(d) : g # h => e[g] = d[g]
  BY <1>1, <1>5 DEF Heads
<1>. QED
  BY <1>6, <1>8, <1>9, <1>10 DEF Shut, n, e

-----------------------------------------------------------------------------
(* A header is written *)

Frame == [type : Container, h : Nat \ {0}]

LEMMA WroteNext ==
    ASSUME NEW d \in Seq(Cell), NEW e \in Seq(Cell), NEW c \in Cell, c.type # "data",
           Wrote(d, e, c)
    PROVE  /\ \A h \in Heads(d) : e[h] = d[h] /\ NextOf(e, h) = NextOf(d, h)
           /\ NextOf(e, End(d)) = End(e) /\ e[End(d)] = c
           /\ Heads(e) = Heads(d) \cup {End(d)}
           /\ End(d) \notin Heads(d)
           /\ End(d) \in Nat /\ End(e) \in Nat /\ End(d) < End(e)
           /\ Len(d) \in Nat /\ End(d) = Len(d) + 1 /\ End(e) = Len(e) + 1
           /\ c.len = 0 => Len(e) = End(d)
<1>1. \A h \in Heads(d) : e[h] = d[h] /\ NextOf(e, h) = NextOf(d, h)
  BY DEF Wrote, NextOf
<1>2. c.len \in Nat
  BY CellFacts
<1>3. Cells(c.len) \in Nat
  BY <1>2, CellsNat
<1>4. Len(d) \in Nat /\ Len(e) \in Nat
  OBVIOUS
<1>5. NextOf(e, End(d)) = End(e)
  BY <1>3, <1>4 DEF Wrote, NextOf, End
<1>6. End(d) \notin Heads(d)
  BY <1>4 DEF Heads, End
<1>7. c.len = 0 => Len(e) = End(d)
  BY <1>4, CellsZero DEF Wrote, End
<1>8. End(d) \in Nat /\ End(e) \in Nat /\ End(d) < End(e) /\ End(d) = Len(d) + 1 /\ End(e) = Len(e) + 1
  BY <1>3, <1>4 DEF Wrote, End
<1>. QED
  BY <1>1, <1>4, <1>5, <1>6, <1>7, <1>8 DEF Wrote

\* Calls are for headers in the buffer.
LEMMA OpenFacts ==
    ASSUME NEW d \in Seq(Cell), NEW s \in Seq(Frame), Stacked(d, s)
    PROVE  /\ Open(s) \subseteq Heads(d)
           /\ \A h \in Open(s) : h \in 1..Len(d) /\ h \in Nat /\ d[h].type \in Container
           /\ s # <<>> => /\ Len(s) \in DOMAIN s /\ Top(s) \in Frame /\ Top(s).h \in Open(s)
                          /\ d[Top(s).h].type = Top(s).type
                          /\ \A h \in Open(s) : h <= Top(s).h
<1>1. \A i \in DOMAIN s : s[i] \in Frame /\ s[i].h \in Heads(d) /\ d[s[i].h].type = s[i].type
  BY DEF Stacked
<1>2. Open(s) \subseteq Heads(d)
  BY <1>1 DEF Open
<1>3. \A h \in Open(s) : d[h].type \in Container
  BY <1>1 DEF Open, Frame
<1>4. \A h \in Open(s) : h \in 1..Len(d) /\ h \in Nat
  BY <1>2, HeadFacts
<1>5. ASSUME s # <<>>
      PROVE  /\ Len(s) \in DOMAIN s /\ Top(s) \in Frame /\ Top(s).h \in Open(s)
             /\ d[Top(s).h].type = Top(s).type
             /\ \A h \in Open(s) : h <= Top(s).h
  <2>1. Len(s) \in DOMAIN s /\ DOMAIN s = 1..Len(s) /\ Len(s) \in Nat
    BY <1>5
  <2>2. \A i \in DOMAIN s : s[i].h \in Nat
    BY <1>1, HeadFacts
  <2>3. \A i \in DOMAIN s : s[i].h <= s[Len(s)].h
    <3>1. \A i, j \in DOMAIN s : i < j => s[i].h < s[j].h
      BY DEF Stacked
    <3>. QED  BY <2>1, <2>2, <3>1
  <2>. QED  BY <1>1, <2>1, <2>3 DEF Top, Open
<1>. QED
  BY <1>2, <1>3, <1>4, <1>5

\* A call for the last cell is the last one.
LEMMA LastIsTop ==
    ASSUME NEW d \in Seq(Cell), NEW s \in Seq(Frame), Stacked(d, s),
           NEW h \in Open(s), h = Len(d)
    PROVE  s # <<>> /\ Top(s).h = h /\ d[h].type = Top(s).type
<1>1. s # <<>>
  BY DEF Open
<1>2. Top(s).h \in 1..Len(d) /\ h <= Top(s).h /\ d[Top(s).h].type = Top(s).type /\ Len(d) \in Nat
  BY <1>1, OpenFacts
<1>. QED
  BY <1>1, <1>2

LEMMA WroteTiles ==
    ASSUME NEW d \in Seq(Cell), NEW e \in Seq(Cell), NEW c \in Cell, c.type # "data",
           Wrote(d, e, c), c.type \in Container => c.len = 0,
           NEW s \in Seq(Frame), NEW t, NEW ks, NEW ls,
           Stacked(d, s), Tiles(d, s, ks), ks \subseteq ls,
           Open(t) = Open(s) \/ (Open(t) = Open(s) \cup {End(d)} /\ c.len = 0),
           \A h \in Open(s) : h = Len(d) /\ d[h].type = "Object" => End(d) \in ls
    PROVE  Tiles(e, t, ls)
<1>1. /\ \A h \in Heads(d) : e[h] = d[h] /\ NextOf(e, h) = NextOf(d, h)
      /\ NextOf(e, End(d)) = End(e) /\ e[End(d)] = c
      /\ Heads(e) = Heads(d) \cup {End(d)}
      /\ End(d) \notin Heads(d)
      /\ End(d) \in Nat /\ End(e) \in Nat /\ End(d) < End(e)
      /\ Len(d) \in Nat /\ End(d) = Len(d) + 1 /\ End(e) = Len(e) + 1
      /\ c.len = 0 => Len(e) = End(d)
  BY WroteNext
<1>2. Open(s) \subseteq Heads(d) /\ \A h \in Open(s) : h \in 1..Len(d) /\ h \in Nat
  BY OpenFacts
<1>3. \A h \in Heads(d) : h \in Nat /\ h <= Len(d) /\ NextOf(d, h) \in Nat
  BY HeadFacts
<1>4. Closed(d, s) \subseteq Closed(e, t) /\ Closed(e, t) \subseteq Closed(d, s) \cup {End(d)}
  BY <1>1, <1>2 DEF Closed
<1>5. ASSUME NEW h \in Closed(e, t)
      PROVE  /\ NextOf(e, h) \in Heads(e) \cup {End(e)}
             /\ e[h].type \in Container /\ e[h].len # 0 => h + 1 \in Heads(e)
             /\ e[h].type = "Object" /\ e[h].len # 0 => h + 1 \in ls
             /\ \A g \in Heads(e) : h < g /\ g < NextOf(e, h) =>
                   /\ e[h].type \in Container
                   /\ g \in Closed(e, t)
                   /\ NextOf(e, g) <= NextOf(e, h)
  <2>1. CASE h = End(d)
    <3>1. \A g \in Heads(e) : ~(h < g)
      BY <2>1, <1>1, <1>3
    <3>. QED  BY <2>1, <3>1, <1>1 DEF Container
  <2>2. CASE h \in Closed(d, s)
    <3>1. h \in Heads(d)
      BY <2>2 DEF Closed
    <3>2. /\ NextOf(d, h) \in Heads(d) \cup {End(d)}
          /\ d[h].type \in Container /\ d[h].len # 0 => h + 1 \in Heads(d)
          /\ d[h].type = "Object" /\ d[h].len # 0 => h + 1 \in ks
          /\ \A g \in Heads(d) : h < g /\ g < NextOf(d, h) =>
                /\ d[h].type \in Container
                /\ g \in Closed(d, s)
                /\ NextOf(d, g) <= NextOf(d, h)
      BY <2>2 DEF Tiles
    <3>3. e[h] = d[h] /\ NextOf(e, h) = NextOf(d, h) /\ NextOf(d, h) <= End(d) /\ NextOf(d, h) \in Nat
      BY <3>1, <3>2, <1>1, <1>3
    <3>4. ASSUME NEW g \in Heads(e), h < g, g < NextOf(e, h)
          PROVE  /\ e[h].type \in Container
                 /\ g \in Closed(e, t)
                 /\ NextOf(e, g) <= NextOf(e, h)
      <4>1. g \in Heads(d)
        BY <3>3, <3>4, <1>1
      <4>. QED  BY <4>1, <3>2, <3>3, <3>4, <1>1, <1>4
    <3>. QED  BY <3>2, <3>3, <3>4, <1>1
  <2>. QED  BY <2>1, <2>2, <1>4
<1>6. ASSUME NEW h \in Open(t), h < Len(e)
      PROVE  h + 1 \in Heads(e) /\ (e[h].type = "Object" => h + 1 \in ls)
  <2>1. h \in Open(s)
    BY <1>1, <1>6
  <2>2. CASE h < Len(d)
    <3>1. h + 1 \in Heads(d) /\ (d[h].type = "Object" => h + 1 \in ks)
      BY <2>1, <2>2 DEF Tiles
    <3>. QED  BY <3>1, <2>1, <1>1, <1>2
  <2>3. CASE h = Len(d)
    BY <2>1, <2>3, <1>1, <1>2
  <2>. QED  BY <2>1, <2>2, <2>3, <1>1, <1>2
<1>. QED
  BY <1>5, <1>6 DEF Tiles

\* A call is added to the stack.
Pushed(s, t, f) ==
    /\ Len(t) = Len(s) + 1
    /\ \A i \in DOMAIN s : t[i] = s[i]
    /\ t[Len(t)] = f

LEMMA PushedCalls ==
    ASSUME NEW s \in Seq(Frame), NEW f \in Frame
    PROVE  Append(s, f) \in Seq(Frame) /\ Pushed(s, Append(s, f), f)
BY DEF Pushed

LEMMA PushedFacts ==
    ASSUME NEW s \in Seq(Frame), NEW t \in Seq(Frame), NEW f \in Frame, Pushed(s, t, f)
    PROVE  /\ Len(s) \in Nat /\ DOMAIN s = 1..Len(s) /\ DOMAIN t = 1..(Len(s) + 1)
           /\ \A i \in DOMAIN s : i \in DOMAIN t /\ t[i] = s[i]
           /\ t[Len(s) + 1] = f /\ t # <<>> /\ Top(t) = f
           /\ Open(t) = Open(s) \cup {f.h}
<1>1. Len(s) \in Nat /\ DOMAIN s = 1..Len(s) /\ Len(t) = Len(s) + 1 /\ DOMAIN t = 1..Len(t)
  BY DEF Pushed
<1>2. \A i \in DOMAIN s : i \in DOMAIN t /\ t[i] = s[i]
  BY <1>1 DEF Pushed
<1>3. t[Len(s) + 1] = f /\ Top(t) = f
  BY <1>1 DEF Pushed, Top
<1>4. t # <<>>
  BY <1>1
<1>5. \A i \in DOMAIN t : i \in DOMAIN s \/ i = Len(s) + 1
  BY <1>1
<1>6. Open(t) = Open(s) \cup {f.h}
  BY <1>1, <1>2, <1>3, <1>5 DEF Open
<1>. QED
  BY <1>1, <1>2, <1>3, <1>4, <1>6

\* A value is written: a scalar, a container, or the header of a string.
LEMMA WrotePairs ==
    ASSUME NEW d \in Seq(Cell), NEW e \in Seq(Cell), NEW c \in Cell, c.type # "data",
           Wrote(d, e, c),
           NEW s \in Seq(Frame), NEW t \in Seq(Frame), NEW ks, NEW q,
           Stacked(d, s), Pairs(d, s, ks, "value"),
           NEW f \in Frame, f.h = End(d),
           t = s \/ Pushed(s, t, f),
           t = s => /\ q = "string" => c.len = 0
                    /\ s # <<>> => q \in {"after", "string"}
    PROVE  Pairs(e, t, ks, q)
<1>1. /\ \A h \in Heads(d) : e[h] = d[h] /\ NextOf(e, h) = NextOf(d, h)
      /\ NextOf(e, End(d)) = End(e) /\ e[End(d)] = c
      /\ Heads(e) = Heads(d) \cup {End(d)}
      /\ End(d) \notin Heads(d)
      /\ End(d) \in Nat /\ End(e) \in Nat /\ End(d) < End(e)
      /\ Len(d) \in Nat /\ End(d) = Len(d) + 1 /\ End(e) = Len(e) + 1
      /\ c.len = 0 => Len(e) = End(d)
  BY WroteNext
<1>2. Open(s) \subseteq Heads(d)
  BY OpenFacts
<1>3. /\ Len(s) \in Nat /\ DOMAIN s = 1..Len(s)
      /\ \A i \in DOMAIN s : i \in DOMAIN t /\ t[i] = s[i] /\ s[i].h \in Heads(d)
      /\ \A i \in DOMAIN t : i \in DOMAIN s \/ (i = Len(s) + 1 /\ t[i].h = End(d))
      /\ \A i \in DOMAIN t : i \in Nat /\ i >= 1
  <2>1. Len(s) \in Nat /\ DOMAIN s = 1..Len(s) /\ \A i \in DOMAIN s : s[i].h \in Heads(d)
    BY DEF Stacked
  <2>2. CASE t = s
    BY <2>1, <2>2
  <2>3. CASE Pushed(s, t, f)
    <3>1. /\ DOMAIN t = 1..(Len(s) + 1)
          /\ \A i \in DOMAIN s : i \in DOMAIN t /\ t[i] = s[i]
          /\ t[Len(s) + 1] = f
      BY <2>3, PushedFacts
    <3>. QED  BY <2>1, <3>1
  <2>. QED  BY <2>2, <2>3
<1>4. \A h \in Heads(d) : h \in Closed(d, s) <=> h \in Closed(e, t)
  BY <1>1, <1>3 DEF Closed, Open
<1>5. ASSUME NEW k \in ks
      PROVE  /\ k \in Heads(e) /\ e[k].type = "String"
             /\ NextOf(e, k) \in Heads(e) \ ks \/ KeyRead(e, t, q, k)
             /\ \A i \in DOMAIN t : NextOf(e, k) = t[i].h =>
                   i > 1 /\ t[i - 1].type = "Object" /\ t[i - 1].h < k
             /\ NextOf(e, k) \in Closed(e, t) =>
                   \/ NextOf(e, NextOf(e, k)) \in ks
                   \/ \E h \in Closed(e, t) : /\ h < k /\ e[h].type = "Object"
                                              /\ NextOf(e, h) = NextOf(e, NextOf(e, k))
                   \/ ValueRead(e, t, q, k)
  <2>1. /\ k \in Heads(d) /\ d[k].type = "String"
        /\ NextOf(d, k) \in Heads(d) \ ks \/ KeyRead(d, s, "value", k)
        /\ \A i \in DOMAIN s : NextOf(d, k) = s[i].h =>
              i > 1 /\ s[i - 1].type = "Object" /\ s[i - 1].h < k
        /\ NextOf(d, k) \in Closed(d, s) =>
              \/ NextOf(d, NextOf(d, k)) \in ks
              \/ \E h \in Closed(d, s) : /\ h < k /\ d[h].type = "Object"
                                         /\ NextOf(d, h) = NextOf(d, NextOf(d, k))
              \/ ValueRead(d, s, "value", k)
    BY <1>5 DEF Pairs
  <2>2. k \in Heads(e) /\ e[k] = d[k] /\ NextOf(e, k) = NextOf(d, k)
    BY <2>1, <1>1
  <2>3. End(d) \notin ks
    BY <1>1 DEF Pairs
  <2>4. CASE NextOf(d, k) \in Heads(d) \ ks
    <3>1. NextOf(d, k) # End(d) /\ NextOf(e, NextOf(d, k)) = NextOf(d, NextOf(d, k))
      BY <2>4, <1>1
    <3>2. \A i \in DOMAIN t : NextOf(e, k) = t[i].h =>
             i > 1 /\ t[i - 1].type = "Object" /\ t[i - 1].h < k
      <4>. SUFFICES ASSUME NEW i \in DOMAIN t, NextOf(e, k) = t[i].h
                    PROVE  i > 1 /\ t[i - 1].type = "Object" /\ t[i - 1].h < k
        OBVIOUS
      <4>1. i \in DOMAIN s /\ NextOf(d, k) = s[i].h
        BY <1>3, <2>2, <3>1
      <4>2. i > 1 /\ s[i - 1].type = "Object" /\ s[i - 1].h < k
        BY <4>1, <2>1
      <4>. QED  BY <4>1, <4>2, <1>3
    <3>3. ASSUME NextOf(e, k) \in Closed(e, t)
          PROVE  \/ NextOf(e, NextOf(e, k)) \in ks
                 \/ \E h \in Closed(e, t) : /\ h < k /\ e[h].type = "Object"
                                            /\ NextOf(e, h) = NextOf(e, NextOf(e, k))
      <4>1. NextOf(d, k) \in Closed(d, s)
        BY <3>3, <2>2, <2>4, <1>4
      <4>2. ~ValueRead(d, s, "value", k)
        BY DEF ValueRead
      <4>3. CASE NextOf(d, NextOf(d, k)) \in ks
        BY <4>3, <2>2, <3>1
      <4>4. CASE \E h \in Closed(d, s) : /\ h < k /\ d[h].type = "Object"
                                         /\ NextOf(d, h) = NextOf(d, NextOf(d, k))
        <5>1. PICK h \in Closed(d, s) : /\ h < k /\ d[h].type = "Object"
                                        /\ NextOf(d, h) = NextOf(d, NextOf(d, k))
          BY <4>4
        <5>2. h \in Heads(d) /\ h \in Closed(e, t)
          BY <1>4 DEF Closed
        <5>3. e[h] = d[h] /\ NextOf(e, h) = NextOf(d, h)
          BY <5>2, <1>1
        <5>. QED  BY <5>1, <5>2, <5>3, <2>2, <3>1
      <4>. QED  BY <4>1, <4>2, <4>3, <4>4, <2>1
    <3>. QED  BY <2>1, <2>2, <2>4, <3>2, <3>3, <1>1
  <2>5. CASE KeyRead(d, s, "value", k)
    <3>1. NextOf(d, k) = End(d) /\ InObject(s, k)
      BY <2>5 DEF KeyRead
    <3>2. NextOf(e, k) = End(d) /\ NextOf(e, k) \in Heads(e) \ ks
      BY <2>2, <2>3, <3>1, <1>1
    <3>3. Len(s) \in DOMAIN s /\ s[Len(s)].type = "Object" /\ s[Len(s)].h < k /\ s # <<>>
      BY <3>1, <1>3 DEF InObject, Top
    <3>4. \A i \in DOMAIN t : NextOf(e, k) = t[i].h =>
             i > 1 /\ t[i - 1].type = "Object" /\ t[i - 1].h < k
      <4>. SUFFICES ASSUME NEW i \in DOMAIN t, NextOf(e, k) = t[i].h
                    PROVE  i > 1 /\ t[i - 1].type = "Object" /\ t[i - 1].h < k
        OBVIOUS
      <4>1. i \notin DOMAIN s
        BY <1>1, <1>3, <3>2
      <4>2. i = Len(s) + 1
        BY <4>1, <1>3
      <4>3. i - 1 = Len(s) /\ i > 1
        BY <4>2, <3>3, <1>3
      <4>. QED  BY <4>3, <3>3, <1>3
    <3>5. ASSUME NextOf(e, k) \in Closed(e, t)
          PROVE  ValueRead(e, t, q, k)
      <4>1. End(d) \notin Open(t)
        BY <3>2, <3>5 DEF Closed
      <4>2. t = s
        <5>1. ASSUME Pushed(s, t, f)  PROVE  FALSE
          BY <4>1, <5>1, PushedFacts
        <5>. QED  BY <5>1
      <4>3. q = "after" \/ (q = "string" /\ Len(e) = End(d))
        BY <4>2, <3>3, <1>1, <1>3
      <4>. QED  BY <4>2, <4>3, <3>1, <3>2, <1>1 DEF ValueRead
    <3>. QED  BY <2>1, <2>2, <3>2, <3>4, <3>5
  <2>. QED  BY <2>1, <2>4, <2>5
<1>. QED
  BY <1>5 DEF Pairs

\* The header of a key is written.
LEMMA KeyPairs ==
    ASSUME NEW d \in Seq(Cell), NEW e \in Seq(Cell), NEW c \in Cell,
           c.type = "String", c.len = 0, Wrote(d, e, c),
           NEW s \in Seq(Frame), NEW ks, s # <<>>, Top(s).type = "Object",
           Stacked(d, s), Pairs(d, s, ks, "key")
    PROVE  Pairs(e, s, ks \cup {End(d)}, "string")
<1>1. /\ \A h \in Heads(d) : e[h] = d[h] /\ NextOf(e, h) = NextOf(d, h)
      /\ NextOf(e, End(d)) = End(e) /\ e[End(d)] = c
      /\ Heads(e) = Heads(d) \cup {End(d)}
      /\ End(d) \notin Heads(d)
      /\ End(d) \in Nat /\ End(e) \in Nat /\ End(d) < End(e)
      /\ Len(d) \in Nat /\ End(d) = Len(d) + 1 /\ End(e) = Len(e) + 1
      /\ c.len = 0 => Len(e) = End(d)
  BY WroteNext
<1>2. /\ Open(s) \subseteq Heads(d)
      /\ \A h \in Open(s) : h \in 1..Len(d) /\ h \in Nat
      /\ Top(s).h \in Open(s)
  BY OpenFacts
<1>3. \A i \in DOMAIN s : s[i].h \in Heads(d) /\ s[i].h <= Len(d) /\ s[i].h \in Nat
  BY <1>2 DEF Open
<1>4. \A h \in Heads(d) : h \in Closed(d, s) <=> h \in Closed(e, s)
  BY <1>1 DEF Closed
<1>. DEFINE ls == ks \cup {End(d)}
<1>5. ASSUME NEW k \in ls
      PROVE  /\ k \in Heads(e) /\ e[k].type = "String"
             /\ NextOf(e, k) \in Heads(e) \ ls \/ KeyRead(e, s, "string", k)
             /\ \A i \in DOMAIN s : NextOf(e, k) = s[i].h =>
                   i > 1 /\ s[i - 1].type = "Object" /\ s[i - 1].h < k
             /\ NextOf(e, k) \in Closed(e, s) =>
                   \/ NextOf(e, NextOf(e, k)) \in ls
                   \/ \E h \in Closed(e, s) : /\ h < k /\ e[h].type = "Object"
                                              /\ NextOf(e, h) = NextOf(e, NextOf(e, k))
                   \/ ValueRead(e, s, "string", k)
  <2>1. CASE k = End(d)
    <3>1. KeyRead(e, s, "string", k)
      BY <2>1, <1>1, <1>2 DEF KeyRead, InObject
    <3>2. \A i \in DOMAIN s : NextOf(e, k) # s[i].h
      BY <2>1, <1>1, <1>3
    <3>3. NextOf(e, k) \notin Closed(e, s)
      BY <2>1, <1>1, HeadFacts DEF Closed
    <3>. QED  BY <2>1, <3>1, <3>2, <3>3, <1>1
  <2>2. CASE k \in ks
    <3>1. /\ k \in Heads(d) /\ d[k].type = "String"
          /\ NextOf(d, k) \in Heads(d) \ ks \/ KeyRead(d, s, "key", k)
          /\ \A i \in DOMAIN s : NextOf(d, k) = s[i].h =>
                i > 1 /\ s[i - 1].type = "Object" /\ s[i - 1].h < k
          /\ NextOf(d, k) \in Closed(d, s) =>
                \/ NextOf(d, NextOf(d, k)) \in ks
                \/ \E h \in Closed(d, s) : /\ h < k /\ d[h].type = "Object"
                                           /\ NextOf(d, h) = NextOf(d, NextOf(d, k))
                \/ ValueRead(d, s, "key", k)
      BY <2>2 DEF Pairs
    <3>2. NextOf(d, k) \in Heads(d) \ ks
      BY <3>1 DEF KeyRead
    <3>3. /\ e[k] = d[k] /\ NextOf(e, k) = NextOf(d, k) /\ NextOf(d, k) \in Heads(e) \ ls
          /\ NextOf(e, NextOf(d, k)) = NextOf(d, NextOf(d, k))
      BY <3>1, <3>2, <1>1
    <3>4. ASSUME NextOf(e, k) \in Closed(e, s)
          PROVE  \/ NextOf(e, NextOf(e, k)) \in ls
                 \/ \E h \in Closed(e, s) : /\ h < k /\ e[h].type = "Object"
                                            /\ NextOf(e, h) = NextOf(e, NextOf(e, k))
      <4>1. NextOf(d, k) \in Closed(d, s)
        BY <3>2, <3>3, <3>4, <1>4
      <4>2. CASE NextOf(d, NextOf(d, k)) \in ks \/ ValueRead(d, s, "key", k)
        BY <4>2, <3>3 DEF ValueRead
      <4>3. CASE \E h \in Closed(d, s) : /\ h < k /\ d[h].type = "Object"
                                         /\ NextOf(d, h) = NextOf(d, NextOf(d, k))
        <5>1. PICK h \in Closed(d, s) : /\ h < k /\ d[h].type = "Object"
                                        /\ NextOf(d, h) = NextOf(d, NextOf(d, k))
          BY <4>3
        <5>2. h \in Heads(d) /\ h \in Closed(e, s)
          BY <1>4 DEF Closed
        <5>3. e[h] = d[h] /\ NextOf(e, h) = NextOf(d, h)
          BY <5>2, <1>1
        <5>. QED  BY <5>1, <5>2, <5>3, <3>3
      <4>. QED  BY <4>1, <4>2, <4>3, <3>1
    <3>. QED  BY <3>1, <3>3, <3>4, <1>1
  <2>. QED  BY <2>1, <2>2
<1>. QED
  BY <1>5 DEF Pairs

LEMMA WroteStacked ==
    ASSUME NEW d \in Seq(Cell), NEW e \in Seq(Cell), NEW c \in Cell, c.type # "data",
           Wrote(d, e, c), NEW s \in Seq(Frame), Stacked(d, s)
    PROVE  Stacked(e, s)
<1>1. \A h \in Heads(d) : h \in Heads(e) /\ e[h] = d[h]
  BY WroteNext
<1>. QED
  BY <1>1 DEF Stacked

LEMMA PushedStacked ==
    ASSUME NEW d \in Seq(Cell), NEW e \in Seq(Cell), NEW c \in Cell, c.type # "data",
           Wrote(d, e, c), NEW s \in Seq(Frame), NEW t \in Seq(Frame), NEW f \in Frame,
           Stacked(d, s), Pushed(s, t, f), f.h = End(d), f.type = c.type, s = <<>> => d = <<>>
    PROVE  Stacked(e, t)
<1>1. /\ \A h \in Heads(d) : h \in Heads(e) /\ e[h] = d[h]
      /\ End(d) \in Heads(e) /\ e[End(d)] = c
      /\ Len(d) \in Nat /\ End(d) = Len(d) + 1
  BY WroteNext
<1>2. /\ Len(s) \in Nat /\ DOMAIN s = 1..Len(s) /\ DOMAIN t = 1..(Len(s) + 1)
      /\ \A i \in DOMAIN s : i \in DOMAIN t /\ t[i] = s[i]
      /\ t[Len(s) + 1] = f
  BY PushedFacts
<1>3. /\ \A i \in DOMAIN s : s[i].h \in Heads(d) /\ d[s[i].h].type = s[i].type
      /\ \A i, j \in DOMAIN s : i < j => s[i].h < s[j].h
      /\ s # <<>> => s[1].h = 1
  BY DEF Stacked
<1>4. \A h \in Heads(d) : h \in Nat /\ h < End(d)
  BY <1>1, HeadFacts
<1>5. ASSUME NEW i \in DOMAIN t  PROVE  t[i].h \in Heads(e) /\ e[t[i].h].type = t[i].type
  <2>1. CASE i \in DOMAIN s
    BY <2>1, <1>1, <1>2, <1>3
  <2>2. CASE i = Len(s) + 1
    BY <2>2, <1>1, <1>2
  <2>. QED  BY <2>1, <2>2, <1>2
<1>6. ASSUME NEW i \in DOMAIN t, NEW j \in DOMAIN t, i < j  PROVE  t[i].h < t[j].h
  <2>1. i \in DOMAIN s
    BY <1>2, <1>6
  <2>2. CASE j \in DOMAIN s
    BY <2>1, <2>2, <1>2, <1>3, <1>6
  <2>3. CASE j = Len(s) + 1
    BY <2>1, <2>3, <1>2, <1>3, <1>4
  <2>. QED  BY <2>2, <2>3, <1>2
<1>7. t[1].h = 1
  <2>1. CASE s = <<>>
    <3>1. Len(s) = 0 /\ Len(d) = 0
      BY <2>1
    <3>. QED  BY <3>1, <1>1, <1>2
  <2>2. CASE s # <<>>
    <3>1. 1 \in DOMAIN s
      BY <2>2
    <3>. QED  BY <2>2, <3>1, <1>2, <1>3
  <2>. QED  BY <2>1, <2>2
<1>. QED
  BY <1>5, <1>6, <1>7 DEF Stacked

\* A scalar or an empty container is there.
LEMMA ScalarStructure ==
    ASSUME NEW d \in Seq(Cell), NEW e \in Seq(Cell), NEW c \in Cell, c.type # "data",
           Wrote(d, e, c), c.type \in Container => c.len = 0,
           NEW s \in Seq(Frame), NEW ks, NEW key, NEW b,
           Structure(d, s, ks, "value", key)
    PROVE  Structure(e, s, ks, IF s = <<>> THEN "done" ELSE "after", b)
<1>. DEFINE q == IF s = <<>> THEN "done" ELSE "after"
<1>1. Stacked(d, s) /\ Tiles(d, s, ks) /\ Placed(d, s, ks, "value", key) /\ Pairs(d, s, ks, "value")
  BY DEF Structure
<1>2. Stacked(e, s)
  BY <1>1, WroteStacked
<1>3. /\ Open(s) \subseteq Heads(d)
      /\ \A h \in Open(s) : h \in 1..Len(d) /\ h \in Nat
      /\ s # <<>> => /\ Top(s).h \in Open(s) /\ d[Top(s).h].type = Top(s).type
                     /\ \A h \in Open(s) : h <= Top(s).h
  BY <1>1, OpenFacts
<1>4. ASSUME NEW h \in Open(s), h = Len(d), d[h].type = "Object"  PROVE  FALSE
  <2>1. s # <<>> /\ Top(s).h = h
    BY <1>1, <1>4, LastIsTop
  <2>. QED  BY <2>1, <1>1, <1>3, <1>4 DEF Placed
<1>5. Tiles(e, s, ks)
  BY <1>1, <1>4, WroteTiles
<1>6. Pairs(e, s, ks, q)
  <2>. DEFINE f == [type |-> "Array", h |-> End(d)]
  <2>1. f \in Frame /\ f.h = End(d)
    BY WroteNext DEF Frame, Container, End
  <2>. HIDE DEF f
  <2>. QED  BY <2>1, <1>1, WrotePairs
<1>7. /\ NextOf(e, End(d)) = End(e) /\ Heads(e) = Heads(d) \cup {End(d)}
      /\ End(d) = Len(d) + 1 /\ End(e) = Len(e) + 1 /\ End(d) < End(e) /\ End(d) \in Nat /\ Len(d) \in Nat
  BY WroteNext
<1>8. Placed(e, s, ks, q, b)
  <2>1. Len(e) \notin Open(s)
    BY <1>3, <1>7
  <2>2. ASSUME s = <<>>  PROVE  1 \in Heads(e) /\ NextOf(e, 1) = End(e)
    <3>1. Len(d) = 0
      BY <2>2, <1>1 DEF Placed
    <3>. QED  BY <3>1, <1>7
  <2>. QED  BY <2>1, <2>2 DEF Placed
<1>. QED
  BY <1>2, <1>5, <1>6, <1>8 DEF Structure

\* A container is there that is not empty.
LEMMA OpenStructure ==
    ASSUME NEW d \in Seq(Cell), NEW e \in Seq(Cell), NEW c \in Cell,
           Wrote(d, e, c), c.type \in Container, c.len = 0,
           NEW s \in Seq(Frame), NEW t \in Seq(Frame), NEW f \in Frame,
           Pushed(s, t, f), f.h = End(d), f.type = c.type,
           NEW ks, NEW key, NEW b,
           Structure(d, s, ks, "value", key)
    PROVE  Structure(e, t, ks, IF c.type = "Array" THEN "value" ELSE "key", b)
<1>. DEFINE q == IF c.type = "Array" THEN "value" ELSE "key"
<1>1. Stacked(d, s) /\ Tiles(d, s, ks) /\ Placed(d, s, ks, "value", key) /\ Pairs(d, s, ks, "value")
  BY DEF Structure
<1>2. c.type # "data"
  BY DEF Container
<1>3. Stacked(e, t)
  BY <1>1, <1>2, PushedStacked DEF Placed
<1>4. /\ Open(s) \subseteq Heads(d)
      /\ \A h \in Open(s) : h \in 1..Len(d) /\ h \in Nat
      /\ s # <<>> => /\ Top(s).h \in Open(s) /\ d[Top(s).h].type = Top(s).type
                     /\ \A h \in Open(s) : h <= Top(s).h
  BY <1>1, OpenFacts
<1>5. ASSUME NEW h \in Open(s), h = Len(d), d[h].type = "Object"  PROVE  FALSE
  <2>1. s # <<>> /\ Top(s).h = h
    BY <1>1, <1>5, LastIsTop
  <2>. QED  BY <2>1, <1>1, <1>4, <1>5 DEF Placed
<1>6. t # <<>> /\ Top(t) = f /\ Open(t) = Open(s) \cup {End(d)} /\ t # s
  <2>1. t # <<>> /\ Top(t) = f /\ Open(t) = Open(s) \cup {End(d)}
    BY PushedFacts
  <2>2. t # s
    BY DEF Pushed
  <2>. QED  BY <2>1, <2>2
<1>7. Tiles(e, t, ks)
  BY <1>1, <1>2, <1>5, <1>6, WroteTiles
<1>8. Pairs(e, t, ks, q)
  BY <1>1, <1>2, <1>6, WrotePairs
<1>9. Placed(e, t, ks, q, b)
  BY <1>6 DEF Placed, Container
<1>. QED
  BY <1>3, <1>7, <1>8, <1>9 DEF Structure

\* The header of a string is written.
LEMMA HeaderPlaced ==
    ASSUME NEW d \in Seq(Cell), NEW e \in Seq(Cell), Wrote(d, e, Header("String", 0)),
           NEW s \in Seq(Frame), NEW ks, NEW ls, NEW key,
           Stacked(d, s), Tiles(d, s, ks), s = <<>> => d = <<>>,
           key => s # <<>> /\ Top(s).type = "Object", key <=> End(d) \in ls
    PROVE  Placed(e, s, ls, "string", key)
<1>. DEFINE c == Header("String", 0)
<1>1. c \in Cell /\ c.type # "data" /\ c.len = 0
  BY DEF Header, Cell
<1>. HIDE DEF c
<1>2. /\ \A h \in Heads(d) : e[h] = d[h] /\ NextOf(e, h) = NextOf(d, h)
      /\ e[End(d)] = c /\ Heads(e) = Heads(d) \cup {End(d)}
      /\ End(d) \in Nat /\ Len(d) \in Nat /\ End(d) = Len(d) + 1 /\ Len(e) = End(d)
  BY <1>1, WroteNext DEF c
<1>3. Open(s) \subseteq Heads(d) /\ \A h \in Open(s) : h \in 1..Len(d)
  BY OpenFacts
<1>4. Len(e) \notin Open(s)
  BY <1>2, <1>3
<1>5. e # <<>>
  BY <1>2
<1>6. s = <<>> => Len(e) = 1
  BY <1>2
<1>7. ASSUME NEW h \in Closed(e, s), h # Len(e)  PROVE  NextOf(e, h) <= Len(e)
  <2>1. h \in Closed(d, s) /\ h \in Heads(d)
    BY <1>2, <1>7 DEF Closed
  <2>2. NextOf(d, h) \in Heads(d) \cup {End(d)}
    BY <2>1 DEF Tiles
  <2>3. NextOf(d, h) <= End(d)
    BY <2>2, <1>2, HeadFacts
  <2>. QED  BY <2>1, <2>3, <1>2
<1>. QED
  BY <1>2, <1>4, <1>5, <1>6, <1>7 DEF Placed, c

LEMMA QuoteStructure ==
    ASSUME NEW d \in Seq(Cell), NEW e \in Seq(Cell), Wrote(d, e, Header("String", 0)),
           NEW s \in Seq(Frame), NEW ks, NEW key,
           Structure(d, s, ks, "value", key)
    PROVE  Structure(e, s, ks, "string", FALSE)
<1>. DEFINE c == Header("String", 0)
<1>1. c \in Cell /\ c.type # "data" /\ c.len = 0 /\ Wrote(d, e, c)
  BY DEF Header, Cell
<1>. HIDE DEF c
<1>2. Stacked(d, s) /\ Tiles(d, s, ks) /\ Placed(d, s, ks, "value", key) /\ Pairs(d, s, ks, "value")
  BY DEF Structure
<1>3. Stacked(e, s)
  BY <1>1, <1>2, WroteStacked
<1>4. ASSUME NEW h \in Open(s), h = Len(d), d[h].type = "Object"  PROVE  FALSE
  <2>1. s # <<>> /\ Top(s).h = h /\ d[h].type = Top(s).type
    BY <1>2, <1>4, LastIsTop
  <2>. QED  BY <2>1, <1>2, <1>4 DEF Placed
<1>5. Tiles(e, s, ks)
  BY <1>1, <1>2, <1>4, WroteTiles
<1>6. Pairs(e, s, ks, "string")
  <2>. DEFINE f == [type |-> "Array", h |-> End(d)]
  <2>1. f \in Frame /\ f.h = End(d)
    BY <1>1, WroteNext DEF Frame, Container, End
  <2>. HIDE DEF f
  <2>. QED  BY <2>1, <1>1, <1>2, WrotePairs
<1>7. End(d) \notin ks
  <2>1. End(d) \notin Heads(d)
    BY <1>1, WroteNext
  <2>. QED  BY <2>1, <1>2 DEF Pairs
<1>8. s = <<>> => d = <<>>
  BY <1>2 DEF Placed
<1>9. Placed(e, s, ks, "string", FALSE)
  BY <1>2, <1>7, <1>8, HeaderPlaced
<1>. QED
  BY <1>3, <1>5, <1>6, <1>9 DEF Structure

LEMMA KeyStructure ==
    ASSUME NEW d \in Seq(Cell), NEW e \in Seq(Cell), Wrote(d, e, Header("String", 0)),
           NEW s \in Seq(Frame), NEW ks, NEW key,
           Structure(d, s, ks, "key", key)
    PROVE  Structure(e, s, ks \cup {End(d)}, "string", TRUE)
<1>. DEFINE c == Header("String", 0)
            ls == ks \cup {End(d)}
<1>1. c \in Cell /\ c.type = "String" /\ c.type \notin Container /\ c.type # "data" /\ c.len = 0 /\ Wrote(d, e, c)
  BY DEF Header, Cell, Container
<1>. HIDE DEF c
<1>2. Stacked(d, s) /\ Tiles(d, s, ks) /\ Placed(d, s, ks, "key", key) /\ Pairs(d, s, ks, "key")
  BY DEF Structure
<1>3. Stacked(e, s)
  BY <1>1, <1>2, WroteStacked
<1>4. Tiles(e, s, ls)
  <2>1. ks \subseteq ls /\ End(d) \in ls
    OBVIOUS
  <2>. HIDE DEF ls
  <2>. QED  BY <2>1, <1>1, <1>2, WroteTiles
<1>5. s # <<>> /\ Top(s).type = "Object"
  BY <1>2 DEF Placed
<1>6. Pairs(e, s, ls, "string")
  BY <1>1, <1>2, <1>5, KeyPairs
<1>7. Placed(e, s, ls, "string", TRUE)
  BY <1>2, <1>5, HeaderPlaced
<1>. QED
  BY <1>3, <1>4, <1>6, <1>7 DEF Structure

-----------------------------------------------------------------------------
(* A string ends *)

LEMMA EndedFacts ==
    ASSUME NEW d \in Seq(Cell), NEW e \in Seq(Cell), NEW n \in Nat, Ended(d, e, n),
           d # <<>>, d[Len(d)] = Header("String", 0)
    PROVE  /\ Len(d) \in Nat /\ Len(d) >= 1 /\ Len(e) \in Nat /\ Len(d) <= Len(e)
           /\ End(d) = Len(d) + 1 /\ End(e) = Len(e) + 1
           /\ Heads(e) = Heads(d) /\ Len(d) \in Heads(d)
           /\ \A h \in Heads(d) : h \in Nat /\ h <= Len(d) /\ e[h].type = d[h].type
           /\ \A h \in Heads(d) : h # Len(d) => e[h] = d[h] /\ NextOf(e, h) = NextOf(d, h)
           /\ NextOf(e, Len(d)) = End(e) /\ NextOf(d, Len(d)) = End(d)
           /\ d[Len(d)].type = "String"
<1>1. Cells(n) \in Nat
  BY CellsNat
<1>2. Len(d) \in Nat /\ Len(d) >= 1 /\ Len(e) \in Nat /\ DOMAIN d = 1..Len(d)
  OBVIOUS
<1>3. Len(e) = Len(d) + Cells(n) /\ Heads(e) = Heads(d)
  BY DEF Ended
<1>4. d[Len(d)].type = "String" /\ d[Len(d)].len = 0 /\ e[Len(d)].type = "String" /\ e[Len(d)].len = n
  BY DEF Ended, Header
<1>5. Len(d) \in Heads(d)
  BY <1>2, <1>4 DEF Heads
<1>6. NextOf(e, Len(d)) = End(e) /\ NextOf(d, Len(d)) = End(d)
  BY <1>1, <1>2, <1>3, <1>4, CellsZero DEF NextOf, End
<1>7. \A h \in Heads(d) : h # Len(d) => e[h] = d[h] /\ NextOf(e, h) = NextOf(d, h)
  BY DEF Ended, NextOf
<1>8. \A h \in Heads(d) : h \in Nat /\ h <= Len(d)
  BY HeadFacts
<1>9. End(d) = Len(d) + 1 /\ End(e) = Len(e) + 1
  BY DEF End
<1>. QED
  BY <1>1, <1>2, <1>3, <1>4, <1>5, <1>6, <1>7, <1>8, <1>9

LEMMA EndStructure ==
    ASSUME NEW d \in Seq(Cell), NEW e \in Seq(Cell), NEW n \in Nat, Ended(d, e, n),
           NEW s \in Seq(Frame), NEW ks, NEW key \in BOOLEAN, NEW b,
           Structure(d, s, ks, "string", key)
    PROVE  Structure(e, s, ks, IF key THEN "colon" ELSE IF s = <<>> THEN "done" ELSE "after", b)
<1>. DEFINE q == IF key THEN "colon" ELSE IF s = <<>> THEN "done" ELSE "after"
<1>1. Stacked(d, s) /\ Tiles(d, s, ks) /\ Placed(d, s, ks, "string", key) /\ Pairs(d, s, ks, "string")
  BY DEF Structure
<1>2. /\ d # <<>> /\ d[Len(d)] = Header("String", 0)
      /\ key <=> Len(d) \in ks
      /\ key => s # <<>> /\ Top(s).type = "Object"
      /\ s = <<>> => Len(d) = 1
      /\ \A h \in Closed(d, s) : h # Len(d) => NextOf(d, h) <= Len(d)
      /\ Len(d) \notin Open(s)
  BY <1>1 DEF Placed
<1>3. /\ Len(d) \in Nat /\ Len(d) >= 1 /\ Len(e) \in Nat /\ Len(d) <= Len(e)
      /\ End(d) = Len(d) + 1 /\ End(e) = Len(e) + 1
      /\ Heads(e) = Heads(d) /\ Len(d) \in Heads(d)
      /\ \A h \in Heads(d) : h \in Nat /\ h <= Len(d) /\ e[h].type = d[h].type
      /\ \A h \in Heads(d) : h # Len(d) => e[h] = d[h] /\ NextOf(e, h) = NextOf(d, h)
      /\ NextOf(e, Len(d)) = End(e) /\ NextOf(d, Len(d)) = End(d)
      /\ d[Len(d)].type = "String"
  BY <1>2, EndedFacts
<1>4. Open(s) \subseteq Heads(d) /\ Closed(e, s) = Closed(d, s) /\ Closed(d, s) \subseteq Heads(d)
  BY <1>1, <1>3, OpenFacts DEF Closed
<1>5. Stacked(e, s)
  BY <1>1, <1>3 DEF Stacked
<1>6. Tiles(e, s, ks)
  <2>1. ASSUME NEW h \in Closed(d, s)
        PROVE  /\ NextOf(e, h) \in Heads(d) \cup {End(e)}
               /\ e[h].type \in Container /\ e[h].len # 0 => h + 1 \in Heads(d)
               /\ e[h].type = "Object" /\ e[h].len # 0 => h + 1 \in ks
               /\ \A g \in Heads(d) : h < g /\ g < NextOf(e, h) =>
                     /\ e[h].type \in Container
                     /\ g \in Closed(d, s)
                     /\ NextOf(e, g) <= NextOf(e, h)
    <3>1. CASE h = Len(d)
      <4>1. \A g \in Heads(d) : ~(h < g)
        BY <3>1, <1>3
      <4>2. e[h].type \notin Container /\ e[h].type # "Object"
        BY <3>1, <1>3 DEF Container
      <4>. QED  BY <3>1, <4>1, <4>2, <1>3
    <3>2. CASE h # Len(d)
      <4>1. /\ NextOf(d, h) \in Heads(d) \cup {End(d)}
            /\ d[h].type \in Container /\ d[h].len # 0 => h + 1 \in Heads(d)
            /\ d[h].type = "Object" /\ d[h].len # 0 => h + 1 \in ks
            /\ \A g \in Heads(d) : h < g /\ g < NextOf(d, h) =>
                  /\ d[h].type \in Container
                  /\ g \in Closed(d, s)
                  /\ NextOf(d, g) <= NextOf(d, h)
        BY <1>1 DEF Tiles
      <4>2. e[h] = d[h] /\ NextOf(e, h) = NextOf(d, h) /\ NextOf(d, h) <= Len(d) /\ NextOf(d, h) \in Heads(d)
        BY <3>2, <4>1, <1>2, <1>3, <1>4
      <4>3. ASSUME NEW g \in Heads(d), h < g, g < NextOf(d, h)
            PROVE  NextOf(e, g) = NextOf(d, g)
        BY <4>2, <4>3, <1>3
      <4>. QED  BY <4>1, <4>2, <4>3
    <3>. QED  BY <3>1, <3>2
  <2>2. ASSUME NEW h \in Open(s), h < Len(e)
        PROVE  h + 1 \in Heads(d) /\ (e[h].type = "Object" => h + 1 \in ks)
    <3>1. h \in Heads(d) /\ h < Len(d)
      BY <1>2, <1>3, <1>4
    <3>. QED  BY <3>1, <1>1, <1>3 DEF Tiles
  <2>. QED  BY <2>1, <2>2, <1>3, <1>4 DEF Tiles
<1>7. Placed(e, s, ks, q, b)
  <2>1. Len(e) \notin Open(s)
    BY <1>2, <1>3, <1>4
  <2>. QED  BY <2>1, <1>2, <1>3 DEF Placed
<1>8. ASSUME NEW k \in ks
      PROVE  /\ k \in Heads(e) /\ e[k].type = "String"
             /\ NextOf(e, k) \in Heads(e) \ ks \/ KeyRead(e, s, q, k)
             /\ \A i \in DOMAIN s : NextOf(e, k) = s[i].h =>
                   i > 1 /\ s[i - 1].type = "Object" /\ s[i - 1].h < k
             /\ NextOf(e, k) \in Closed(e, s) =>
                   \/ NextOf(e, NextOf(e, k)) \in ks
                   \/ \E h \in Closed(e, s) : /\ h < k /\ e[h].type = "Object"
                                              /\ NextOf(e, h) = NextOf(e, NextOf(e, k))
                   \/ ValueRead(e, s, q, k)
  <2>1. /\ k \in Heads(d) /\ d[k].type = "String"
        /\ NextOf(d, k) \in Heads(d) \ ks \/ KeyRead(d, s, "string", k)
        /\ \A i \in DOMAIN s : NextOf(d, k) = s[i].h =>
              i > 1 /\ s[i - 1].type = "Object" /\ s[i - 1].h < k
        /\ NextOf(d, k) \in Closed(d, s) =>
              \/ NextOf(d, NextOf(d, k)) \in ks
              \/ \E h \in Closed(d, s) : /\ h < k /\ d[h].type = "Object"
                                         /\ NextOf(d, h) = NextOf(d, NextOf(d, k))
              \/ ValueRead(d, s, "string", k)
    BY <1>1, <1>8 DEF Pairs
  <2>2. CASE k = Len(d)
    <3>1. NextOf(e, k) = End(e) /\ NextOf(d, k) \notin Heads(d) /\ End(e) \notin Heads(d) /\ key
      BY <2>2, <1>2, <1>3
    <3>2. KeyRead(e, s, q, k)
      BY <3>1, <2>1 DEF KeyRead
    <3>3. \A i \in DOMAIN s : s[i].h \in Heads(d)
      BY <1>1 DEF Stacked
    <3>. QED  BY <2>1, <3>1, <3>2, <3>3, <1>3, <1>4
  <2>3. CASE k # Len(d)
    <3>1. NextOf(e, k) = NextOf(d, k) /\ NextOf(d, k) \in Heads(d) \ ks
      BY <2>1, <2>3, <1>3 DEF KeyRead
    <3>2. ASSUME NextOf(d, k) \in Closed(d, s)
          PROVE  \/ NextOf(e, NextOf(d, k)) \in ks
                 \/ \E h \in Closed(e, s) : /\ h < k /\ e[h].type = "Object"
                                            /\ NextOf(e, h) = NextOf(e, NextOf(d, k))
                 \/ ValueRead(e, s, q, k)
      <4>1. CASE NextOf(d, NextOf(d, k)) \in ks
        <5>1. NextOf(d, NextOf(d, k)) \in Heads(d)
          BY <4>1, <1>1 DEF Pairs
        <5>2. NextOf(d, k) # Len(d)
          BY <5>1, <1>3
        <5>. QED  BY <4>1, <5>2, <3>1, <1>3
      <4>2. CASE \E h \in Closed(d, s) : /\ h < k /\ d[h].type = "Object"
                                         /\ NextOf(d, h) = NextOf(d, NextOf(d, k))
        <5>1. PICK h \in Closed(d, s) : /\ h < k /\ d[h].type = "Object"
                                        /\ NextOf(d, h) = NextOf(d, NextOf(d, k))
          BY <4>2
        <5>2. h \in Heads(d) /\ h # Len(d)
          BY <5>1, <1>3, <1>4
        <5>3. NextOf(d, h) <= Len(d)
          BY <5>2, <1>2
        <5>4. NextOf(d, k) # Len(d)
          BY <5>1, <5>3, <1>3
        <5>. QED  BY <5>1, <5>2, <5>4, <3>1, <1>3, <1>4
      <4>3. CASE ValueRead(d, s, "string", k)
        <5>1. NextOf(d, k) = Len(d) /\ InObject(s, k)
          BY <4>3 DEF ValueRead
        <5>2. ~key /\ s # <<>>
          BY <5>1, <3>1, <1>2 DEF InObject
        <5>. QED  BY <5>1, <5>2, <3>1, <1>3 DEF ValueRead
      <4>. QED  BY <3>2, <4>1, <4>2, <4>3, <2>1
    <3>. QED  BY <2>1, <3>1, <3>2, <1>3, <1>4
  <2>. QED  BY <2>2, <2>3
<1>9. Pairs(e, s, ks, q)
  BY <1>8 DEF Pairs
<1>. QED
  BY <1>5, <1>6, <1>7, <1>9 DEF Structure

-----------------------------------------------------------------------------
(* A container ends *)

LEMMA PoppedCalls ==
    ASSUME NEW s \in Seq(Frame), s # <<>>
    PROVE  /\ Front(s) \in Seq(Frame) /\ Pushed(Front(s), s, Top(s))
           /\ Last(s) = Top(s) /\ Top(s) \in Frame
<1>1. Len(s) \in Nat /\ Len(s) >= 1 /\ DOMAIN s = 1..Len(s)
  OBVIOUS
<1>2. /\ Front(s) \in Seq(Frame) /\ Len(Front(s)) = Len(s) - 1
      /\ \A i \in 1..(Len(s) - 1) : Front(s)[i] = s[i]
  <2>1. \A i \in 1..(Len(s) - 1) : s[i] \in Frame
    BY <1>1
  <2>2. Front(s) = SubSeq(s, 1, Len(s) - 1)
    BY DEF Front
  <2>. QED  BY <1>1, <2>1, <2>2, SubSeqProperties
<1>3. DOMAIN Front(s) = 1..(Len(s) - 1)
  BY <1>2
<1>4. Pushed(Front(s), s, Top(s))
  BY <1>1, <1>2, <1>3 DEF Pushed, Top
<1>5. Last(s) = Top(s) /\ Top(s) \in Frame
  BY <1>1 DEF Top, Last
<1>. QED
  BY <1>2, <1>4, <1>5

LEMMA ShutFacts ==
    ASSUME NEW d \in Seq(Cell), NEW e \in Seq(Cell), NEW z \in Heads(d), Shut(d, e, z)
    PROVE  /\ Len(d) \in Nat /\ Len(e) = Len(d) /\ End(d) = Len(d) + 1 /\ End(e) = End(d)
           /\ Heads(e) = Heads(d)
           /\ \A h \in Heads(d) : h \in Nat /\ h <= Len(d) /\ e[h].type = d[h].type
           /\ \A h \in Heads(d) : h # z => e[h] = d[h] /\ NextOf(e, h) = NextOf(d, h)
           /\ NextOf(e, z) = End(d)
<1>1. Len(d) \in Nat /\ Len(e) = Len(d) /\ Heads(e) = Heads(d)
  BY DEF Shut
<1>2. \A h \in Heads(d) : h \in Nat /\ h <= Len(d) /\ h \in 1..Len(d)
  BY HeadFacts
<1>3. \A h \in Heads(d) : h # z => e[h] = d[h] /\ NextOf(e, h) = NextOf(d, h)
  BY DEF Shut, NextOf
<1>4. \A h \in Heads(d) : e[h].type = d[h].type
  BY DEF Shut
<1>5. Len(d) - z \in Nat /\ z \in Nat
  BY <1>1, <1>2
<1>6. Cells(e[z].len) = Len(d) - z
  BY <1>5, CellsNat DEF Shut
<1>7. NextOf(e, z) = End(d)
  BY <1>1, <1>5, <1>6 DEF NextOf, End
<1>. QED
  BY <1>1, <1>2, <1>3, <1>4, <1>7 DEF End

LEMMA CloseStructure ==
    ASSUME NEW d \in Seq(Cell), NEW e \in Seq(Cell),
           NEW s \in Seq(Frame), NEW t \in Seq(Frame), NEW f \in Frame, Pushed(t, s, f),
           NEW ks, NEW key, NEW b,
           Shut(d, e, f.h), Structure(d, s, ks, "after", key)
    PROVE  Structure(e, t, ks, IF t = <<>> THEN "done" ELSE "after", b)
<1>. DEFINE q == IF t = <<>> THEN "done" ELSE "after"
            z == f.h
<1>1. Stacked(d, s) /\ Tiles(d, s, ks) /\ Placed(d, s, ks, "after", key) /\ Pairs(d, s, ks, "after")
  BY DEF Structure
<1>2. /\ Len(t) \in Nat /\ DOMAIN t = 1..Len(t) /\ DOMAIN s = 1..(Len(t) + 1)
      /\ \A i \in DOMAIN t : i \in DOMAIN s /\ s[i] = t[i]
      /\ s[Len(t) + 1] = f /\ s # <<>> /\ Top(s) = f
      /\ Open(s) = Open(t) \cup {z}
  BY PushedFacts
<1>3. /\ Open(s) \subseteq Heads(d)
      /\ d[z].type = f.type /\ d[z].type \in Container
      /\ \A h \in Open(s) : h <= z /\ h \in Nat
  BY <1>1, <1>2, OpenFacts
<1>4. /\ Len(d) \in Nat /\ Len(e) = Len(d) /\ End(d) = Len(d) + 1 /\ End(e) = End(d)
      /\ Heads(e) = Heads(d)
      /\ \A h \in Heads(d) : h \in Nat /\ h <= Len(d) /\ e[h].type = d[h].type
      /\ \A h \in Heads(d) : h # z => e[h] = d[h] /\ NextOf(e, h) = NextOf(d, h)
      /\ NextOf(e, z) = End(d)
  BY <1>2, <1>3, ShutFacts
<1>5. z \in Heads(d) /\ z \in Open(s) /\ z \in Nat /\ z < Len(d) /\ Len(d) \notin Open(s)
  BY <1>1, <1>2, <1>3, <1>4 DEF Placed
<1>6. \A i \in DOMAIN t : t[i].h < z /\ t[i].h \in Nat
  <2>1. \A i \in DOMAIN t : s[i].h < s[Len(t) + 1].h
    <3>1. \A i \in DOMAIN t : i \in DOMAIN s /\ i < Len(t) + 1 /\ Len(t) + 1 \in DOMAIN s
      BY <1>2
    <3>. QED  BY <1>1, <3>1 DEF Stacked
  <2>2. \A i \in DOMAIN t : t[i].h \in Open(s)
    BY <1>2 DEF Open
  <2>. QED  BY <2>1, <2>2, <1>2, <1>3
<1>7. z \notin Open(t) /\ \A h \in Open(t) : h < z
  BY <1>5, <1>6 DEF Open
<1>8. Closed(e, t) = Closed(d, s) \cup {z} /\ Closed(d, s) \subseteq Heads(d) /\ z \notin Closed(d, s)
  BY <1>2, <1>4, <1>5, <1>7 DEF Closed
<1>9. Stacked(e, t)
  <2>1. ASSUME NEW i \in DOMAIN t  PROVE  t[i].h \in Heads(e) /\ e[t[i].h].type = t[i].type
    <3>1. t[i].h \in Heads(d) /\ d[t[i].h].type = t[i].type
      BY <1>1, <1>2 DEF Stacked
    <3>. QED  BY <3>1, <1>4
  <2>2. \A i, j \in DOMAIN t : i < j => t[i].h < t[j].h
    BY <1>1, <1>2 DEF Stacked
  <2>3. t # <<>> => t[1].h = 1
    <3>1. t # <<>> => 1 \in DOMAIN t
      BY <1>2
    <3>. QED  BY <3>1, <1>1, <1>2 DEF Stacked
  <2>. QED  BY <2>1, <2>2, <2>3 DEF Stacked
<1>10. \A h \in Closed(d, s) : NextOf(d, h) <= End(d)
  <2>1. \A h \in Closed(d, s) : NextOf(d, h) \in Heads(d) \cup {End(d)}
    BY <1>1 DEF Tiles
  <2>. QED  BY <2>1, <1>4
<1>11. Tiles(e, t, ks)
  <2>1. ASSUME NEW h \in Closed(e, t)
        PROVE  /\ NextOf(e, h) \in Heads(d) \cup {End(d)}
               /\ e[h].type \in Container /\ e[h].len # 0 => h + 1 \in Heads(d)
               /\ e[h].type = "Object" /\ e[h].len # 0 => h + 1 \in ks
               /\ \A g \in Heads(d) : h < g /\ g < NextOf(e, h) =>
                     /\ e[h].type \in Container
                     /\ g \in Closed(e, t)
                     /\ NextOf(e, g) <= NextOf(e, h)
    <3>1. CASE h = z
      <4>1. h + 1 \in Heads(d) /\ (d[h].type = "Object" => h + 1 \in ks)
        BY <3>1, <1>1, <1>5 DEF Tiles
      <4>2. ASSUME NEW g \in Heads(d), h < g
            PROVE  g \in Closed(e, t) /\ NextOf(e, g) <= End(d)
        <5>1. g \in Closed(d, s)
          BY <3>1, <4>2, <1>3, <1>4, <1>5 DEF Closed
        <5>. QED  BY <5>1, <1>4, <1>8, <1>10
      <4>. QED  BY <3>1, <4>1, <4>2, <1>3, <1>4, <1>5
    <3>2. CASE h \in Closed(d, s)
      <4>1. /\ NextOf(d, h) \in Heads(d) \cup {End(d)}
            /\ d[h].type \in Container /\ d[h].len # 0 => h + 1 \in Heads(d)
            /\ d[h].type = "Object" /\ d[h].len # 0 => h + 1 \in ks
            /\ \A g \in Heads(d) : h < g /\ g < NextOf(d, h) =>
                  /\ d[h].type \in Container
                  /\ g \in Closed(d, s)
                  /\ NextOf(d, g) <= NextOf(d, h)
        BY <3>2, <1>1 DEF Tiles
      <4>2. e[h] = d[h] /\ NextOf(e, h) = NextOf(d, h)
        BY <3>2, <1>4, <1>8
      <4>3. \A g \in Closed(d, s) : NextOf(e, g) = NextOf(d, g) /\ g \in Closed(e, t)
        BY <1>4, <1>8
      <4>. QED  BY <4>1, <4>2, <4>3
    <3>. QED  BY <3>1, <3>2, <1>8
  <2>2. ASSUME NEW h \in Open(t), h < Len(e)
        PROVE  h + 1 \in Heads(d) /\ (e[h].type = "Object" => h + 1 \in ks)
    <3>1. h \in Open(s) /\ h \in Heads(d) /\ h < Len(d)
      BY <2>2, <1>2, <1>3, <1>4
    <3>. QED  BY <3>1, <1>1, <1>4 DEF Tiles
  <2>. QED  BY <2>1, <2>2, <1>4 DEF Tiles
<1>12. Placed(e, t, ks, q, b)
  <2>1. Len(e) \notin Open(t)
    BY <1>2, <1>4, <1>5
  <2>2. ASSUME t = <<>>  PROVE  z = 1
    <3>1. Len(t) = 0
      BY <2>2
    <3>. QED  BY <3>1, <1>1, <1>2 DEF Stacked
  <2>. QED  BY <2>1, <2>2, <1>4, <1>5 DEF Placed
<1>13. ASSUME NEW k \in ks
       PROVE  /\ k \in Heads(e) /\ e[k].type = "String"
              /\ NextOf(e, k) \in Heads(e) \ ks
              /\ \A i \in DOMAIN t : NextOf(e, k) = t[i].h =>
                    i > 1 /\ t[i - 1].type = "Object" /\ t[i - 1].h < k
              /\ NextOf(e, k) \in Closed(e, t) =>
                    \/ NextOf(e, NextOf(e, k)) \in ks
                    \/ \E h \in Closed(e, t) : /\ h < k /\ e[h].type = "Object"
                                               /\ NextOf(e, h) = NextOf(e, NextOf(e, k))
                    \/ ValueRead(e, t, q, k)
  <2>1. /\ k \in Heads(d) /\ d[k].type = "String"
        /\ NextOf(d, k) \in Heads(d) \ ks \/ KeyRead(d, s, "after", k)
        /\ \A i \in DOMAIN s : NextOf(d, k) = s[i].h =>
              i > 1 /\ s[i - 1].type = "Object" /\ s[i - 1].h < k
        /\ NextOf(d, k) \in Closed(d, s) =>
              \/ NextOf(d, NextOf(d, k)) \in ks
              \/ \E h \in Closed(d, s) : /\ h < k /\ d[h].type = "Object"
                                         /\ NextOf(d, h) = NextOf(d, NextOf(d, k))
              \/ ValueRead(d, s, "after", k)
    BY <1>1, <1>13 DEF Pairs
  <2>2. k # z
    BY <2>1, <1>3 DEF Container
  <2>3. NextOf(e, k) = NextOf(d, k) /\ NextOf(d, k) \in Heads(d) \ ks
    BY <2>1, <2>2, <1>4 DEF KeyRead
  <2>4. ASSUME NEW i \in DOMAIN t, NextOf(e, k) = t[i].h
        PROVE  i > 1 /\ t[i - 1].type = "Object" /\ t[i - 1].h < k
    <3>1. i \in DOMAIN s /\ NextOf(d, k) = s[i].h
      BY <2>3, <2>4, <1>2
    <3>2. i > 1 /\ s[i - 1].type = "Object" /\ s[i - 1].h < k
      BY <3>1, <2>1
    <3>3. i - 1 \in DOMAIN t
      BY <3>2, <1>2
    <3>. QED  BY <3>2, <3>3, <1>2
  <2>5. ASSUME NextOf(d, k) \in Closed(e, t)
        PROVE  \/ NextOf(e, NextOf(d, k)) \in ks
               \/ \E h \in Closed(e, t) : /\ h < k /\ e[h].type = "Object"
                                          /\ NextOf(e, h) = NextOf(e, NextOf(d, k))
               \/ ValueRead(e, t, q, k)
    <3>1. CASE NextOf(d, k) = z
      <4>1. Len(t) + 1 \in DOMAIN s /\ NextOf(d, k) = s[Len(t) + 1].h
        BY <3>1, <1>2
      <4>2. Len(t) + 1 > 1 /\ s[Len(t) + 1 - 1].type = "Object" /\ s[Len(t) + 1 - 1].h < k
        <5>. DEFINE i == Len(t) + 1
        <5>1. i \in DOMAIN s /\ NextOf(d, k) = s[i].h
          BY <4>1
        <5>. HIDE DEF i
        <5>2. i > 1 /\ s[i - 1].type = "Object" /\ s[i - 1].h < k
          BY <5>1, <2>1
        <5>. QED  BY <5>2 DEF i
      <4>3. Len(t) \in DOMAIN t /\ Len(t) + 1 - 1 = Len(t)
        BY <4>2, <1>2
      <4>4. t # <<>> /\ Top(t).type = "Object" /\ Top(t).h < k
        BY <4>2, <4>3, <1>2 DEF Top
      <4>. QED  BY <3>1, <4>4, <2>3, <1>4 DEF ValueRead, InObject
    <3>2. CASE NextOf(d, k) \in Closed(d, s)
      <4>1. NextOf(e, NextOf(d, k)) = NextOf(d, NextOf(d, k))
        BY <3>2, <1>4, <1>8
      <4>2. CASE NextOf(d, NextOf(d, k)) \in ks
        BY <4>1, <4>2
      <4>3. CASE \E h \in Closed(d, s) : /\ h < k /\ d[h].type = "Object"
                                         /\ NextOf(d, h) = NextOf(d, NextOf(d, k))
        <5>1. PICK h \in Closed(d, s) : /\ h < k /\ d[h].type = "Object"
                                        /\ NextOf(d, h) = NextOf(d, NextOf(d, k))
          BY <4>3
        <5>2. h \in Closed(e, t) /\ e[h] = d[h] /\ NextOf(e, h) = NextOf(d, h)
          BY <1>4, <1>8
        <5>. QED  BY <5>1, <5>2, <4>1
      <4>4. CASE ValueRead(d, s, "after", k)
        <5>1. NextOf(d, NextOf(d, k)) = End(d) /\ f.type = "Object" /\ z < k
          BY <4>4, <1>2 DEF ValueRead, InObject
        <5>2. z \in Closed(e, t) /\ e[z].type = "Object"
          BY <5>1, <1>3, <1>4, <1>5, <1>8
        <5>. QED  BY <5>1, <5>2, <4>1, <1>4
      <4>. QED  BY <3>2, <4>2, <4>3, <4>4, <2>1
    <3>. QED  BY <2>5, <3>1, <3>2, <1>8
  <2>. QED  BY <2>1, <2>3, <2>4, <2>5, <1>4
<1>14. Pairs(e, t, ks, q)
  BY <1>13 DEF Pairs
<1>. QED
  BY <1>9, <1>11, <1>12, <1>14 DEF Structure

-----------------------------------------------------------------------------
(* Nothing is written *)

LEMMA CommaStructure ==
    ASSUME NEW d \in Seq(Cell), NEW s \in Seq(Frame), NEW ks, NEW key, NEW b,
           Structure(d, s, ks, "after", key)
    PROVE  Structure(d, s, ks, IF Top(s).type = "Array" THEN "value" ELSE "key", b)
<1>. DEFINE q == IF Top(s).type = "Array" THEN "value" ELSE "key"
<1>1. Stacked(d, s) /\ Tiles(d, s, ks) /\ Placed(d, s, ks, "after", key) /\ Pairs(d, s, ks, "after")
  BY DEF Structure
<1>2. s # <<>> /\ Top(s).type \in Container
  <2>1. s # <<>>
    BY <1>1 DEF Placed
  <2>. QED  BY <2>1, <1>1, OpenFacts DEF Frame
<1>3. Placed(d, s, ks, q, b)
  BY <1>2 DEF Placed, Container
<1>4. \A k : ~KeyRead(d, s, "after", k)
  BY DEF KeyRead
<1>5. \A k : ValueRead(d, s, "after", k) => ValueRead(d, s, q, k)
  BY DEF ValueRead, InObject
<1>6. Pairs(d, s, ks, q)
  BY <1>1, <1>4, <1>5 DEF Pairs
<1>. QED
  BY <1>1, <1>3, <1>6 DEF Structure

LEMMA ColonStructure ==
    ASSUME NEW d \in Seq(Cell), NEW s \in Seq(Frame), NEW ks, NEW key, NEW b,
           Structure(d, s, ks, "colon", key)
    PROVE  Structure(d, s, ks, "value", b)
<1>1. Stacked(d, s) /\ Tiles(d, s, ks) /\ Placed(d, s, ks, "colon", key) /\ Pairs(d, s, ks, "colon")
  BY DEF Structure
<1>2. s # <<>> /\ Top(s).type = "Object" /\ Len(d) \notin Open(s)
  BY <1>1 DEF Placed
<1>3. Top(s).h \in Open(s) /\ Top(s).h \in 1..Len(d) /\ Len(d) \in Nat
  BY <1>1, <1>2, OpenFacts
<1>4. Top(s).h < Len(d)
  BY <1>2, <1>3
<1>5. Placed(d, s, ks, "value", b)
  BY <1>2, <1>4 DEF Placed
<1>6. \A k : KeyRead(d, s, "colon", k) => KeyRead(d, s, "value", k)
  BY DEF KeyRead
<1>7. \A k : ~ValueRead(d, s, "colon", k)
  BY DEF ValueRead
<1>8. Pairs(d, s, ks, "value")
  BY <1>1, <1>6, <1>7 DEF Pairs
<1>. QED
  BY <1>1, <1>5, <1>8 DEF Structure

\* An accepted text.
LEMMA WalkedStructure ==
    ASSUME NEW d \in Seq(Cell), NEW s \in Seq(Frame), NEW ks, NEW key,
           Structure(d, s, ks, "done", key)
    PROVE  /\ 1 \in Heads(d) /\ NextOf(d, 1) = Len(d) + 1
           /\ \A h \in Heads(d) :
                 /\ NextOf(d, h) \in Heads(d) \cup {Len(d) + 1}
                 /\ d[h].type \in Container /\ d[h].len # 0 => h + 1 \in Heads(d)
                 /\ d[h].type = "Object" /\ d[h].len # 0 => h + 1 \in ks
                 /\ \A g \in Heads(d) : h < g /\ g < NextOf(d, h) =>
                       d[h].type \in Container /\ NextOf(d, g) <= NextOf(d, h)
           /\ \A k \in ks :
                 /\ k \in Heads(d) /\ d[k].type = "String"
                 /\ NextOf(d, k) \in Heads(d) \ ks
                 /\ \/ NextOf(d, NextOf(d, k)) \in ks
                    \/ \E h \in Heads(d) : /\ h < k /\ d[h].type = "Object"
                                           /\ NextOf(d, h) = NextOf(d, NextOf(d, k))
<1>1. Tiles(d, s, ks) /\ Placed(d, s, ks, "done", key) /\ Pairs(d, s, ks, "done")
  BY DEF Structure
<1>2. s = <<>> /\ 1 \in Heads(d) /\ NextOf(d, 1) = End(d)
  BY <1>1 DEF Placed
<1>3. Open(s) = {}
  BY <1>2 DEF Open
<1>4. Closed(d, s) = Heads(d)
  BY <1>3 DEF Closed
<1>5. \A k : ~KeyRead(d, s, "done", k) /\ ~ValueRead(d, s, "done", k)
  BY DEF KeyRead, ValueRead
<1>6. \A h \in Heads(d) :
         /\ NextOf(d, h) \in Heads(d) \cup {Len(d) + 1}
         /\ d[h].type \in Container /\ d[h].len # 0 => h + 1 \in Heads(d)
         /\ d[h].type = "Object" /\ d[h].len # 0 => h + 1 \in ks
         /\ \A g \in Heads(d) : h < g /\ g < NextOf(d, h) =>
               d[h].type \in Container /\ NextOf(d, g) <= NextOf(d, h)
  BY <1>1, <1>4 DEF Tiles, End
<1>7. \A k \in ks :
         /\ k \in Heads(d) /\ d[k].type = "String"
         /\ NextOf(d, k) \in Heads(d) \ ks
         /\ \/ NextOf(d, NextOf(d, k)) \in ks
            \/ \E h \in Heads(d) : /\ h < k /\ d[h].type = "Object"
                                   /\ NextOf(d, h) = NextOf(d, NextOf(d, k))
  BY <1>1, <1>4, <1>5 DEF Pairs
<1>. QED
  BY <1>2, <1>6, <1>7 DEF End

-----------------------------------------------------------------------------
(* Steps *)

LEMMA PieceFacts ==
    ASSUME NEW p \in Piece
    PROVE  /\ p.c \in {"str", "unquoted"} => p.text \in STRING /\ p.size \in Nat /\ p.esc \in Seq(CodeUnit)
           /\ p.c = "num" => p.v \in STRING
BY DEF Piece

LEMMA CodePoints ==
    ASSUME NEW before \in Int, NEW cp \in CodeUnit
    PROVE  un_codepoint(before, cp) \in Int /\ Utf8(un_codepoint(before, cp)) \in Nat
<1>1. un_codepoint(before, cp) \in Int
  BY DEF un_codepoint, CodeUnit
<1>2. \A n \in Int : Utf8(n) \in Nat
  BY DEF Utf8
<1>. QED
  BY <1>1, <1>2

LEMMA WroteHeader ==
    ASSUME NEW d \in Seq(Cell), NEW c \in Cell, c.type # "data", c.len = 0
    PROVE  Append(d, c) \in Seq(Cell) /\ Wrote(d, Append(d, c), c)
<1>. DEFINE e == Append(d, c)
<1>1. /\ e \in Seq(Cell) /\ Len(e) = Len(d) + 1 /\ Len(d) \in Nat
      /\ DOMAIN e = 1..Len(e) /\ DOMAIN d = 1..Len(d)
      /\ \A i \in 1..Len(d) : e[i] = d[i]
      /\ e[Len(d) + 1] = c
  OBVIOUS
<1>. HIDE DEF e
<1>2. Heads(e) = Heads(d) \cup {Len(d) + 1}
  BY <1>1 DEF Heads
<1>3. \A h \in Heads(d) : e[h] = d[h]
  BY <1>1 DEF Heads
<1>4. Wrote(d, e, c)
  BY <1>1, <1>2, <1>3, CellsZero DEF Wrote, End
<1>. QED
  BY <1>1, <1>4 DEF e

\* The parser has not returned.
LEMMA RunningFacts ==
    ASSUME ParseInv, pc # "done"
    PROVE  /\ text \in Seq(Piece) /\ cap \in Nat /\ at \in Nat \ {0} /\ at <= Len(text) + 1
           /\ dst \in Seq(Cell) /\ Len(dst) <= cap
           /\ stack \in Seq(Frame)
           /\ str \in [n : Nat, cp : Int, size : Nat, garbled : BOOLEAN, key : BOOLEAN]
           /\ keys \subseteq 1..Len(dst)
           /\ err = "NoError" /\ err \in JError
           /\ Structure(dst, stack, keys, pc, str.key)
BY DEF ParseInv, ParseTypeOK, InBuffer, JError, Frame

LEMMA HereFacts ==
    ASSUME ParseInv, pc # "done", ~AtEnd
    PROVE  at \in 1..Len(text) /\ at <= Len(text) /\ Here \in Piece
BY RunningFacts DEF AtEnd, Here

\* A step that fails may have written, but not past the buffer.
LEMMA Stopped ==
    ASSUME ParseInv, pc # "done", NEW e \in JError \ {"NoError"}, Fail(e),
           UNCHANGED <<inputs, stack, str, keys>>,
           at' \in Nat \ {0}, at' <= Len(text) + 1,
           dst' \in Seq(Cell), Len(dst) <= Len(dst'), Len(dst') <= cap
    PROVE  ParseInv'
<1>1. /\ text' = text /\ cap' = cap /\ stack' = stack /\ str' = str /\ keys' = keys
      /\ pc' = "done" /\ err' = e
  BY DEF inputs, Fail
<1>2. DOMAIN dst' = 1..Len(dst') /\ Len(dst) \in Nat /\ Len(dst') \in Nat
  BY RunningFacts
<1>3. keys' \subseteq DOMAIN dst'
  BY <1>1, <1>2, RunningFacts
<1>4. ParseTypeOK'
  BY <1>1, <1>3, RunningFacts DEF ParseTypeOK, Frame
<1>5. InBuffer'
  BY <1>1 DEF InBuffer
<1>. QED
  BY <1>1, <1>4, <1>5 DEF ParseInv

\* A step that goes on.
LEMMA WentOn ==
    ASSUME ParseInv, pc # "done", UNCHANGED <<inputs, err>>,
           at' \in Nat \ {0}, at' <= Len(text) + 1,
           dst' \in Seq(Cell), Len(dst) <= Len(dst'), Len(dst') <= cap,
           stack' \in Seq(Frame),
           str' \in [n : Nat, cp : Int, size : Nat, garbled : BOOLEAN, key : BOOLEAN],
           pc' \in {"value", "key", "string", "colon", "after", "done"},
           keys' \subseteq DOMAIN dst',
           pc' = "string" => ~AtEnd' /\ Room(str.size)' /\ StringHere',
           Structure(dst', stack', keys', pc', str'.key)
    PROVE  ParseInv'
<1>1. text' = text /\ cap' = cap /\ err' = err
  BY DEF inputs
<1>2. ParseTypeOK'
  BY <1>1, RunningFacts DEF ParseTypeOK, Frame
<1>3. InBuffer'
  BY <1>1 DEF InBuffer
<1>. QED
  BY <1>1, <1>2, <1>3, RunningFacts DEF ParseInv

\* The header of a string, or of the key that a member starts with.
LEMMA StringStep ==
    ASSUME ParseInv, NEW key \in BOOLEAN, pc = IF key THEN "key" ELSE "value", String(key)
    PROVE  ParseInv'
<1>. DEFINE c == Header("String", 0)
<1>1. pc # "done" /\ c \in Cell /\ c.type # "data" /\ c.len = 0
  BY DEF Header, Cell
<1>. HIDE DEF c
<1>2. CASE /\ StringHere /\ Room(8 + Here.size)
           /\ dst' = Append(dst, Header("String", 0))
           /\ str' = [n |-> 0, cp |-> 0, size |-> Here.size, garbled |-> FALSE, key |-> key]
           /\ pc' = "string"
           /\ keys' = IF key THEN keys \cup {Len(dst) + 1} ELSE keys
           /\ UNCHANGED <<inputs, at, stack, err>>
  <2>1. ~AtEnd /\ Here.c \in {"str", "unquoted"}
    BY <1>2 DEF StringHere
  <2>2. Here.size \in Nat
    BY <1>1, <2>1, HereFacts, PieceFacts
  <2>3. dst' = Append(dst, c) /\ dst \in Seq(Cell)
    BY <1>1, <1>2, RunningFacts DEF c
  <2>4. dst' \in Seq(Cell) /\ Wrote(dst, dst', c)
    BY <1>1, <2>3, WroteHeader
  <2>5. Len(dst') = Len(dst) + 1 /\ DOMAIN dst' = 1..(Len(dst) + 1) /\ Len(dst) \in Nat
    BY <1>1, <2>3
  <2>6. cap' = cap /\ text' = text /\ at' = at /\ stack' = stack /\ err' = err
    BY <1>2 DEF inputs
  <2>7. Len(dst') <= cap /\ Room(str.size)'
    <3>1. Room(8 + Here.size) /\ str'.size = Here.size /\ cap \in Nat
      BY <1>1, <1>2, RunningFacts
    <3>. QED  BY <3>1, <2>2, <2>5, <2>6 DEF Room
  <2>8. StringHere' /\ ~AtEnd'
    BY <1>2, <2>1, <2>6 DEF StringHere, AtEnd, Here
  <2>9. keys' \subseteq DOMAIN dst'
    BY <1>1, <1>2, <2>5, RunningFacts
  <2>10. str' \in [n : Nat, cp : Int, size : Nat, garbled : BOOLEAN, key : BOOLEAN] /\ str'.key = key
    BY <1>2, <2>2
  <2>11. Structure(dst', stack', keys', pc', str'.key)
    <3>1. CASE key
      <4>1. Structure(dst, stack, keys, "key", str.key)
        BY <1>1, <3>1, RunningFacts
      <4>2. Structure(dst', stack, keys \cup {End(dst)}, "string", TRUE)
        BY <1>1, <2>3, <2>4, <4>1, RunningFacts, KeyStructure DEF c
      <4>. QED  BY <3>1, <4>2, <1>2, <2>6, <2>10 DEF End
    <3>2. CASE ~key
      <4>1. Structure(dst, stack, keys, "value", str.key)
        BY <1>1, <3>2, RunningFacts
      <4>2. Structure(dst', stack, keys, "string", FALSE)
        BY <1>1, <2>3, <2>4, <4>1, RunningFacts, QuoteStructure DEF c
      <4>. QED  BY <3>2, <4>2, <1>2, <2>6, <2>10
    <3>. QED  BY <3>1, <3>2
  <2>12. Len(dst) <= Len(dst')
    BY <2>5
  <2>13. /\ UNCHANGED <<inputs, err>> /\ at' \in Nat \ {0} /\ at' <= Len(text) + 1
         /\ stack' \in Seq(Frame) /\ pc' = "string"
    BY <1>1, <1>2, <2>6, RunningFacts
  <2>. QED  BY <1>1, <2>4, <2>7, <2>8, <2>9, <2>10, <2>11, <2>12, <2>13, WentOn
<1>3. CASE /\ \E e \in JError \ {"NoError"} : Fail(e)
           /\ UNCHANGED <<inputs, at, dst, stack, str, keys>>
  BY <1>1, <1>3, RunningFacts, Stopped
<1>. QED
  BY <1>2, <1>3 DEF String, JError

LEMMA EscapeStep ==
    ASSUME ParseInv, Escape
    PROVE  ParseInv'
<1>1. pc = "string" /\ str.n < Len(Here.esc) /\ UNCHANGED <<inputs, at, dst, stack, keys>>
  BY DEF Escape
<1>2. pc # "done" /\ StringHere /\ ~AtEnd /\ Here.c \in {"str", "unquoted"}
  BY <1>1 DEF ParseInv, StringHere
<1>3. Here.esc \in Seq(CodeUnit) /\ str.n \in Nat /\ str.cp \in Int /\ str.size \in Nat
  BY <1>2, HereFacts, PieceFacts, RunningFacts
<1>. DEFINE written == Here.esc[str.n + 1]
            read == un_codepoint(str.cp, written)
<1>4. written \in CodeUnit
  BY <1>1, <1>3
<1>5. read \in Int /\ Utf8(read) \in Nat
  BY <1>3, <1>4, CodePoints
<1>6. CASE /\ Room(str.size + Utf8(read))
           /\ str' = [str EXCEPT !.n = @ + 1, !.cp = read, !.size = @ + Utf8(read),
                                 !.garbled = @ \/ read # written]
           /\ UNCHANGED <<pc, err>>
  <2>. HIDE DEF read, written
  <2>1. str' \in [n : Nat, cp : Int, size : Nat, garbled : BOOLEAN, key : BOOLEAN]
    <3>. DEFINE g == str.garbled \/ read # written
                S == [n : Nat, cp : Int, size : Nat, garbled : BOOLEAN, key : BOOLEAN]
    <3>1. g \in BOOLEAN
      OBVIOUS
    <3>2. str \in S
      BY <1>2, RunningFacts
    <3>3. str.n + 1 \in Nat /\ str.size + Utf8(read) \in Nat
      BY <1>3, <1>5
    <3>. HIDE DEF g
    <3>4. [str EXCEPT !.n = @ + 1, !.cp = read, !.size = @ + Utf8(read), !.garbled = g] \in S
      BY <3>1, <3>2, <3>3, <1>5
    <3>. QED  BY <1>6, <3>4 DEF g
  <2>2. str'.key = str.key /\ str'.size = str.size + Utf8(read)
    BY <1>2, <1>6, RunningFacts
  <2>3. cap' = cap /\ text' = text /\ at' = at /\ stack' = stack /\ err' = err /\ dst' = dst /\ keys' = keys /\ pc' = pc
    BY <1>1, <1>6 DEF inputs
  <2>4. Room(str.size)' /\ StringHere' /\ ~AtEnd'
    BY <1>2, <1>6, <2>2, <2>3 DEF Room, StringHere, AtEnd, Here
  <2>5. DOMAIN dst = 1..Len(dst) /\ Len(dst) \in Nat
    BY <1>2, RunningFacts
  <2>6. Structure(dst', stack', keys', pc', str'.key)
    BY <1>2, <2>2, <2>3, RunningFacts
  <2>7. /\ UNCHANGED <<inputs, err>> /\ at' \in Nat \ {0} /\ at' <= Len(text) + 1
        /\ dst' \in Seq(Cell) /\ Len(dst) <= Len(dst') /\ Len(dst') <= cap
        /\ stack' \in Seq(Frame) /\ pc' = "string" /\ keys' \subseteq DOMAIN dst'
    BY <1>1, <1>2, <1>6, <2>3, <2>5, RunningFacts
  <2>. QED  BY <1>2, <2>1, <2>4, <2>6, <2>7, WentOn
<1>7. CASE \E e \in JError \ {"NoError"} : Fail(e) /\ UNCHANGED str
  BY <1>1, <1>2, <1>7, RunningFacts, Stopped
<1>. QED
  BY <1>6, <1>7 DEF Escape, JError

LEMMA StringEndStep ==
    ASSUME ParseInv, StringEnd
    PROVE  ParseInv'
<1>1. pc = "string" /\ UNCHANGED <<inputs, stack, str, keys>>
  BY DEF StringEnd
<1>2. pc # "done" /\ StringHere /\ ~AtEnd /\ Here.c \in {"str", "unquoted"}
  BY <1>1 DEF ParseInv, StringHere
<1>3. Here.text \in STRING /\ str.size \in Nat /\ str.key \in BOOLEAN /\ at \in Nat /\ at + 1 <= Len(text) + 1
  BY <1>2, HereFacts, PieceFacts, RunningFacts
<1>4. Cells(str.size) \in Nat
  BY <1>3, CellsNat
<1>5. Structure(dst, stack, keys, "string", str.key)
  BY <1>1, <1>2, RunningFacts
<1>6. CASE /\ Room(8 * Cells(str.size))
           /\ dst' = [dst EXCEPT ![Len(dst)].len = str.size]
                     \o Data(IF str.garbled THEN "garbled" ELSE Here.text, str.size)
           /\ Skip
           /\ IF str.key THEN pc' = "colon" ELSE Returned(stack)
           /\ UNCHANGED err
  <2>. DEFINE x == Data(IF str.garbled THEN "garbled" ELSE Here.text, str.size)
  <2>1. x \in Seq(Datas) /\ Len(x) = Cells(str.size)
    <3>. DEFINE y == IF str.garbled THEN "garbled" ELSE Here.text
    <3>1. y \in Contents
      BY <1>3 DEF Contents
    <3>. HIDE DEF y
    <3>2. Data(y, str.size) \in Seq(Datas) /\ Len(Data(y, str.size)) = Cells(str.size)
      BY <3>1, <1>3, DataFacts
    <3>. QED  BY <3>2 DEF y
  <2>2. dst # <<>> /\ dst[Len(dst)] = Header("String", 0)
    BY <1>5 DEF Structure, Placed
  <2>3. dst \in Seq(Cell) /\ Len(dst) \in Nat
    BY <1>2, RunningFacts
  <2>. HIDE DEF x
  <2>4. dst' \in Seq(Cell) /\ Ended(dst, dst', str.size)
    BY <1>3, <1>6, <2>1, <2>2, <2>3, EndedString DEF x
  <2>5. Len(dst') = Len(dst) + Cells(str.size)
    BY <2>4 DEF Ended
  <2>6. cap' = cap /\ text' = text /\ at' = at + 1 /\ stack' = stack /\ err' = err /\ keys' = keys /\ str' = str
    BY <1>1, <1>6 DEF inputs, Skip
  <2>7. Len(dst) <= Len(dst') /\ Len(dst') <= cap /\ DOMAIN dst' = 1..Len(dst') /\ Len(dst') \in Nat
    <3>1. Room(8 * Cells(str.size)) /\ cap \in Nat /\ DOMAIN dst' = 1..Len(dst')
      BY <1>2, <1>6, <2>4, RunningFacts
    <3>. QED  BY <3>1, <1>4, <2>3, <2>5 DEF Room
  <2>8. pc' = IF str.key THEN "colon" ELSE IF stack = <<>> THEN "done" ELSE "after"
    BY <1>6 DEF Returned
  <2>9. Structure(dst', stack, keys, IF str.key THEN "colon" ELSE IF stack = <<>> THEN "done" ELSE "after", str.key)
    BY <1>2, <1>3, <1>5, <2>4, RunningFacts, EndStructure
  <2>10. Structure(dst', stack', keys', pc', str'.key)
    BY <2>6, <2>8, <2>9
  <2>11. /\ UNCHANGED <<inputs, err>> /\ at' \in Nat \ {0} /\ at' <= Len(text) + 1
         /\ stack' \in Seq(Frame) /\ keys' \subseteq DOMAIN dst'
         /\ pc' \in {"value", "key", "string", "colon", "after", "done"} /\ pc' # "string"
         /\ str' \in [n : Nat, cp : Int, size : Nat, garbled : BOOLEAN, key : BOOLEAN]
    BY <1>1, <1>2, <1>3, <2>3, <2>6, <2>7, <2>8, RunningFacts
  <2>. QED  BY <1>2, <2>4, <2>7, <2>10, <2>11, WentOn
<1>7. CASE Fail("DstOverflow") /\ UNCHANGED <<at, dst>>
  <2>1. "DstOverflow" \in JError \ {"NoError"}
    BY DEF JError
  <2>. QED  BY <1>1, <1>2, <1>7, <2>1, RunningFacts, Stopped
<1>. QED
  BY <1>6, <1>7 DEF StringEnd

LEMMA ScalarStep ==
    ASSUME ParseInv, json_parse_scalar
    PROVE  ParseInv'
<1>1. /\ pc = "value" /\ ~AtEnd /\ Here.c \in {"num", "true", "false", "null", "tru", "nul"}
      /\ UNCHANGED <<inputs, stack, str, keys>>
  BY DEF json_parse_scalar
<1>2. /\ pc # "done" /\ at \in Nat /\ at + 1 <= Len(text) + 1
      /\ Here.c = "num" => Here.v \in STRING
      /\ dst \in Seq(Cell) /\ Len(dst) \in Nat /\ cap \in Nat
  BY <1>1, HereFacts, PieceFacts, RunningFacts
<1>3. PICK c \in Cell, x \in Seq(Datas) :
         Scalar = <<c>> \o x /\ Len(x) = Cells(c.len) /\ c.type \notin Container \cup {"data"}
  <2>. DEFINE n == Header("Number", 8)
              u == Header("Null", 0)
              b == Header("Boolean", 8)
  <2>1. /\ n \in Cell /\ n.len = 8 /\ n.type = "Number"
        /\ u \in Cell /\ u.len = 0 /\ u.type = "Null"
        /\ b \in Cell /\ b.len = 8 /\ b.type = "Boolean"
    BY DEF Header, Cell
  <2>2. \A y \in Contents : Data(y, 8) \in Seq(Datas) /\ Len(Data(y, 8)) = Cells(8)
    BY DataFacts
  <2>3. <<u>> = <<u>> \o <<>> /\ <<>> \in Seq(Datas) /\ Len(<<>>) = Cells(0)
    BY CellsZero
  <2>4. "Number" \notin Container \cup {"data"} /\ "Null" \notin Container \cup {"data"} /\ "Boolean" \notin Container \cup {"data"}
    BY DEF Container
  <2>5. /\ Here.c = "num" => Scalar = <<n>> \o Data(Here.v, 8)
        /\ Here.c \in {"null", "nul"} => Scalar = <<u>>
        /\ Here.c \in {"true", "false", "tru"} => Scalar = <<b>> \o Data(Here.c, 8)
    BY DEF Scalar
  <2>. HIDE DEF n, u, b
  <2>6. CASE Here.c = "num"
    <3>1. Data(Here.v, 8) \in Seq(Datas) /\ Len(Data(Here.v, 8)) = Cells(n.len)
      BY <2>1, <2>2, <2>6, <1>2 DEF Contents
    <3>. QED  BY <3>1, <2>1, <2>4, <2>5, <2>6
  <2>7. CASE Here.c \in {"null", "nul"}
    BY <2>1, <2>3, <2>4, <2>5, <2>7
  <2>8. CASE Here.c \in {"true", "false", "tru"}
    <3>1. Here.c \in Contents
      BY <2>8 DEF Contents
    <3>2. Data(Here.c, 8) \in Seq(Datas) /\ Len(Data(Here.c, 8)) = Cells(b.len)
      BY <2>1, <2>2, <3>1
    <3>. QED  BY <3>2, <2>1, <2>4, <2>5, <2>8
  <2>. QED  BY <1>1, <2>6, <2>7, <2>8
<1>4. CASE Fail("DstOverflow") /\ UNCHANGED <<at, dst>>
  <2>1. "DstOverflow" \in JError \ {"NoError"}
    BY DEF JError
  <2>. QED  BY <1>1, <1>2, <1>4, <2>1, RunningFacts, Stopped
<1>5. CASE /\ Room(8 * Len(Scalar))
           /\ dst' = dst \o Scalar
           /\ Skip
           /\ \E e \in Outcomes :
                 IF e = "NoError" THEN Returned(stack) /\ UNCHANGED err ELSE Fail(e)
  <2>1. dst' = dst \o (<<c>> \o x) /\ c.type # "data" /\ c.type \notin Container
    BY <1>3, <1>5
  <2>2. dst' \in Seq(Cell) /\ Wrote(dst, dst', c)
    BY <1>2, <1>3, <2>1, WroteData
  <2>3. Len(dst') = Len(dst) + Len(Scalar) /\ Len(Scalar) \in Nat /\ DOMAIN dst' = 1..Len(dst') /\ Len(dst') \in Nat
    BY <1>2, <1>3, <2>1, <2>2
  <2>4. Len(dst) <= Len(dst') /\ Len(dst') <= cap
    BY <1>2, <1>5, <2>3 DEF Room
  <2>5. cap' = cap /\ text' = text /\ at' = at + 1 /\ stack' = stack /\ keys' = keys /\ str' = str
    BY <1>1, <1>5 DEF inputs, Skip
  <2>6. CASE Returned(stack) /\ UNCHANGED err
    <3>1. pc' = (IF stack = <<>> THEN "done" ELSE "after") /\ err' = err
      BY <1>5, <2>6 DEF Returned
    <3>2. Structure(dst', stack, keys, IF stack = <<>> THEN "done" ELSE "after", str.key)
      BY <1>1, <1>2, <1>3, <2>1, <2>2, RunningFacts, ScalarStructure
    <3>3. Structure(dst', stack', keys', pc', str'.key)
      BY <2>5, <3>1, <3>2
    <3>4. /\ UNCHANGED <<inputs, err>> /\ at' \in Nat \ {0} /\ at' <= Len(text) + 1
          /\ stack' \in Seq(Frame) /\ keys' \subseteq DOMAIN dst'
          /\ pc' \in {"value", "key", "string", "colon", "after", "done"} /\ pc' # "string"
          /\ str' \in [n : Nat, cp : Int, size : Nat, garbled : BOOLEAN, key : BOOLEAN]
      <4>1. UNCHANGED <<inputs, err>> /\ stack' \in Seq(Frame)
        BY <1>1, <1>2, <2>5, <3>1, RunningFacts
      <4>2. str' \in [n : Nat, cp : Int, size : Nat, garbled : BOOLEAN, key : BOOLEAN]
        BY <1>2, <2>5, RunningFacts
      <4>3. keys' \subseteq DOMAIN dst'
        BY <1>2, <2>3, <2>4, <2>5, RunningFacts
      <4>4. at' \in Nat \ {0} /\ at' <= Len(text) + 1
        BY <1>2, <2>5
      <4>5. pc' \in {"value", "key", "string", "colon", "after", "done"} /\ pc' # "string"
        BY <3>1
      <4>. QED  BY <4>1, <4>2, <4>3, <4>4, <4>5
    <3>. QED  BY <1>2, <2>2, <2>4, <3>3, <3>4, WentOn
  <2>7. CASE \E e \in JError \ {"NoError"} : Fail(e)
    <3>1. PICK e \in JError \ {"NoError"} : Fail(e)
      BY <2>7
    <3>2. at' \in Nat \ {0} /\ at' <= Len(text) + 1
      BY <1>2, <2>5
    <3>. QED  BY <1>1, <1>2, <2>2, <2>4, <3>1, <3>2, Stopped
  <2>8. Outcomes \subseteq JError
    BY DEF Outcomes, JError
  <2>. QED  BY <1>5, <2>6, <2>7, <2>8
<1>. QED
  BY <1>4, <1>5 DEF json_parse_scalar

LEMMA ContainerStep ==
    ASSUME ParseInv, json_parse_container
    PROVE  ParseInv'
<1>. DEFINE t == Type(Here.c)
            c == Header(t, 0)
            f == [type |-> t, h |-> Len(dst) + 1]
<1>1. pc = "value" /\ ~AtEnd /\ UNCHANGED <<inputs, str, keys>>
  BY DEF json_parse_container
<1>2. /\ pc # "done" /\ at \in Nat /\ at + 1 <= Len(text) + 1 /\ Len(text) \in Nat
      /\ dst \in Seq(Cell) /\ Len(dst) \in Nat /\ cap \in Nat /\ stack \in Seq(Frame)
  BY <1>1, HereFacts, RunningFacts
<1>3. t \in Container
  BY DEF Type, Container
<1>. HIDE DEF t
<1>4. c \in Cell /\ c.type = t /\ c.type # "data" /\ c.len = 0 /\ f \in Frame /\ f.type = t /\ f.h = End(dst)
  BY <1>2, <1>3 DEF Header, Cell, Container, Frame, End
<1>. HIDE DEF c, f
<1>5. CASE Fail("DstOverflow") /\ UNCHANGED <<at, dst, stack>>
  <2>1. "DstOverflow" \in JError \ {"NoError"}
    BY DEF JError
  <2>. QED  BY <1>1, <1>2, <1>5, <2>1, RunningFacts, Stopped
<1>6. ASSUME Room(8), dst' = Append(dst, c)
      PROVE  /\ dst' \in Seq(Cell) /\ Wrote(dst, dst', c)
             /\ Len(dst) <= Len(dst') /\ Len(dst') <= cap /\ keys' \subseteq DOMAIN dst'
  <2>1. dst' \in Seq(Cell) /\ Wrote(dst, dst', c)
    BY <1>2, <1>4, <1>6, WroteHeader
  <2>2. Len(dst') = Len(dst) + 1 /\ DOMAIN dst' = 1..(Len(dst) + 1)
    BY <1>2, <1>4, <1>6
  <2>3. Len(dst') <= cap
    BY <1>2, <1>6, <2>2 DEF Room
  <2>4. keys' \subseteq DOMAIN dst'
    BY <1>1, <1>2, <2>2, RunningFacts
  <2>. QED  BY <1>2, <2>1, <2>2, <2>3, <2>4
<1>7. /\ cap' = cap /\ text' = text /\ str' = str /\ keys' = keys
      /\ str' \in [n : Nat, cp : Int, size : Nat, garbled : BOOLEAN, key : BOOLEAN]
  BY <1>1, <1>2, RunningFacts DEF inputs
<1>8. Structure(dst, stack, keys, "value", str.key)
  BY <1>1, <1>2, RunningFacts
<1>9. CASE Room(8) /\ dst' = Append(dst, c) /\ Skip /\ Fail("SrcOverflow") /\ UNCHANGED stack
  <2>1. "SrcOverflow" \in JError \ {"NoError"}
    BY DEF JError
  <2>2. at' \in Nat \ {0} /\ at' <= Len(text) + 1
    BY <1>2, <1>9 DEF Skip
  <2>. QED  BY <1>1, <1>2, <1>6, <1>9, <2>1, <2>2, Stopped
<1>10. CASE /\ Room(8) /\ dst' = Append(dst, c)
            /\ at < Len(text) /\ at' = at + 2 /\ Returned(stack) /\ UNCHANGED <<stack, err>>
  <2>1. pc' = IF stack = <<>> THEN "done" ELSE "after"
    BY <1>10 DEF Returned
  <2>2. Structure(dst', stack, keys, IF stack = <<>> THEN "done" ELSE "after", str.key)
    BY <1>2, <1>4, <1>6, <1>8, <1>10, ScalarStructure
  <2>3. Structure(dst', stack', keys', pc', str'.key)
    BY <1>7, <1>10, <2>1, <2>2
  <2>4. at' \in Nat \ {0} /\ at' <= Len(text) + 1
    BY <1>2, <1>10
  <2>5. pc' \in {"value", "key", "string", "colon", "after", "done"} /\ pc' # "string"
    BY <2>1
  <2>6. UNCHANGED <<inputs, err>> /\ stack' \in Seq(Frame)
    BY <1>1, <1>2, <1>10
  <2>. QED  BY <1>2, <1>6, <1>7, <1>10, <2>3, <2>4, <2>5, <2>6, WentOn
<1>11. CASE /\ Room(8) /\ dst' = Append(dst, c)
            /\ Skip /\ stack' = Append(stack, f) /\ Turn(t) /\ UNCHANGED err
  <2>1. stack' \in Seq(Frame) /\ Pushed(stack, stack', f)
    BY <1>2, <1>4, <1>11, PushedCalls
  <2>2. pc' = IF c.type = "Array" THEN "value" ELSE "key"
    BY <1>4, <1>11 DEF Turn
  <2>3. Structure(dst', stack', keys, IF c.type = "Array" THEN "value" ELSE "key", str.key)
    BY <1>2, <1>3, <1>4, <1>6, <1>8, <1>11, <2>1, OpenStructure
  <2>4. Structure(dst', stack', keys', pc', str'.key)
    BY <1>7, <2>2, <2>3
  <2>5. at' \in Nat \ {0} /\ at' <= Len(text) + 1
    BY <1>2, <1>11 DEF Skip
  <2>6. pc' \in {"value", "key", "string", "colon", "after", "done"} /\ pc' # "string"
    BY <2>2
  <2>7. UNCHANGED <<inputs, err>>
    BY <1>1, <1>11
  <2>. QED  BY <1>2, <1>6, <1>7, <1>11, <2>1, <2>4, <2>5, <2>6, <2>7, WentOn
<1>. QED
  BY <1>5, <1>9, <1>10, <1>11 DEF json_parse_container, c, f, t

LEMMA ColonStep ==
    ASSUME ParseInv, Colon
    PROVE  ParseInv'
<1>1. pc = "colon" /\ UNCHANGED <<inputs, dst, stack, str, keys>>
  BY DEF Colon
<1>2. /\ pc # "done" /\ at \in Nat /\ Len(text) \in Nat
      /\ dst \in Seq(Cell) /\ Len(dst) \in Nat /\ cap \in Nat /\ stack \in Seq(Frame)
  BY <1>1, RunningFacts
<1>3. CASE (\E e \in JError \ {"NoError"} : Fail(e)) /\ UNCHANGED at
  BY <1>1, <1>2, <1>3, RunningFacts, Stopped
<1>4. CASE ~AtEnd /\ Skip /\ pc' = "value" /\ UNCHANGED err
  <2>1. dst' = dst /\ stack' = stack /\ keys' = keys /\ str' = str /\ DOMAIN dst = 1..Len(dst)
    BY <1>1, <1>2
  <2>2. Structure(dst, stack, keys, "value", str.key)
    BY <1>1, <1>2, RunningFacts, ColonStructure
  <2>3. Structure(dst', stack', keys', pc', str'.key)
    BY <1>4, <2>1, <2>2
  <2>4. at' \in Nat \ {0} /\ at' <= Len(text) + 1
    BY <1>2, <1>4, HereFacts DEF Skip
  <2>5. /\ dst' \in Seq(Cell) /\ Len(dst) <= Len(dst') /\ Len(dst') <= cap /\ stack' \in Seq(Frame)
        /\ keys' \subseteq DOMAIN dst'
        /\ str' \in [n : Nat, cp : Int, size : Nat, garbled : BOOLEAN, key : BOOLEAN]
    BY <1>2, <2>1, RunningFacts
  <2>6. UNCHANGED <<inputs, err>> /\ pc' = "value"
    BY <1>1, <1>4
  <2>. QED  BY <1>2, <2>3, <2>4, <2>5, <2>6, WentOn
<1>. QED
  BY <1>3, <1>4 DEF Colon, JError

LEMMA AfterStep ==
    ASSUME ParseInv, After
    PROVE  ParseInv'
<1>1. pc = "after" /\ UNCHANGED <<inputs, str, keys>>
  BY DEF After
<1>2. /\ pc # "done" /\ at \in Nat /\ Len(text) \in Nat
      /\ dst \in Seq(Cell) /\ Len(dst) \in Nat /\ cap \in Nat /\ stack \in Seq(Frame)
      /\ DOMAIN dst = 1..Len(dst)
  BY <1>1, RunningFacts
<1>3. Structure(dst, stack, keys, "after", str.key)
  BY <1>1, <1>2, RunningFacts
<1>4. stack # <<>>
  BY <1>3 DEF Structure, Placed
<1>. DEFINE f == Top(stack)
            z == Top(stack).h
<1>5. /\ Last(stack) = f /\ f \in Frame
      /\ Front(stack) \in Seq(Frame) /\ Pushed(Front(stack), stack, f)
  BY <1>2, <1>4, PoppedCalls
<1>6. z \in Heads(dst)
  BY <1>2, <1>3, <1>4, OpenFacts DEF Structure
<1>7. CASE (\E e \in JError \ {"NoError"} : Fail(e)) /\ UNCHANGED <<at, dst, stack>>
  BY <1>1, <1>2, <1>7, RunningFacts, Stopped
<1>8. /\ text' = text /\ cap' = cap /\ str' = str /\ keys' = keys
      /\ str' \in [n : Nat, cp : Int, size : Nat, garbled : BOOLEAN, key : BOOLEAN]
  BY <1>1, <1>2, RunningFacts DEF inputs
<1>9. CASE ~AtEnd /\ Skip /\ Turn(f.type) /\ UNCHANGED <<dst, stack, err>>
  <2>1. pc' = IF f.type = "Array" THEN "value" ELSE "key"
    BY <1>9 DEF Turn
  <2>2. Structure(dst, stack, keys, IF f.type = "Array" THEN "value" ELSE "key", str.key)
    BY <1>2, <1>3, CommaStructure
  <2>3. Structure(dst', stack', keys', pc', str'.key)
    BY <1>8, <1>9, <2>1, <2>2
  <2>4. at' \in Nat \ {0} /\ at' <= Len(text) + 1
    BY <1>2, <1>9, HereFacts DEF Skip
  <2>5. /\ dst' \in Seq(Cell) /\ Len(dst) <= Len(dst') /\ Len(dst') <= cap /\ stack' \in Seq(Frame)
        /\ keys' \subseteq DOMAIN dst'
    BY <1>2, <1>8, <1>9, RunningFacts
  <2>6. UNCHANGED <<inputs, err>>
    BY <1>1, <1>9
  <2>7. pc' \in {"value", "key", "string", "colon", "after", "done"} /\ pc' # "string"
    BY <2>1
  <2>. QED  BY <1>2, <1>8, <2>3, <2>4, <2>5, <2>6, <2>7, WentOn
<1>10. CASE ~AtEnd /\ Skip /\ dst' = Close(z) /\ stack' = Front(stack) /\ Returned(stack') /\ UNCHANGED err
  <2>1. dst' \in Seq(Cell) /\ Shut(dst, dst', z)
    BY <1>2, <1>6, <1>10, ShutContainer DEF Close
  <2>2. stack' \in Seq(Frame) /\ Pushed(stack', stack, f)
    BY <1>5, <1>10
  <2>3. pc' = IF stack' = <<>> THEN "done" ELSE "after"
    BY <1>10 DEF Returned
  <2>4. Structure(dst', stack', keys, IF stack' = <<>> THEN "done" ELSE "after", str.key)
    BY <1>2, <1>3, <1>5, <2>1, <2>2, CloseStructure
  <2>5. Structure(dst', stack', keys', pc', str'.key)
    BY <1>8, <2>3, <2>4
  <2>6. at' \in Nat \ {0} /\ at' <= Len(text) + 1
    BY <1>2, <1>10, HereFacts DEF Skip
  <2>7. Len(dst') = Len(dst) /\ DOMAIN dst' = 1..Len(dst)
    BY <2>1 DEF Shut
  <2>8. Len(dst) <= Len(dst') /\ Len(dst') <= cap /\ keys' \subseteq DOMAIN dst'
    BY <1>2, <1>8, <2>7, RunningFacts
  <2>9. UNCHANGED <<inputs, err>>
    BY <1>1, <1>10
  <2>10. pc' \in {"value", "key", "string", "colon", "after", "done"} /\ pc' # "string"
    BY <2>3
  <2>. QED  BY <1>2, <1>8, <2>1, <2>2, <2>5, <2>6, <2>8, <2>9, <2>10, WentOn
<1>. HIDE DEF f, z
<1>. QED
  BY <1>5, <1>7, <1>9, <1>10 DEF After, JError, f, z

\* The inductive step.
LEMMA ParseStep == ParseInv /\ [ParseNext]_pvars => ParseInv'
<1>. SUFFICES ASSUME ParseInv, [ParseNext]_pvars  PROVE ParseInv'
  OBVIOUS
<1>1. CASE Quoted
  BY <1>1, StringStep DEF Quoted
<1>2. CASE Escape
  BY <1>2, EscapeStep
<1>3. CASE StringEnd
  BY <1>3, StringEndStep
<1>4. CASE json_parse_scalar
  BY <1>4, ScalarStep
<1>5. CASE json_parse_container
  BY <1>5, ContainerStep
<1>6. CASE NoValue
  <2>1. pc # "done" /\ UNCHANGED <<inputs, at, dst, stack, str, keys>> /\ (Fail("SrcOverflow") \/ Fail("BadChar"))
    BY <1>6 DEF NoValue
  <2>2. "SrcOverflow" \in JError \ {"NoError"} /\ "BadChar" \in JError \ {"NoError"}
    BY DEF JError
  <2>3. Len(dst) \in Nat
    BY <2>1, RunningFacts
  <2>. QED  BY <2>1, <2>2, <2>3, RunningFacts, Stopped
<1>7. CASE json_parse_key
  BY <1>7, StringStep DEF json_parse_key
<1>8. CASE Colon
  BY <1>8, ColonStep
<1>9. CASE After
  BY <1>9, AfterStep
<1>10. CASE UNCHANGED pvars
  <2>1. ParseTypeOK'
    BY <1>10 DEF ParseInv, ParseTypeOK, pvars
  <2>2. InBuffer' /\ (pc = "string" => StringHere)'
    BY <1>10 DEF ParseInv, InBuffer, pvars, AtEnd, Room, StringHere, Here
  <2>3. (err # "NoError" => pc = "done")' /\ (err = "NoError" => Structure(dst, stack, keys, pc, str.key))'
    BY <1>10 DEF ParseInv, pvars
  <2>. QED  BY <2>1, <2>2, <2>3 DEF ParseInv
<1>. QED
  BY <1>1, <1>2, <1>3, <1>4, <1>5, <1>6, <1>7, <1>8, <1>9, <1>10 DEF ParseNext

LEMMA ParseInitial == text \in Seq(Piece) /\ cap \in Nat /\ ParseInit => ParseInv
<1>. SUFFICES ASSUME text \in Seq(Piece), cap \in Nat, ParseInit  PROVE ParseInv
  OBVIOUS
<1>1. ParseTypeOK
  BY DEF ParseInit, ParseTypeOK, NoStr, JError
<1>2. InBuffer /\ (pc = "string" => StringHere)
  BY DEF ParseInit, InBuffer
<1>3. Heads(<<>>) = {} /\ Open(<<>>) = {}
  BY DEF Heads, Open
<1>4. Stacked(<<>>, <<>>) /\ Tiles(<<>>, <<>>, {}) /\ Pairs(<<>>, <<>>, {}, "value")
  BY <1>3 DEF Stacked, Tiles, Closed, Pairs
<1>5. Placed(<<>>, <<>>, {}, "value", FALSE)
  BY DEF Placed
<1>6. Structure(dst, stack, keys, pc, str.key)
  BY <1>4, <1>5 DEF ParseInit, NoStr, Structure
<1>. QED
  BY <1>1, <1>2, <1>6 DEF ParseInv, ParseInit

LEMMA ParseInvariant == ParseSpec => []ParseInv
<1>1. text \in Seq(Piece) /\ cap \in Nat /\ ParseInit => ParseInv
  BY ParseInitial
<1>2. ParseInv /\ [ParseNext]_pvars => ParseInv'
  BY ParseStep
<1>. QED
  BY <1>1, <1>2, PTL DEF ParseSpec

\* The variables of the parser keep their types (json_parse).
THEOREM ParseTypes == ParseSpec => []ParseTypeOK
<1>1. ParseInv => ParseTypeOK
  BY DEF ParseInv
<1>. QED
  BY <1>1, ParseInvariant, PTL

\* Whatever the text and the size of the buffer, json_parse writes nothing past its buffer
\* and reads nothing past the text: every header, value, escape and padding is checked
\* against the buffer before it is written.
THEOREM StaysInBuffer == ParseSpec => []InBuffer
<1>1. ParseInv => InBuffer
  BY DEF ParseInv
<1>. QED
  BY <1>1, ParseInvariant, PTL

\* Whatever the text, nested to any depth, the buffer that json_parse accepts can be
\* walked by its lengths alone, as json_adapt does.
THEOREM AcceptedIsWalkable == ParseSpec => []Walkable
<1>1. ParseInv => Walkable
  <2>. SUFFICES ASSUME ParseInv, Parsed  PROVE Walkable
    BY DEF Walkable
  <2>1. /\ dst \in Seq(Cell) /\ stack \in Seq(Frame)
        /\ Structure(dst, stack, keys, "done", str.key)
    BY DEF ParseInv, ParseTypeOK, Parsed, Frame
  <2>. QED  BY <2>1, WalkedStructure DEF Walkable
<1>. QED
  BY <1>1, ParseInvariant, PTL
===============================================================================
