---------------------------- MODULE ForwardProofs ----------------------------
(***************************************************************************)
(* Proofs about the way of an event, for every device, every number of     *)
(* events and of uses of devices after each other, and every size of the   *)
(* kernel's buffer.                                                        *)
(***************************************************************************)
EXTENDS Forward, SetLemmas, FiniteSetTheorems, SequenceTheorems

-----------------------------------------------------------------------------
(* What a report shows, and what the events that wait will make of it *)

State == [Type -> [Code -> Int]]
Event == [type : Type, code : Code, value : Value] \cup [type : {"syn"}, state : State]
Ends(e) == e.type = "syn"

\* The place of code c in the list ids.
Has(ids, c)   == \E i \in DOMAIN ids : ids[i] = c
Place(ids, c) == CHOOSE i \in DOMAIN ids : ids[i] = c

\* The state a virtual device with the codes ids is in once it was given the report r.
Shown(ids, r) ==
    [t \in Type |-> [c \in Code |->
        IF Has(ids[t], c) THEN Felt(t, Emitted(t, r[t][Place(ids[t], c)])) ELSE 0]]

About(e, t, c) == e.type = t /\ e.code = c
Untouched(q, i, n, t, c) == \A j \in i..n : ~About(q[j], t, c)

\* The last of the first n events about a code gives it the value it has in s.
Told(q, n, s) ==
    \A t \in Type, c \in Code : \A i \in 1..n :
       About(q[i], t, c) /\ Untouched(q, i + 1, n, t, c) => Felt(t, q[i].value) = s[t][c]

\* A code that was heard has its value in s already if none of the first n events is about
\* it; one that was not is at rest.
Knows(q, n, s, shown, H) ==
    \A t \in Type, c \in Code :
       IF <<t, c>> \in H THEN Untouched(q, 1, n, t, c) => shown[t][c] = s[t][c]
       ELSE shown[t][c] = 0

-----------------------------------------------------------------------------
(* The inductive invariant *)

Codes   == [Type -> SUBSET Code]
Gens    == 1..MaxGen
Message ==
    [tag : {"Info"}, gen : Gens, info : [Type -> Seq(Code)]]
    \cup [tag : {"Report"}, gen : Gens, report : [Type -> Seq(Int)]]
    \cup [tag : {"Destroy"}, gen : Gens]

Types ==
    /\ gen \in 0..MaxGen
    /\ dev \in {"gone", "pool", "held"} /\ (dev = "held" => gen \in Gens)
    /\ codes \in Codes
    /\ state \in State
    /\ frames \in [Gens -> SUBSET State]
    /\ \A g \in Gens : Zero \in frames[g]
    /\ queue \in Seq(Event) /\ wire \in Seq(Message)
    /\ info \in [Type -> Seq(Code)] /\ report \in [Type -> Seq(Int)]
    /\ virtual # NoDevice => virtual \in [gen : Gens, info : [Type -> Seq(Code)], value : State]

\* setup_device numbers the codes of the device it looks at, each one once.
Numbered ==
    dev # "gone" => \A t \in Type :
       /\ dev = "held" => Len(report[t]) = Len(info[t])
       /\ Len(info[t]) <= KeyMax
       /\ \A i, j \in 1..Len(info[t]) : info[t][i] = info[t][j] => i = j
       /\ \A c \in Code : c \in Looked(codes, t) <=> Has(info[t], c)
       /\ \A c \in Looked(codes, t) :
             mapping[t][c] \in 1..Len(info[t]) /\ info[t][mapping[t][c]] = c
       /\ \A c \in Code \ Looked(codes, t) : mapping[t][c] = NoIndex

\* What waits is of the device, and ends with the end of a packet if one has ended.
Queued ==
    /\ dev = "gone" => queue = <<>>
    /\ \A i \in 1..Len(queue) :
          ~Ends(queue[i]) => queue[i].code \in codes[queue[i].type]
    /\ synced /\ queue # <<>> => Ends(queue[Len(queue)])

\* The events that wait lead to the state the device is in, and, up to the end of each
\* packet, to the state it was in then.
Recorded ==
    /\ Told(queue, Len(queue), state)
    /\ \A n \in 1..Len(queue) : Ends(queue[n]) => Told(queue, n, queue[n].state)

\* In the codes it has heard of the report is behind by the events that wait alone.
Behind ==
    dev = "held" /\ gen \notin dropped =>
       /\ Knows(queue, Len(queue), state, Shown(info, report), heard)
       /\ \A n \in 1..Len(queue) :
             Ends(queue[n]) => Knows(queue, n, queue[n].state, Shown(info, report), heard)

\* A report that the device with the codes ids takes, and the state it shows.
Fits(ids, r, g) ==
    /\ \A t \in Type : Len(r[t]) = Len(ids[t])
    /\ g \notin dropped => Shown(ids, r) \in frames[g]

Using(m, g) == m.tag \in {"Info", "Report"} /\ m.gen = g

\* A report comes after the announcement of its device or another report of it.
InOrder ==
    /\ Len(wire) > 0 /\ wire[1].tag = "Report" => virtual # NoDevice /\ virtual.gen = wire[1].gen
    /\ \A i \in 1..(Len(wire) - 1) : wire[i + 1].tag = "Report" => Using(wire[i], wire[i + 1].gen)
    /\ dev = "held" =>
          IF wire = <<>> THEN virtual # NoDevice /\ virtual.gen = gen
          ELSE Using(wire[Len(wire)], gen)

\* All that was announced in this use is what setup_device made.
Same ==
    /\ \A i \in 1..Len(wire) : wire[i].gen <= gen
    /\ virtual # NoDevice => virtual.gen <= gen
    /\ dev = "held" =>
          /\ \A i \in 1..Len(wire) :
                wire[i].tag = "Info" /\ wire[i].gen = gen => wire[i].info = info
          /\ virtual # NoDevice /\ virtual.gen = gen => virtual.info = info

\* Every report fits the device it will be given to.
Fitting ==
    /\ \A i, j \in 1..Len(wire) :
          i < j /\ wire[i].tag = "Info" /\ wire[j].tag = "Report" /\ wire[i].gen = wire[j].gen
             => Fits(wire[i].info, wire[j].report, wire[j].gen)
    /\ \A j \in 1..Len(wire) :
          virtual # NoDevice /\ wire[j].tag = "Report" /\ wire[j].gen = virtual.gen
             => Fits(virtual.info, wire[j].report, wire[j].gen)

\* A virtual device is at rest where it has no codes.
Resting ==
    virtual # NoDevice =>
       \A t \in Type : \A c \in Code : Has(virtual.info[t], c) \/ virtual.value[t][c] = 0

\* What the last message will show, once all packets have been read.
Settled ==
    dev = "held" /\ gen \notin dropped /\ synced /\ queue = <<>> =>
       IF wire = <<>> THEN virtual.value = Masked(state, heard)
       ELSE LET m == wire[Len(wire)]
            IN  Masked(state, heard) = IF m.tag = "Info" THEN Zero ELSE Shown(info, m.report)

FInv ==
    /\ Types /\ Numbered /\ Queued /\ Recorded /\ Behind
    /\ InOrder /\ Same /\ Fitting /\ Resting /\ Settled
    /\ WholeFrames

-----------------------------------------------------------------------------
(* Lemmas: the numbering of the codes *)

\* The tables setup_device makes of the codes are inverse to each other.
LEMMA NumberingLemma ==
    ASSUME NEW cs \in Codes, NEW t \in Type
    PROVE  /\ Ids(cs, t) \in Seq(Code) /\ Len(Ids(cs, t)) <= KeyMax
           /\ \A c \in Looked(cs, t) : /\ Index(cs, t, c) \in 1..Len(Ids(cs, t))
                                  /\ Ids(cs, t)[Index(cs, t, c)] = c
           /\ \A i \in 1..Len(Ids(cs, t)) : /\ Ids(cs, t)[i] \in Looked(cs, t)
                                               /\ Index(cs, t, Ids(cs, t)[i]) = i
<1> DEFINE S    == Looked(cs, t)
           A(c) == {d \in S : d <= c}
           n    == Cardinality(S)
           f    == [c \in S |-> Index(cs, t, c)]
<1>0. KeyMax \in Int
  <2>1. KeyMax \in 0..(NoIndex - 1)
    BY ForwardAssumption
  <2> QED BY <2>1
<1>1. S \subseteq Code /\ S \subseteq 0..KeyMax /\ S \subseteq Int
  <2>1. S \subseteq Code
    BY DEF Codes, Looked
  <2>2. Code \subseteq 0..KeyMax
    BY ForwardAssumption
  <2>3. 0..KeyMax \subseteq Int
    BY <1>0
  <2> HIDE DEF S
  <2> QED BY <2>1, <2>2, <2>3
<1>2. IsFiniteSet(S) /\ n \in Nat
  <2>1. IsFiniteSet(0..KeyMax)
    BY <1>0, FS_Interval
  <2>2. IsFiniteSet(S)
    BY <2>1, <1>1, FS_Subset
  <2> QED BY <2>2, FS_CardinalityType
<1>3. ASSUME NEW c \in S
      PROVE  /\ IsFiniteSet(A(c)) /\ Cardinality(A(c)) \in 1..n
             /\ Index(cs, t, c) = Cardinality(A(c))
  <2>1. A(c) \in SUBSET S /\ c \in A(c)
    BY <1>1
  <2>2. IsFiniteSet(A(c)) /\ Cardinality(A(c)) <= n
    BY <2>1, <1>2, FS_Subset
  <2>3. Cardinality(A(c)) \in Nat /\ Cardinality(A(c)) # 0
    BY <2>1, <2>2, FS_CardinalityType, FS_EmptySet
  <2>4. Index(cs, t, c) = Cardinality(A(c))
    BY DEF Index
  <2> QED BY <2>2, <2>3, <2>4, <1>2
<1>4. ASSUME NEW c \in S, NEW d \in S, c < d PROVE Index(cs, t, c) # Index(cs, t, d)
  <2>1. A(c) \in SUBSET A(d) /\ d \in A(d) /\ d \notin A(c)
    BY <1>1, <1>4
  <2>2. Cardinality(A(d)) # Cardinality(A(c))
    BY <2>1, <1>3, FS_Subset
  <2> QED BY <2>2, <1>3
<1>5. \A c, d \in S : Index(cs, t, c) = Index(cs, t, d) => c = d
  <2>1. \A c, d \in S : c < d \/ d < c \/ c = d
    BY <1>1
  <2> QED BY <2>1, <1>4
<1>6. f \in Injection(S, 1..n)
  <2>1. f \in [S -> 1..n]
    BY <1>3
  <2>2. IsInjective(f)
    BY <1>5 DEF IsInjective
  <2> QED BY <2>1, <2>2 DEF Injection
<1>7. f \in Surjection(S, 1..n)
  <2>1. IsFiniteSet(1..n) /\ Cardinality(1..n) = n
    BY <1>2, FS_Interval
  <2> QED BY <1>6, <2>1, FS_Injection
<1>8. \A i \in 1..n : \E c \in S : Index(cs, t, c) = i
  BY <1>7 DEF Surjection
<1>9. Ids(cs, t) = [i \in 1..n |-> CHOOSE c \in S : Index(cs, t, c) = i]
  BY DEF Ids
<1>10. \A i \in 1..n : Ids(cs, t)[i] \in S /\ Index(cs, t, Ids(cs, t)[i]) = i
  BY <1>8, <1>9
<1>11. Ids(cs, t) \in [1..n -> Code]
  BY <1>1, <1>9, <1>10
<1>12. Ids(cs, t) \in Seq(Code) /\ Len(Ids(cs, t)) = n
  BY <1>2, <1>11
<1>13. ASSUME NEW c \in S
       PROVE  Index(cs, t, c) \in 1..n /\ Ids(cs, t)[Index(cs, t, c)] = c
  <2>1. Index(cs, t, c) \in 1..n
    BY <1>3
  <2> QED BY <2>1, <1>5, <1>10
<1>14. n <= KeyMax
  <2>1. S \subseteq 0..(KeyMax - 1) /\ 0 <= KeyMax
    BY <1>0, <1>1, ForwardAssumption DEF Looked
  <2>2. IsFiniteSet(0..(KeyMax - 1)) /\ Cardinality(0..(KeyMax - 1)) = KeyMax
    BY <1>0, <2>1, FS_Interval
  <2> HIDE DEF S
  <2>3. Cardinality(S) <= Cardinality(0..(KeyMax - 1))
    BY <2>1, <2>2, FS_Subset
  <2> QED BY <2>2, <2>3
<1> QED BY <1>10, <1>12, <1>13, <1>14

-----------------------------------------------------------------------------
(* Lemmas: what events lead to *)

\* An end of a packet is about no code; any other event is about one.
LEMMA EventKinds ==
    /\ \A e \in Event : Ends(e) => e.state \in State /\ \A t \in Type : \A c : ~About(e, t, c)
    /\ \A e \in Event : ~Ends(e) => e \in [type : Type, code : Code, value : Value]
    /\ \A s \in State : Syn(s) \in Event /\ Ends(Syn(s)) /\ Syn(s).state = s
<1>1. "syn" \notin Type
  BY DEF Type
<1> QED BY <1>1 DEF Event, About, Ends, Syn

\* Only the first n events count.
LEMMA SameEvents ==
    ASSUME NEW n \in Nat, NEW p, NEW q, NEW s, NEW shown, NEW H, \A i \in 1..n : p[i] = q[i]
    PROVE  /\ Told(q, n, s) => Told(p, n, s)
           /\ Knows(q, n, s, shown, H) => Knows(p, n, s, shown, H)
<1>1. \A t \in Type, c \in Code : \A i \in 1..n : About(p[i], t, c) <=> About(q[i], t, c)
  BY DEF About
<1>2. \A t \in Type, c \in Code : \A i \in 1..(n + 1) :
         Untouched(p, i, n, t, c) <=> Untouched(q, i, n, t, c)
  BY <1>1 DEF Untouched
<1>3. 1 \in 1..(n + 1) /\ \A i \in 1..n : i + 1 \in 1..(n + 1)
  OBVIOUS
<1>4. Told(q, n, s) => Told(p, n, s)
  BY <1>1, <1>2, <1>3 DEF Told
<1>5. Knows(q, n, s, shown, H) => Knows(p, n, s, shown, H)
  BY <1>2, <1>3 DEF Knows
<1> QED BY <1>4, <1>5

\* One event more, which gives its code the value it has in s.
LEMMA OneMore ==
    ASSUME NEW n \in Nat, NEW q, NEW s, NEW z, NEW shown, NEW H,
           \A t \in Type, c \in Code :
              z[t][c] = IF About(q[n + 1], t, c) THEN Felt(t, q[n + 1].value) ELSE s[t][c]
    PROVE  /\ Told(q, n, s) => Told(q, n + 1, z)
           /\ Knows(q, n, s, shown, H) => Knows(q, n + 1, z, shown, H)
<1>1. ASSUME NEW t, NEW c, NEW i \in 1..(n + 1), Untouched(q, i, n + 1, t, c)
      PROVE  Untouched(q, i, n, t, c) /\ ~About(q[n + 1], t, c)
  BY <1>1 DEF Untouched
<1>2. ASSUME Told(q, n, s), NEW t \in Type, NEW c \in Code, NEW i \in 1..(n + 1),
             About(q[i], t, c), Untouched(q, i + 1, n + 1, t, c)
      PROVE  Felt(t, q[i].value) = z[t][c]
  <2>1. CASE i = n + 1
    BY <1>2, <2>1
  <2>2. CASE i # n + 1
    <3>1. i \in 1..n /\ i + 1 \in 1..(n + 1)
      BY <2>2
    <3>2. Untouched(q, i + 1, n, t, c) /\ ~About(q[n + 1], t, c)
      BY <1>1, <1>2, <3>1
    <3> QED BY <1>2, <3>1, <3>2 DEF Told
  <2> QED BY <2>1, <2>2
<1>3. Told(q, n, s) => Told(q, n + 1, z)
  BY <1>2 DEF Told
<1>4. ASSUME Knows(q, n, s, shown, H) PROVE Knows(q, n + 1, z, shown, H)
  <2>1. 1 \in 1..(n + 1)
    OBVIOUS
  <2> QED BY <1>1, <1>4, <2>1 DEF Knows
<1> QED BY <1>3, <1>4

\* The first event is taken and its value entered.
LEMMA OneLess ==
    ASSUME NEW n \in Nat, NEW p, NEW q, NEW s, NEW old, NEW new, NEW H, NEW K,
           \A i \in 1..n : q[i] = p[i + 1],
           Told(p, n + 1, s),
           \A t \in Type, c \in Code :
              /\ new[t][c] = IF About(p[1], t, c) THEN Felt(t, p[1].value) ELSE old[t][c]
              /\ <<t, c>> \in K <=> <<t, c>> \in H \/ About(p[1], t, c)
    PROVE  /\ Told(q, n, s)
           /\ Knows(p, n + 1, s, old, H) => Knows(q, n, s, new, K)
<1>1. ASSUME NEW t, NEW c, NEW i \in 1..(n + 1), Untouched(q, i, n, t, c)
      PROVE  Untouched(p, i + 1, n + 1, t, c)
  <2>1. ASSUME NEW j \in (i + 1)..(n + 1) PROVE ~About(p[j], t, c)
    <3>1. j - 1 \in i..n /\ j - 1 \in 1..n /\ (j - 1) + 1 = j
      OBVIOUS
    <3>2. q[j - 1] = p[j]
      BY <3>1
    <3> QED BY <1>1, <3>1, <3>2 DEF Untouched
  <2> QED BY <2>1 DEF Untouched
<1>2. ASSUME NEW t \in Type, NEW c \in Code, NEW i \in 1..n,
             About(q[i], t, c), Untouched(q, i + 1, n, t, c)
      PROVE  Felt(t, q[i].value) = s[t][c]
  <2>1. i + 1 \in 1..(n + 1) /\ q[i] = p[i + 1]
    OBVIOUS
  <2>2. Untouched(p, (i + 1) + 1, n + 1, t, c)
    BY <1>1, <1>2, <2>1
  <2> QED BY <1>2, <2>1, <2>2 DEF Told
<1>3. Told(q, n, s)
  BY <1>2 DEF Told
<1>4. ASSUME Knows(p, n + 1, s, old, H) PROVE Knows(q, n, s, new, K)
  <2> SUFFICES ASSUME NEW t \in Type, NEW c \in Code
               PROVE  IF <<t, c>> \in K THEN Untouched(q, 1, n, t, c) => new[t][c] = s[t][c]
                      ELSE new[t][c] = 0
    BY DEF Knows
  <2>1. CASE <<t, c>> \notin K
    BY <1>4, <2>1 DEF Knows
  <2>2. ASSUME <<t, c>> \in K, Untouched(q, 1, n, t, c) PROVE new[t][c] = s[t][c]
    <3>1. 1 \in 1..(n + 1) /\ Untouched(p, 1 + 1, n + 1, t, c)
      BY <1>1, <2>2
    <3>2. CASE About(p[1], t, c)
      BY <3>1, <3>2 DEF Told
    <3>3. CASE ~About(p[1], t, c)
      <4>1. Untouched(p, 1, n + 1, t, c)
        BY <3>1, <3>3 DEF Untouched
      <4> QED BY <1>4, <2>2, <3>3, <4>1 DEF Knows
    <3> QED BY <3>2, <3>3
  <2> QED BY <2>1, <2>2
<1> QED BY <1>3, <1>4

\* No event is left.
LEMMA NoneLeft ==
    ASSUME NEW q, NEW s, NEW ids, NEW r, NEW H
    PROVE  Knows(q, 0, s, Shown(ids, r), H) => Shown(ids, r) = Masked(s, H)
<1> SUFFICES ASSUME Knows(q, 0, s, Shown(ids, r), H) PROVE Shown(ids, r) = Masked(s, H)
  OBVIOUS
<1>1. ASSUME NEW t \in Type, NEW c \in Code
      PROVE  Shown(ids, r)[t][c] = IF <<t, c>> \in H THEN s[t][c] ELSE 0
  <2>1. Untouched(q, 1, 0, t, c)
    BY DEF Untouched
  <2> QED BY <2>1 DEF Knows
<1>2. Shown(ids, r) = [t \in Type |-> [c \in Code |-> Shown(ids, r)[t][c]]]
  BY DEF Shown
<1> QED BY <1>1, <1>2 DEF Masked

LEMMA MaskedType ==
    ASSUME NEW s \in State, NEW H
    PROVE  Masked(s, H) \in State
BY DEF Masked, State

-----------------------------------------------------------------------------
(* Lemmas: what a report shows *)

\* What device_emit writes is felt as what device_thread was told.
LEMMA StoredFelt ==
    ASSUME NEW t, NEW v
    PROVE  Felt(t, Emitted(t, Stored(t, v))) = Felt(t, v)
<1>1. CASE t = "key" /\ v # 0
  <2>1. Stored(t, v) = 1
    BY <1>1 DEF Stored
  <2>2. Emitted(t, 1) = -1
    BY <1>1 DEF Emitted
  <2>3. Felt(t, -1) = 1
    BY <1>1 DEF Felt
  <2> QED BY <1>1, <2>1, <2>2, <2>3 DEF Felt
<1>2. CASE t = "key" /\ v = 0
  BY <1>2 DEF Felt, Emitted, Stored
<1>3. CASE t # "key"
  BY <1>3 DEF Felt, Emitted, Stored
<1> QED BY <1>1, <1>2, <1>3

\* The place of a code is found, and is the only one.
LEMMA PlaceFound ==
    ASSUME NEW ids \in Seq(Code), NEW c, Has(ids, c)
    PROVE  Place(ids, c) \in 1..Len(ids) /\ ids[Place(ids, c)] = c
BY DEF Has, Place

\* Numbers in the report are shown as numbers.
LEMMA ShownType ==
    ASSUME NEW ids \in [Type -> Seq(Code)], NEW r \in [Type -> Seq(Int)],
           \A t \in Type : Len(r[t]) = Len(ids[t])
    PROVE  Shown(ids, r) \in State
<1>1. ASSUME NEW t \in Type, NEW c \in Code, Has(ids[t], c)
      PROVE  Felt(t, Emitted(t, r[t][Place(ids[t], c)])) \in Int
  <2>1. Place(ids[t], c) \in 1..Len(r[t])
    BY <1>1, PlaceFound
  <2>2. r[t][Place(ids[t], c)] \in Int
    BY <2>1
  <2> QED BY <2>2 DEF Felt, Emitted
<1> QED BY <1>1 DEF Shown, State

\* An empty report shows a device at rest.
LEMMA ShownZero ==
    ASSUME NEW ids \in [Type -> Seq(Code)], NEW r,
           \A t \in Type : \A i \in 1..Len(ids[t]) : r[t][i] = 0
    PROVE  Shown(ids, r) = Zero
<1>1. ASSUME NEW t \in Type, NEW c \in Code, Has(ids[t], c)
      PROVE  Felt(t, Emitted(t, r[t][Place(ids[t], c)])) = 0
  <2>1. r[t][Place(ids[t], c)] = 0
    BY <1>1, PlaceFound
  <2> QED BY <2>1 DEF Felt, Emitted
<1> QED BY <1>1 DEF Shown, Zero

\* device_handle_report shows the report.
LEMMA HandleShows ==
    ASSUME FInv, virtual # NoDevice, NEW m,
           \A t \in Type : Len(m.report[t]) = Len(virtual.info[t])
    PROVE  /\ device_handle_report(m) = [virtual EXCEPT !.value = Shown(virtual.info, m.report)]
<1>1. virtual \in [gen : Gens, info : [Type -> Seq(Code)], value : State]
  BY DEF FInv, Types
<1>2. \A t \in Type, c \in Code : Has(virtual.info[t], c) \/ virtual.value[t][c] = 0
  BY DEF FInv, Resting
<1> DEFINE new == [t \in Type |-> [c \in Code |->
                     IF Has(virtual.info[t], c)
                     THEN Felt(t, Emitted(t, m.report[t][Place(virtual.info[t], c)]))
                     ELSE virtual.value[t][c]]]
<1>3. device_handle_report(m) = [virtual EXCEPT !.value = new]
  BY <1>1 DEF device_handle_report, Has, Place
<1>4. new = Shown(virtual.info, m.report)
  BY <1>2 DEF Shown
<1> QED BY <1>3, <1>4

-----------------------------------------------------------------------------
(* The steps of the kernel *)

\* What a step keeps that neither reads an event nor handles a message.
LEMMA KernelKeeps ==
    ASSUME FInv, UNCHANGED <<gen, dev, codes, info, mapping, report, wire, virtual>>,
           dropped \subseteq dropped',
           UNCHANGED <<heard, frames>>
    PROVE  Numbered' /\ InOrder' /\ Same' /\ Fitting' /\ Resting' /\ WholeFrames'
<1>1. Numbered'
  BY DEF FInv, Numbered
<1>2. InOrder'
  BY DEF FInv, InOrder
<1>3. Same'
  BY DEF FInv, Same
<1>4. Resting'
  BY DEF FInv, Resting
<1>5. Fitting'
  <2>1. ASSUME NEW ids, NEW r, NEW g \in Gens, Fits(ids, r, g) PROVE Fits(ids, r, g)'
    BY <2>1 DEF Fits
  <2>2. \A j \in 1..Len(wire) : wire[j].tag = "Report" => wire[j].gen \in Gens
    BY DEF FInv, Types, Message
  <2>3. ASSUME NEW i \in 1..Len(wire), NEW j \in 1..Len(wire), i < j,
               wire[i].tag = "Info", wire[j].tag = "Report", wire[i].gen = wire[j].gen
        PROVE  Fits(wire[i].info, wire[j].report, wire[j].gen)'
    <3>1. Fits(wire[i].info, wire[j].report, wire[j].gen)
      BY <2>3 DEF FInv, Fitting
    <3> QED BY <2>2, <2>3, <3>1 DEF Fits
  <2>4. ASSUME NEW j \in 1..Len(wire), virtual # NoDevice,
               wire[j].tag = "Report", wire[j].gen = virtual.gen
        PROVE  Fits(virtual.info, wire[j].report, wire[j].gen)'
    <3>1. Fits(virtual.info, wire[j].report, wire[j].gen)
      BY <2>4 DEF FInv, Fitting
    <3> QED BY <2>2, <2>4, <3>1 DEF Fits
  <2> QED BY <2>3, <2>4 DEF Fitting
<1>6. WholeFrames'
  <2>1. virtual # NoDevice => virtual.gen \in Gens
    BY DEF FInv, Types
  <2> QED BY <2>1 DEF FInv, WholeFrames
<1> QED BY <1>1, <1>2, <1>3, <1>4, <1>5, <1>6

\* The queue after an event was put in: the kernel drops everything when it is full.
LEMMA EnqueueQueued ==
    ASSUME FInv, NEW e \in Event, Enqueue(e)
    PROVE  /\ queue' \in Seq(Event) /\ queue' # <<>> /\ Len(queue') \in Nat
           /\ queue'[Len(queue')] = e
           /\ \A i \in 1..Len(queue') :
                 Ends(queue'[i]) \/ queue'[i] = e \/ \E j \in 1..Len(queue) : queue'[i] = queue[j]
           /\ dropped \subseteq dropped'
           /\ \/ queue' = Append(queue, e)
              \/ queue' = << Syn(state), e >> /\ (dev = "held" => gen \in dropped')
<1>1. queue \in Seq(Event) /\ Syn(state) \in Event /\ Ends(Syn(state))
  BY EventKinds DEF FInv, Types
<1>2. CASE queue' = Append(queue, e) /\ UNCHANGED dropped
  <2>1. Len(queue') = Len(queue) + 1 /\ queue' \in Seq(Event) /\ queue'[Len(queue) + 1] = e
    BY <1>1, <1>2
  <2>2. \A i \in 1..Len(queue) : queue'[i] = queue[i]
    BY <1>1, <1>2
  <2> QED BY <1>1, <1>2, <2>1, <2>2
<1>3. CASE /\ queue' = << Syn(state), e >>
           /\ dropped' = IF dev = "held" THEN dropped \cup {gen} ELSE dropped
  <2>1. queue' \in Seq(Event) /\ Len(queue') = 2 /\ queue'[1] = Syn(state) /\ queue'[2] = e
    BY <1>1, <1>3
  <2>2. dropped \subseteq dropped' /\ (dev = "held" => gen \in dropped')
    BY <1>3
  <2> QED BY <1>1, <1>3, <2>1, <2>2
<1> QED BY <1>2, <1>3 DEF Enqueue

\* With an event the state comes to what the event says.
LEMMA EnqueueRecorded ==
    ASSUME FInv, NEW e \in Event, Enqueue(e), state' \in State,
           UNCHANGED <<gen, dev, info, report, heard>>,
           \A t \in Type, c \in Code :
              state'[t][c] = IF About(e, t, c) THEN Felt(t, e.value) ELSE state[t][c],
           Ends(e) => e.state = state'
    PROVE  Recorded' /\ Behind'
<1> DEFINE l == Len(queue)
           v == Shown(info, report)
<1>1. queue \in Seq(Event) /\ l \in Nat /\ state \in State
  BY DEF FInv, Types
<1>2. /\ Told(queue, l, state)
      /\ \A n \in 1..l : Ends(queue[n]) => Told(queue, n, queue[n].state)
  BY DEF FInv, Recorded
<1>3. CASE queue' = Append(queue, e)
  <2>1. /\ Len(queue') = l + 1 /\ queue'[l + 1] = e
        /\ \A n \in 1..l : queue'[n] = queue[n]
    BY <1>1, <1>3
  <2> HIDE DEF l
  <2>2. ASSUME NEW n \in 0..l, NEW s
        PROVE  /\ Told(queue, n, s) => Told(queue', n, s)
               /\ Knows(queue, n, s, v, heard) => Knows(queue', n, s, v, heard)
    <3>1. n \in Nat /\ \A i \in 1..n : queue'[i] = queue[i]
      BY <1>1, <2>1
    <3> HIDE DEF v
    <3> QED BY <3>1, SameEvents
  <2>3. /\ Told(queue', l, state) => Told(queue', l + 1, state')
        /\ Knows(queue', l, state, v, heard) => Knows(queue', l + 1, state', v, heard)
    <3> HIDE DEF v
    <3> QED BY <1>1, <2>1, OneMore
  <2>4. l \in 0..l /\ \A n \in 1..l : n \in 0..l
    BY <1>1
  <2>5. \A n \in 1..(l + 1) : n \in 1..l \/ n = l + 1
    BY <1>1
  <2>6. Told(queue', Len(queue'), state')
    BY <1>2, <2>1, <2>2, <2>3, <2>4
  <2>7. ASSUME NEW n \in 1..Len(queue'), Ends(queue'[n])
        PROVE  Told(queue', n, queue'[n].state)
    <3>1. CASE n \in 1..l
      BY <3>1, <1>2, <2>1, <2>2, <2>4, <2>7
    <3>2. CASE n = l + 1
      BY <3>2, <2>1, <2>6, <2>7
    <3> QED BY <2>1, <2>5, <3>1, <3>2
  <2>8. ASSUME dev = "held", gen \notin dropped'
        PROVE  /\ Knows(queue', Len(queue'), state', v, heard)
               /\ \A n \in 1..Len(queue') :
                     Ends(queue'[n]) => Knows(queue', n, queue'[n].state, v, heard)
    <3>1. gen \notin dropped
      BY <2>8, EnqueueQueued
    <3>2. /\ Knows(queue, l, state, v, heard)
          /\ \A n \in 1..l : Ends(queue[n]) => Knows(queue, n, queue[n].state, v, heard)
      BY <2>8, <3>1 DEF FInv, Behind, l
    <3> HIDE DEF v
    <3>3. Knows(queue', Len(queue'), state', v, heard)
      BY <3>2, <2>1, <2>2, <2>3, <2>4
    <3>4. ASSUME NEW n \in 1..Len(queue'), Ends(queue'[n])
          PROVE  Knows(queue', n, queue'[n].state, v, heard)
      <4>1. CASE n \in 1..l
        BY <4>1, <3>2, <2>1, <2>2, <2>4, <3>4
      <4>2. CASE n = l + 1
        BY <4>2, <2>1, <3>3, <3>4
      <4> QED BY <2>1, <2>5, <4>1, <4>2
    <3> QED BY <3>3, <3>4
  <2> QED BY <2>6, <2>7, <2>8 DEF Recorded, Behind
<1>4. CASE queue' = << Syn(state), e >> /\ (dev = "held" => gen \in dropped')
  <2>1. /\ Len(queue') = 2 /\ queue'[1] = Syn(state) /\ queue'[2] = e
        /\ Ends(Syn(state)) /\ Syn(state).state = state
        /\ \A t \in Type : \A c : ~About(Syn(state), t, c)
    BY <1>1, <1>4, EventKinds
  <2>2. Told(queue', 1, state)
    BY <2>1 DEF Told
  <2>3. Told(queue', 2, state')
    <3>1. 1 \in Nat /\ 1 + 1 = 2
      OBVIOUS
    <3>2. Told(queue', 1 + 1, state')
      BY <2>1, <2>2, <3>1, OneMore
    <3> QED BY <3>1, <3>2
  <2>4. \A n \in 1..2 : Ends(queue'[n]) => Told(queue', n, queue'[n].state)
    <3>1. \A n \in 1..2 : n = 1 \/ n = 2
      OBVIOUS
    <3> QED BY <2>1, <2>2, <2>3, <3>1
  <2>5. Recorded'
    BY <2>1, <2>3, <2>4 DEF Recorded
  <2>6. Behind'
    BY <1>4 DEF Behind
  <2> QED BY <2>5, <2>6
<1> QED BY <1>3, <1>4, EnqueueQueued

\* The device stays as it is while events are put in.
LEMMA EnqueueStep ==
    ASSUME FInv, NEW e \in Event, Enqueue(e), state' \in State, dev # "gone",
           UNCHANGED <<gen, dev, codes, info, mapping, report, wire, virtual, heard, frames>>,
           \A t \in Type, c \in Code :
              state'[t][c] = IF About(e, t, c) THEN Felt(t, e.value) ELSE state[t][c],
           Ends(e) => e.state = state',
           ~Ends(e) => e.code \in codes[e.type],
           synced' => Ends(e)
    PROVE  FInv'
<1>1. /\ queue' \in Seq(Event) /\ queue' # <<>> /\ queue'[Len(queue')] = e
      /\ \A i \in 1..Len(queue') :
            Ends(queue'[i]) \/ queue'[i] = e \/ \E j \in 1..Len(queue) : queue'[i] = queue[j]
      /\ dropped \subseteq dropped'
  BY EnqueueQueued
<1>2. Numbered' /\ InOrder' /\ Same' /\ Fitting' /\ Resting' /\ WholeFrames'
  BY <1>1, KernelKeeps
<1>3. Recorded' /\ Behind'
  BY EnqueueRecorded
<1>4. Types'
  BY <1>1 DEF FInv, Types
<1>5. Queued'
  <2>1. ASSUME NEW i \in 1..Len(queue'), ~Ends(queue'[i])
        PROVE  queue'[i].code \in codes[queue'[i].type]
    <3>1. CASE queue'[i] = e
      BY <3>1, <2>1
    <3>2. CASE queue'[i] # e
      BY <3>2, <2>1, <1>1 DEF FInv, Queued
    <3> QED BY <3>1, <3>2
  <2> QED BY <1>1, <2>1 DEF Queued
<1>6. Settled'
  BY <1>1 DEF Settled
<1> QED BY <1>2, <1>3, <1>4, <1>5, <1>6 DEF FInv

\* Something happens at the device.
LEMMA HappenStep ==
    ASSUME FInv, NEW t \in Type, NEW c \in Code, NEW v \in Value, Happen(t, c, v)
    PROVE  FInv'
<1> DEFINE e == [type |-> t, code |-> c, value |-> v]
<1>1. /\ dev # "gone" /\ c \in codes[t] /\ Enqueue(e)
      /\ state' = [state EXCEPT ![t][c] = Felt(t, v)] /\ synced' = FALSE
      /\ UNCHANGED <<gen, dev, codes, info, mapping, report, wire, virtual, heard, frames>>
  BY DEF Happen, server
<1>2. e \in Event /\ ~Ends(e) /\ e.type = t /\ e.code = c /\ e.value = v
  BY DEF Event, Ends, Type
<1> HIDE DEF e
<1>3. state \in State /\ state' \in State
  <2>1. state \in State
    BY DEF FInv, Types
  <2>2. Felt(t, v) \in Int
    BY ForwardAssumption DEF Felt
  <2> QED BY <1>1, <2>1, <2>2 DEF State
<1>4. \A x \in Type, y \in Code :
         state'[x][y] = IF About(e, x, y) THEN Felt(x, e.value) ELSE state[x][y]
  BY <1>1, <1>2, <1>3 DEF About, State
<1> QED BY <1>1, <1>2, <1>3, <1>4, EnqueueStep

\* The end of a packet.
LEMMA SyncStep == ASSUME FInv, Sync PROVE FInv'
<1>1. /\ dev # "gone" /\ Enqueue(Syn(state))
      /\ UNCHANGED <<gen, dev, codes, state, info, mapping, report, wire, virtual, heard, frames>>
  BY DEF Sync, server
<1>2. state \in State
  BY DEF FInv, Types
<1>3. /\ Syn(state) \in Event /\ Ends(Syn(state)) /\ Syn(state).state = state
      /\ \A t \in Type, c \in Code : ~About(Syn(state), t, c)
  BY <1>2, EventKinds
<1> QED BY <1>1, <1>2, <1>3, EnqueueStep

-----------------------------------------------------------------------------
(* The steps of the server *)

\* The queue without its first event.
LEMMA QueueTail ==
    ASSUME FInv, queue # <<>>, queue' = Tail(queue)
    PROVE  /\ Len(queue) \in Nat /\ Len(queue) > 0
           /\ queue' \in Seq(Event) /\ Len(queue') = Len(queue) - 1
           /\ \A i \in 1..(Len(queue) - 1) : queue'[i] = queue[i + 1]
           /\ queue[1] = Head(queue) /\ queue[1] \in Event
<1>1. queue \in Seq(Event)
  BY DEF FInv, Types
<1>2. Len(queue) \in Nat /\ Len(queue) > 0
  BY <1>1
<1>3. /\ Tail(queue) \in Seq(Event) /\ Len(Tail(queue)) = Len(queue) - 1
      /\ \A i \in 1..Len(Tail(queue)) : Tail(queue)[i] = queue[i + 1]
  BY <1>1, HeadTailProperties
<1>4. queue[1] = Head(queue) /\ queue[1] \in Event
  BY <1>1, <1>2
<1> QED BY <1>2, <1>3, <1>4

\* The value of the first event goes from the queue into the report.
LEMMA ReadBehind ==
    ASSUME FInv, queue # <<>>, queue' = Tail(queue),
           UNCHANGED <<gen, dev, state, dropped, info>>,
           \A t \in Type, c \in Code :
              /\ Shown(info, report')[t][c] =
                    IF About(queue[1], t, c) THEN Felt(t, queue[1].value)
                    ELSE Shown(info, report)[t][c]
              /\ <<t, c>> \in heard' <=> <<t, c>> \in heard \/ About(queue[1], t, c)
    PROVE  /\ Recorded' /\ Behind'
           /\ dev = "held" /\ gen \notin dropped /\ queue' = <<>>
                 => Shown(info, report') = Masked(state, heard')
<1> DEFINE l   == Len(queue)
           old == Shown(info, report)
           new == Shown(info, report')
<1>1. /\ l \in Nat /\ l > 0 /\ Len(queue') = l - 1 /\ queue' \in Seq(Event)
      /\ \A i \in 1..(l - 1) : queue'[i] = queue[i + 1]
  BY QueueTail
<1>2. ASSUME NEW n \in 0..(l - 1), NEW s, Told(queue, n + 1, s)
      PROVE  /\ Told(queue', n, s)
             /\ Knows(queue, n + 1, s, old, heard) => Knows(queue', n, s, new, heard')
  <2>1. n \in Nat /\ \A i \in 1..n : queue'[i] = queue[i + 1]
    BY <1>1
  <2>2. \A t \in Type, c \in Code :
           /\ new[t][c] = IF About(queue[1], t, c) THEN Felt(t, queue[1].value) ELSE old[t][c]
           /\ <<t, c>> \in heard' <=> <<t, c>> \in heard \/ About(queue[1], t, c)
    OBVIOUS
  <2> HIDE DEF new, old
  <2> QED BY ONLY <1>2, <2>1, <2>2, OneLess, Z3
<1>3. /\ Told(queue, l, state)
      /\ \A n \in 1..l : Ends(queue[n]) => Told(queue, n, queue[n].state)
  BY DEF FInv, Recorded
<1>4. ASSUME dev = "held", gen \notin dropped
      PROVE  /\ Knows(queue, l, state, old, heard)
             /\ \A n \in 1..l : Ends(queue[n]) => Knows(queue, n, queue[n].state, old, heard)
  BY <1>4 DEF FInv, Behind
<1>5. l - 1 \in 0..(l - 1) /\ (l - 1) + 1 = l
  BY <1>1
<1>6. \A n \in 1..Len(queue') : n \in 0..(l - 1) /\ n + 1 \in 1..l /\ queue'[n] = queue[n + 1]
  BY <1>1
<1>7. Recorded'
  <2>1. Told(queue', Len(queue'), state)
    BY <1>1, <1>2, <1>3, <1>5
  <2>2. \A n \in 1..Len(queue') : Ends(queue'[n]) => Told(queue', n, queue'[n].state)
    BY <1>2, <1>3, <1>6
  <2> QED BY <2>1, <2>2 DEF Recorded
<1>8. ASSUME dev = "held", gen \notin dropped
      PROVE  /\ Knows(queue', Len(queue'), state, new, heard')
             /\ \A n \in 1..Len(queue') :
                   Ends(queue'[n]) => Knows(queue', n, queue'[n].state, new, heard')
  <2> HIDE DEF new, old
  <2>1. Knows(queue', Len(queue'), state, new, heard')
    BY <1>1, <1>2, <1>3, <1>4, <1>5, <1>8
  <2>2. ASSUME NEW n \in 1..Len(queue'), Ends(queue'[n])
        PROVE  Knows(queue', n, queue'[n].state, new, heard')
    <3>1. n \in 0..(l - 1) /\ n + 1 \in 1..l /\ queue'[n] = queue[n + 1]
      BY <1>6
    <3>2. /\ Told(queue, n + 1, queue[n + 1].state)
          /\ Knows(queue, n + 1, queue[n + 1].state, old, heard)
      BY <1>3, <1>4, <1>8, <2>2, <3>1
    <3> QED BY <1>2, <3>1, <3>2
  <2> QED BY <2>1, <2>2
<1>9. Behind'
  BY <1>8 DEF Behind
<1>10. ASSUME dev = "held", gen \notin dropped, queue' = <<>> PROVE new = Masked(state, heard')
  <2>0. Len(<<>>) = 0
    OBVIOUS
  <2>1. Len(queue') = 0
    BY <1>10, <2>0
  <2>2. Knows(queue', 0, state, new, heard')
    BY <1>8, <1>10, <2>1
  <2> QED BY <2>2, NoneLeft
<1> QED BY <1>7, <1>9, <1>10

\* A message behind the others on the wire.
LEMMA WireAppend ==
    ASSUME FInv, NEW m \in Message, wire' = Append(wire, m)
    PROVE  /\ wire' \in Seq(Message) /\ Len(wire) \in Nat
           /\ Len(wire') = Len(wire) + 1 /\ wire' # <<>>
           /\ wire'[Len(wire) + 1] = m
           /\ \A i \in 1..Len(wire) : wire'[i] = wire[i]
<1>1. wire \in Seq(Message)
  BY DEF FInv, Types
<1> QED BY <1>1

\* The queue is still of the device once its first event is gone.
LEMMA ReadQueued ==
    ASSUME FInv, queue # <<>>, queue' = Tail(queue), UNCHANGED <<dev, codes, synced>>
    PROVE  Queued'
<1>1. /\ Len(queue) \in Nat /\ Len(queue') = Len(queue) - 1 /\ queue' \in Seq(Event)
      /\ \A i \in 1..(Len(queue) - 1) : queue'[i] = queue[i + 1]
  BY QueueTail
<1>2. dev # "gone"
  BY DEF FInv, Queued
<1>3. ASSUME NEW i \in 1..Len(queue'), ~Ends(queue'[i])
      PROVE  queue'[i].code \in codes[queue'[i].type]
  <2>1. queue'[i] = queue[i + 1] /\ i + 1 \in 1..Len(queue)
    BY <1>1
  <2> QED BY <1>3, <2>1 DEF FInv, Queued
<1>4. ASSUME synced, queue' # <<>> PROVE Ends(queue'[Len(queue')])
  <2>1. Len(queue') \in 1..(Len(queue) - 1) /\ Len(queue') + 1 = Len(queue)
    BY <1>1, <1>4
  <2>2. queue'[Len(queue')] = queue[Len(queue)]
    BY <1>1, <2>1
  <2> QED BY <1>4, <2>2 DEF FInv, Queued
<1> QED BY <1>2, <1>3, <1>4 DEF FInv, Queued

\* An end of a packet is read: the report is sent.
LEMMA ReadSyn ==
    ASSUME FInv, ReadEvent, Ends(queue[1])
    PROVE  FInv'
<1> DEFINE m == [tag |-> "Report", gen |-> gen, report |-> report]
           l == Len(wire)
           s == Masked(queue[1].state, heard)
<1>1. dev = "held" /\ queue # <<>> /\ queue' = Tail(queue)
  BY DEF ReadEvent
<1>2. Head(queue) = queue[1] /\ queue[1].type = "syn" /\ queue[1] \in Event
  BY <1>1, QueueTail DEF Ends
<1>3. /\ UNCHANGED <<gen, dev, codes, state, synced, heard, dropped, info, mapping, virtual, report>>
      /\ wire' = Append(wire, m)
      /\ frames' = [frames EXCEPT ![gen] = @ \cup {s}]
  BY <1>2 DEF ReadEvent, kernel, Sends
<1>4. /\ gen \in Gens /\ gen \in 0..MaxGen /\ gen <= gen /\ frames \in [Gens -> SUBSET State]
      /\ info \in [Type -> Seq(Code)] /\ report \in [Type -> Seq(Int)]
  BY <1>1 DEF FInv, Types
<1>5. m \in Message /\ m.tag = "Report" /\ m.gen = gen /\ m.report = report
  BY <1>4 DEF Message
<1> HIDE DEF m
<1>6. /\ wire' \in Seq(Message) /\ l \in Nat /\ Len(wire') = l + 1 /\ wire' # <<>>
      /\ wire'[l + 1] = m /\ \A i \in 1..l : wire'[i] = wire[i]
  BY <1>3, <1>5, WireAppend
<1>7. \A t \in Type : Len(report[t]) = Len(info[t])
  BY <1>1 DEF FInv, Numbered
<1>8. Shown(info, report) \in State
  BY <1>4, <1>7, ShownType
<1>9. /\ s \in State
      /\ \A t \in Type, c \in Code : ~About(queue[1], t, c)
  BY <1>2, EventKinds, MaskedType
<1>10. /\ Recorded' /\ Behind'
       /\ gen \notin dropped /\ queue' = <<>> => Shown(info, report) = Masked(state, heard)
  BY <1>1, <1>3, <1>9, ReadBehind
<1>20. gen \notin dropped => Shown(info, report) = s
  <2> SUFFICES ASSUME gen \notin dropped PROVE Shown(info, report) = s
    OBVIOUS
  <2>1. 1 \in 1..Len(queue) /\ 1 \in Nat /\ 1 = 0 + 1
    BY <1>1, QueueTail
  <2>2. Knows(queue, 1, queue[1].state, Shown(info, report), heard)
    BY <1>1, <2>1 DEF FInv, Behind
  <2>3. Knows(Tail(queue), 0, queue[1].state, Shown(info, report), heard)
    <3>1. \A t \in Type, c \in Code : Untouched(queue, 1, 1, t, c)
      BY <1>9 DEF Untouched
    <3> QED BY <2>2, <3>1 DEF Knows
  <2> QED BY <2>3, NoneLeft
<1>21. /\ frames' \in [Gens -> SUBSET State]
       /\ \A g \in Gens : frames[g] \subseteq frames'[g]
       /\ s \in frames'[gen]
  BY <1>3, <1>4, <1>9
<1> HIDE DEF s
<1> DEFINE Fine(ids, r, g) == /\ \A t \in Type : Len(r[t]) = Len(ids[t])
                              /\ g \notin dropped => Shown(ids, r) \in frames'[g]
<1>22. \A ids, r : \A g \in Gens : Fits(ids, r, g) => Fine(ids, r, g)
  BY <1>21 DEF Fits
<1>23. \A i \in 1..Len(wire) : wire[i].gen \in Gens
  <2>1. \A x \in Message : x.gen \in Gens
    BY DEF Message
  <2> QED BY <2>1 DEF FInv, Types
<1>11. Queued'
  BY <1>1, <1>3, ReadQueued
<1>12. Types'
  BY <1>1, <1>3, <1>6, <1>21, QueueTail DEF FInv, Types
<1>13. Numbered' /\ Resting' /\ WholeFrames'
  <2>1. virtual # NoDevice => virtual.gen \in Gens
    BY DEF FInv, Types
  <2>2. WholeFrames'
    BY <1>3, <1>21, <2>1 DEF FInv, WholeFrames
  <2> QED BY <1>3, <2>2 DEF FInv, Numbered, Resting
<1> HIDE DEF l
<1>14. InOrder'
  <2>1. ASSUME l = 0 PROVE virtual # NoDevice /\ virtual.gen = gen
    BY <1>1, <2>1 DEF FInv, InOrder, Types, l
  <2>2. ASSUME l > 0 PROVE Using(wire[l], gen)
    BY <1>1, <2>2 DEF FInv, InOrder, Types, l
  <2>3. ASSUME wire'[1].tag = "Report" PROVE virtual # NoDevice /\ virtual.gen = wire'[1].gen
    <3>1. CASE l = 0
      BY <3>1, <2>1, <1>5, <1>6
    <3>2. CASE l > 0
      BY <3>2, <2>3, <1>6 DEF FInv, InOrder, l
    <3> QED BY <3>1, <3>2, <1>6
  <2>4. ASSUME NEW i \in 1..(Len(wire') - 1), wire'[i + 1].tag = "Report"
        PROVE  Using(wire'[i], wire'[i + 1].gen)
    <3>1. CASE i = l
      BY <3>1, <2>2, <1>5, <1>6
    <3>2. CASE i # l
      <4>1. i \in 1..(l - 1) /\ wire'[i] = wire[i] /\ wire'[i + 1] = wire[i + 1]
        BY <3>2, <1>6
      <4> QED BY <4>1, <2>4 DEF FInv, InOrder, l
    <3> QED BY <3>1, <3>2
  <2>5. Using(wire'[Len(wire')], gen)
    BY <1>5, <1>6 DEF Using
  <2> QED BY <1>3, <1>6, <2>3, <2>4, <2>5 DEF InOrder
<1>15. Same'
  <2>1. ASSUME NEW i \in 1..Len(wire')
        PROVE  /\ wire'[i].gen <= gen
               /\ wire'[i].tag = "Info" /\ wire'[i].gen = gen => wire'[i].info = info
    <3>1. CASE i = l + 1
      BY <3>1, <1>4, <1>5, <1>6
    <3>2. CASE i # l + 1
      <4>1. i \in 1..l /\ wire'[i] = wire[i]
        BY <3>2, <1>6
      <4> QED BY <1>1, <4>1 DEF FInv, Same, l
    <3> QED BY <3>1, <3>2
  <2> QED BY <1>3, <2>1 DEF FInv, Same
<1>16. Fitting'
  <2>1. Fine(info, report, gen)
    BY <1>7, <1>20, <1>21
  <2> HIDE DEF Fine
  <2>2. ASSUME NEW i \in 1..Len(wire'), NEW j \in 1..Len(wire'), i < j,
               wire'[i].tag = "Info", wire'[j].tag = "Report", wire'[i].gen = wire'[j].gen
        PROVE  Fine(wire'[i].info, wire'[j].report, wire'[j].gen)
    <3>1. i \in 1..l /\ wire'[i] = wire[i]
      BY <2>2, <1>6
    <3>2. CASE j = l + 1
      <4>1. wire'[j] = m
        BY <3>2, <1>6
      <4>2. wire[i].info = info
        BY <1>1, <1>5, <2>2, <3>1, <4>1 DEF FInv, Same, l
      <4> QED BY <1>5, <2>1, <3>1, <4>1, <4>2
    <3>3. CASE j # l + 1
      <4>1. j \in 1..l /\ wire'[j] = wire[j]
        BY <3>3, <1>6
      <4>2. Fits(wire[i].info, wire[j].report, wire[j].gen)
        BY <2>2, <3>1, <4>1 DEF FInv, Fitting, l
      <4> QED BY <3>1, <4>1, <4>2, <1>22, <1>23 DEF l
    <3> QED BY <3>2, <3>3
  <2>3. ASSUME NEW j \in 1..Len(wire'), virtual # NoDevice,
               wire'[j].tag = "Report", wire'[j].gen = virtual.gen
        PROVE  Fine(virtual.info, wire'[j].report, wire'[j].gen)
    <3>1. CASE j = l + 1
      <4>1. wire'[j] = m
        BY <3>1, <1>6
      <4>2. virtual.info = info
        BY <1>1, <1>5, <2>3, <4>1 DEF FInv, Same
      <4> QED BY <1>5, <2>1, <4>1, <4>2
    <3>2. CASE j # l + 1
      <4>1. j \in 1..l /\ wire'[j] = wire[j]
        BY <3>2, <1>6
      <4>2. Fits(virtual.info, wire[j].report, wire[j].gen)
        BY <2>3, <4>1 DEF FInv, Fitting, l
      <4> QED BY <4>1, <4>2, <1>22, <1>23 DEF l
    <3> QED BY <3>1, <3>2
  <2> QED BY <1>3, <2>2, <2>3 DEF Fitting, Fits, Fine
<1>17. Settled'
  BY <1>3, <1>5, <1>6, <1>10 DEF Settled
<1> QED BY <1>10, <1>11, <1>12, <1>13, <1>14, <1>15, <1>16, <1>17 DEF FInv

\* A code setup_device did not look at has no index.
LEMMA IndexedLooked ==
    ASSUME FInv, dev = "held", NEW e, e.type \in Type, e.code \in Code, ~Ends(e), Indexed(e)
    PROVE  e.code \in Looked(codes, e.type)
<1>1. mapping[e.type][e.code] \in DOMAIN report[e.type]
  BY DEF Indexed, Ends
<1>2. /\ report[e.type] \in Seq(Int) /\ Len(report[e.type]) = Len(info[e.type])
      /\ Len(info[e.type]) <= KeyMax
      /\ e.code \notin Looked(codes, e.type) => mapping[e.type][e.code] = NoIndex
  BY DEF FInv, Types, Numbered
<1>3. KeyMax \in Int /\ KeyMax < NoIndex /\ NoIndex \in Int
  <2>1. NoIndex \in Int
    BY DEF NoIndex
  <2>2. KeyMax \in 0..(NoIndex - 1)
    BY ForwardAssumption
  <2> QED BY <2>1, <2>2
<1>4. NoIndex \notin DOMAIN report[e.type]
  BY <1>2, <1>3
<1> QED BY <1>1, <1>2, <1>4

\* Any other event is read: its value is entered in the report.
LEMMA ReadValue ==
    ASSUME FInv, ReadEvent, ~Ends(queue[1])
    PROVE  FInv'
<1> DEFINE e == queue[1]
           i == mapping[e.type][e.code]
           c == e.code
<1>1. dev = "held" /\ queue # <<>> /\ queue' = Tail(queue)
  BY DEF ReadEvent
<1>2. /\ Head(queue) = e /\ e.type # "syn" /\ e.type \in Type /\ e.code \in Code /\ e.value \in Value
      /\ Len(queue) > 0 /\ Len(queue) \in Nat
  BY <1>1, QueueTail, EventKinds DEF Ends
<1>3. /\ UNCHANGED <<gen, dev, codes, state, synced, frames, dropped, info, mapping, virtual, wire>>
      /\ heard' = heard \cup {<<e.type, c>>}
      /\ Indexed(e)
      /\ report' = [report EXCEPT ![e.type][i] = Stored(e.type, e.value)]
  BY <1>2 DEF ReadEvent, kernel, Sends
<1>4. info \in [Type -> Seq(Code)] /\ report \in [Type -> Seq(Int)]
  BY DEF FInv, Types
<1>5. c \in Looked(codes, e.type)
  BY <1>1, <1>2, <1>3, IndexedLooked DEF Ends
<1>6. /\ \A t \in Type : Len(report[t]) = Len(info[t])
      /\ \A j, k \in 1..Len(info[e.type]) : info[e.type][j] = info[e.type][k] => j = k
      /\ i \in 1..Len(info[e.type]) /\ info[e.type][i] = c
  BY <1>1, <1>2, <1>5 DEF FInv, Numbered
<1> HIDE DEF e, i, c
<1>7. Stored(e.type, e.value) \in Int
  <2>1. e.value \in Int
    BY <1>2, ForwardAssumption
  <2> QED BY <2>1 DEF Stored
<1>8. /\ report' \in [Type -> Seq(Int)]
      /\ \A t \in Type : Len(report'[t]) = Len(info[t])
  <2>1. report[e.type] \in Seq(Int) /\ i \in 1..Len(report[e.type])
    BY <1>2, <1>4, <1>6
  <2> DEFINE r == [report[e.type] EXCEPT ![i] = Stored(e.type, e.value)]
  <2>2. r \in Seq(Int) /\ Len(r) = Len(report[e.type])
    BY <2>1, <1>7
  <2>3. report' = [report EXCEPT ![e.type] = r]
    BY <1>3
  <2> HIDE DEF r
  <2> QED BY <1>2, <1>4, <1>6, <2>2, <2>3
<1>10. ASSUME NEW x \in Type, NEW y \in Code
       PROVE  Shown(info, report')[x][y] =
                 IF About(queue[1], x, y) THEN Felt(x, queue[1].value)
                 ELSE Shown(info, report)[x][y]
  <2> DEFINE p == Place(info[x], y)
  <2>1. /\ Shown(info, report')[x][y] =
              IF Has(info[x], y) THEN Felt(x, Emitted(x, report'[x][p])) ELSE 0
        /\ Shown(info, report)[x][y] =
              IF Has(info[x], y) THEN Felt(x, Emitted(x, report[x][p])) ELSE 0
    BY DEF Shown
  <2>2. About(e, x, y) <=> (x = e.type /\ y = info[e.type][i])
    BY <1>6 DEF About, c
  <2>3. CASE ~Has(info[x], y)
    <3>1. ~About(e, x, y)
      BY <1>4, <1>6, <2>2, <2>3 DEF Has
    <3> QED BY <2>1, <2>3, <3>1 DEF e
  <2>4. CASE Has(info[x], y)
    <3>1. p \in 1..Len(info[x]) /\ info[x][p] = y
      BY <2>4, <1>4, PlaceFound
    <3> HIDE DEF p
    <3>2. CASE About(e, x, y)
      <4>1. x = e.type /\ p = i
        BY <1>6, <2>2, <3>1, <3>2
      <4>2. report'[x][p] = Stored(x, e.value)
        BY <4>1, <1>2, <1>3, <1>4, <1>6
      <4> QED BY <2>1, <2>4, <3>2, <4>2, StoredFelt DEF e
    <3>3. CASE ~About(e, x, y)
      <4>1. x # e.type \/ p # i
        BY <2>2, <3>1, <3>3
      <4>2. report'[x][p] = report[x][p]
        BY <4>1, <1>2, <1>3, <1>4, <1>6
      <4> QED BY <2>1, <2>4, <3>3, <4>2 DEF e
    <3> QED BY <3>2, <3>3
  <2> QED BY <2>3, <2>4
<1>18. \A x \in Type, y \in Code : <<x, y>> \in heard' <=> <<x, y>> \in heard \/ About(queue[1], x, y)
  BY <1>3 DEF About, e, c
<1>11. Recorded' /\ Behind'
  BY <1>1, <1>3, <1>10, <1>18, ReadBehind
<1>12. Queued'
  BY <1>1, <1>3, ReadQueued
<1>13. Types'
  BY <1>1, <1>3, <1>8, QueueTail DEF FInv, Types
<1>14. Numbered'
  BY <1>3, <1>8 DEF FInv, Numbered
<1>15. Resting' /\ WholeFrames' /\ InOrder' /\ Same'
  BY <1>3 DEF FInv, Resting, WholeFrames, InOrder, Same
<1>16. Fitting'
  BY <1>3 DEF FInv, Fitting, Fits
<1>17. Settled'
  <2>1. ~(synced /\ queue' = <<>>)
    <3> SUFFICES ASSUME synced, queue' = <<>> PROVE FALSE
      OBVIOUS
    <3>1. Ends(queue[Len(queue)])
      BY <1>1 DEF FInv, Queued
    <3>2. Len(queue') = 0
      OBVIOUS
    <3>3. Len(queue) = 1
      BY <1>1, <1>2, <3>2, QueueTail
    <3> QED BY <3>1, <3>3
  <2> QED BY <1>3, <2>1 DEF Settled
<1> QED BY <1>11, <1>12, <1>13, <1>14, <1>15, <1>16, <1>17 DEF FInv

\* The device is lost.
LEMMA LostStep == ASSUME FInv, ReadLost PROVE FInv'
<1> DEFINE m == [tag |-> "Destroy", gen |-> gen]
           l == Len(wire)
<1>1. /\ dev = "held" /\ dev' = "gone" /\ queue' = <<>> /\ wire' = Append(wire, m)
      /\ UNCHANGED <<gen, codes, state, synced, heard, frames, dropped, info, mapping, report, virtual>>
  BY DEF ReadLost, server, history
<1>2. gen \in Gens /\ gen <= gen /\ gen \in 0..MaxGen /\ MaxGen \in Nat
  BY <1>1, ForwardAssumption DEF FInv, Types
<1>3. m \in Message /\ m.tag = "Destroy" /\ m.gen = gen
  BY <1>2 DEF Message
<1> HIDE DEF m
<1>4. /\ wire' \in Seq(Message) /\ l \in Nat /\ Len(wire') = l + 1 /\ wire' # <<>>
      /\ wire'[l + 1] = m /\ \A i \in 1..l : wire'[i] = wire[i]
  BY <1>1, <1>3, WireAppend
<1>5. \A i \in 1..Len(wire') : wire'[i].tag \in {"Info", "Report"} => i \in 1..l /\ wire'[i] = wire[i]
  BY <1>3, <1>4
<1>6. Types'
  BY <1>1, <1>4 DEF FInv, Types
<1>7. Numbered' /\ Behind' /\ Settled'
  BY <1>1 DEF Numbered, Behind, Settled
<1>8. Queued' /\ Recorded'
  <2>1. Len(queue') = 0
    BY <1>1
  <2> QED BY <1>1, <2>1 DEF Queued, Recorded, Told
<1>9. Resting' /\ WholeFrames'
  BY <1>1 DEF FInv, Resting, WholeFrames
<1> HIDE DEF l
<1>10. InOrder'
  <2>1. ASSUME wire'[1].tag = "Report" PROVE virtual # NoDevice /\ virtual.gen = wire'[1].gen
    <3>1. 1 \in 1..l /\ wire'[1] = wire[1] /\ l > 0
      BY <2>1, <1>4, <1>5
    <3> QED BY <2>1, <3>1 DEF FInv, InOrder, l
  <2>2. ASSUME NEW i \in 1..(Len(wire') - 1), wire'[i + 1].tag = "Report"
        PROVE  Using(wire'[i], wire'[i + 1].gen)
    <3>1. i + 1 \in 1..l /\ wire'[i + 1] = wire[i + 1]
      BY <2>2, <1>4, <1>5
    <3>2. i \in 1..(l - 1) /\ wire'[i] = wire[i]
      BY <3>1, <1>4
    <3> QED BY <2>2, <3>1, <3>2 DEF FInv, InOrder, l
  <2> QED BY <1>1, <2>1, <2>2 DEF InOrder
<1>11. Same'
  <2>1. ASSUME NEW i \in 1..Len(wire') PROVE wire'[i].gen <= gen
    <3>1. CASE i = l + 1
      BY <3>1, <1>2, <1>3, <1>4
    <3>2. CASE i # l + 1
      <4>1. i \in 1..l /\ wire'[i] = wire[i]
        BY <3>2, <1>4
      <4> QED BY <4>1 DEF FInv, Same, l
    <3> QED BY <3>1, <3>2
  <2> QED BY <1>1, <2>1 DEF FInv, Same
<1>12. Fitting'
  <2>1. ASSUME NEW i \in 1..Len(wire'), NEW j \in 1..Len(wire'), i < j,
               wire'[i].tag = "Info", wire'[j].tag = "Report", wire'[i].gen = wire'[j].gen
        PROVE  Fits(wire'[i].info, wire'[j].report, wire'[j].gen)
    BY <2>1, <1>5 DEF FInv, Fitting, l
  <2>2. ASSUME NEW j \in 1..Len(wire'), virtual # NoDevice,
               wire'[j].tag = "Report", wire'[j].gen = virtual.gen
        PROVE  Fits(virtual.info, wire'[j].report, wire'[j].gen)
    BY <2>2, <1>5 DEF FInv, Fitting, l
  <2> QED BY <1>1, <2>1, <2>2 DEF Fitting, Fits
<1> QED BY <1>6, <1>7, <1>8, <1>9, <1>10, <1>11, <1>12 DEF FInv

\* Only the device itself changes: it is opened or returned, and no one uses it.
LEMMA UnusedStep ==
    ASSUME FInv, dev' = "pool", codes' \in Codes, state' \in State,
           info' \in [Type -> Seq(Code)], report' = report,
           wire' \in {wire, <<>>}, virtual' \in {virtual, NoDevice},
           virtual' # virtual => wire' = <<>>,
           UNCHANGED <<gen, queue, frames, dropped>>,
           Numbered', Queued', Recorded'
    PROVE  FInv'
<1>1. <<>> \in Seq(Message) /\ Len(<<>>) = 0
  OBVIOUS
<1>2. Types'
  BY <1>1 DEF FInv, Types
<1>3. Behind' /\ Settled'
  BY DEF Behind, Settled
<1>4. Resting' /\ WholeFrames'
  <2>1. CASE virtual' = NoDevice
    BY <2>1 DEF Resting, WholeFrames
  <2>2. CASE virtual' = virtual
    BY <2>2 DEF FInv, Resting, WholeFrames
  <2> QED BY <2>1, <2>2
<1>5. CASE wire' = <<>>
  <2>1. Len(wire') = 0
    BY <1>1, <1>5
  <2>2. InOrder' /\ Fitting'
    BY <2>1 DEF InOrder, Fitting
  <2>3. Same'
    BY <2>1 DEF FInv, Same
  <2> QED BY <1>2, <1>3, <1>4, <2>2, <2>3 DEF FInv
<1>6. CASE wire' = wire /\ virtual' = virtual
  <2>1. InOrder' /\ Same'
    BY <1>6 DEF FInv, InOrder, Same
  <2>2. Fitting'
    BY <1>6 DEF FInv, Fitting, Fits
  <2> QED BY <1>2, <1>3, <1>4, <2>1, <2>2 DEF FInv
<1> QED BY <1>5, <1>6

\* A thread that is killed returns the device, and what it has not read stays.
LEMMA ReturnStep == ASSUME FInv, Return PROVE FInv'
<1>1. /\ dev = "held" /\ dev' = "pool" /\ wire' = <<>> /\ virtual' = NoDevice
      /\ UNCHANGED <<gen, codes, state, synced, queue, info, mapping, report, frames, dropped>>
  BY DEF Return, server, history
<1>2. Numbered' /\ Queued' /\ Recorded'
  BY <1>1 DEF FInv, Numbered, Queued, Recorded
<1>3. codes \in Codes /\ state \in State /\ info \in [Type -> Seq(Code)]
  BY DEF FInv, Types
<1> QED BY <1>1, <1>2, <1>3, UnusedStep

\* A device is opened and set up.
LEMMA OpenStep == ASSUME FInv, NEW cs \in Devices, Open(cs) PROVE FInv'
<1>1. /\ dev = "gone" /\ dev' = "pool" /\ codes' = cs /\ state' = Zero /\ synced' = TRUE
      /\ info' = [t \in Type |-> Ids(cs, t)] /\ mapping' = [t \in Type |-> Mapping(cs, t)]
      /\ UNCHANGED <<gen, queue, report, wire, virtual, frames, dropped>>
  BY DEF Open, setup_device, history
<1>2. cs \in Codes /\ Zero \in State
  BY ForwardAssumption DEF Codes, Type, Zero, State
<1>3. info' \in [Type -> Seq(Code)]
  BY <1>1, <1>2, NumberingLemma
<1>4. Numbered'
  <2> SUFFICES ASSUME NEW t \in Type
               PROVE  /\ Len(info'[t]) <= KeyMax
                      /\ \A i, j \in 1..Len(info'[t]) : info'[t][i] = info'[t][j] => i = j
                      /\ \A c \in Code : c \in Looked(cs, t) <=> Has(info'[t], c)
                      /\ \A c \in Looked(cs, t) :
                            /\ mapping'[t][c] \in 1..Len(info'[t])
                            /\ info'[t][mapping'[t][c]] = c
                      /\ \A c \in Code \ Looked(cs, t) : mapping'[t][c] = NoIndex
    BY <1>1 DEF Numbered
  <2>1. info'[t] = Ids(cs, t) /\ info'[t] \in Seq(Code)
    BY <1>1, <1>3
  <2>2. /\ \A c \in Looked(cs, t) : mapping'[t][c] = Index(cs, t, c)
        /\ \A c \in Code \ Looked(cs, t) : mapping'[t][c] = NoIndex
    BY <1>1, <1>2 DEF Mapping, Codes, Looked
  <2>3. /\ Len(info'[t]) <= KeyMax
        /\ \A c \in Looked(cs, t) : /\ Index(cs, t, c) \in 1..Len(info'[t])
                                     /\ info'[t][Index(cs, t, c)] = c
        /\ \A i \in 1..Len(info'[t]) : /\ info'[t][i] \in Looked(cs, t)
                                       /\ Index(cs, t, info'[t][i]) = i
    BY <1>2, <2>1, NumberingLemma
  <2>4. \A i, j \in 1..Len(info'[t]) : info'[t][i] = info'[t][j] => i = j
    BY <2>3
  <2>5. \A c \in Code : c \in Looked(cs, t) <=> Has(info'[t], c)
    BY <2>1, <2>3 DEF Has
  <2> QED BY <2>2, <2>3, <2>4, <2>5
<1>5. queue = <<>> /\ Len(queue) = 0
  BY <1>1 DEF FInv, Queued
<1>6. Queued' /\ Recorded'
  BY <1>1, <1>5 DEF Queued, Recorded, Told
<1> QED BY <1>1, <1>2, <1>3, <1>4, <1>6, UnusedStep

\* A thread gets the device and announces it.
LEMMA AcquireStep == ASSUME FInv, Acquire PROVE FInv'
<1> DEFINE m == [tag |-> "Info", gen |-> gen + 1, info |-> info]
           l == Len(wire)
<1>1. /\ dev = "pool" /\ gen < MaxGen /\ gen' = gen + 1 /\ dev' = "held"
      /\ wire' = Append(wire, m)
      /\ report' = [t \in Type |-> [i \in DOMAIN info[t] |-> 0]]
      /\ heard' = {}
      /\ UNCHANGED <<codes, state, synced, queue, info, mapping, virtual, frames, dropped>>
  BY DEF Acquire
<1>2. gen \in 0..MaxGen /\ MaxGen \in Nat
  BY ForwardAssumption DEF FInv, Types
<1>3. gen + 1 \in Gens
  BY <1>1, <1>2 DEF Gens
<1>4. info \in [Type -> Seq(Code)]
  BY DEF FInv, Types
<1>5. /\ report' \in [Type -> Seq(Int)]
      /\ \A t \in Type : Len(report'[t]) = Len(info[t])
      /\ \A t \in Type : \A i \in 1..Len(info[t]) : report'[t][i] = 0
  <2>1. \A t \in Type : report'[t] = [i \in 1..Len(info[t]) |-> 0] /\ Len(info[t]) \in Nat
    BY <1>1, <1>4
  <2>2. ASSUME NEW t \in Type PROVE report'[t] \in Seq(Int) /\ Len(report'[t]) = Len(info[t])
    <3> DEFINE n == Len(info[t])
    <3>1. n \in Nat /\ report'[t] = [i \in 1..n |-> 0]
      BY <2>1
    <3> HIDE DEF n
    <3>2. report'[t] \in [1..n -> Int] /\ DOMAIN report'[t] = 1..n
      BY <3>1
    <3>3. report'[t] \in Seq(Int) /\ Len(report'[t]) = n
      BY <3>1, <3>2
    <3> QED BY <3>3 DEF n
  <2>3. report' = [t \in Type |-> report'[t]]
    BY <1>1
  <2> QED BY <2>1, <2>2, <2>3
<1>6. m \in Message /\ m.tag = "Info" /\ m.gen = gen + 1 /\ m.info = info
  BY <1>3, <1>4 DEF Message
<1> HIDE DEF m
<1>7. /\ wire' \in Seq(Message) /\ l \in Nat /\ Len(wire') = l + 1 /\ wire' # <<>>
      /\ wire'[l + 1] = m /\ \A i \in 1..l : wire'[i] = wire[i]
  BY <1>1, <1>6, WireAppend
<1>8. Zero \in State
  BY DEF Zero, State
<1>9. Shown(info, report') = Zero
  BY <1>4, <1>5, ShownZero
<1>11. Types'
  <2>1. gen' \in 0..MaxGen
    BY <1>1, <1>2
  <2> QED BY <1>1, <1>3, <1>5, <1>7, <2>1 DEF FInv, Types
<1>12. Numbered'
  BY <1>1, <1>5 DEF FInv, Numbered
<1>13. Queued' /\ Recorded'
  BY <1>1 DEF FInv, Queued, Recorded
<1>14. Behind'
  <2>1. \A q, n, s : Knows(q, n, s, Zero, {})
    BY DEF Knows, Zero
  <2>2. Shown(info', report') = Zero
    BY <1>1, <1>9
  <2> QED BY <1>1, <2>1, <2>2 DEF Behind
<1>15. Resting' /\ WholeFrames'
  BY <1>1 DEF FInv, Resting, WholeFrames
<1>16. Settled'
  <2>1. Masked(state', heard') = Zero
    BY <1>1 DEF Masked, Zero
  <2> QED BY <1>1, <1>6, <1>7, <2>1 DEF Settled
<1> HIDE DEF l
<1>17. InOrder'
  <2>1. ASSUME wire'[1].tag = "Report" PROVE virtual # NoDevice /\ virtual.gen = wire'[1].gen
    <3>1. 1 \in 1..l /\ wire'[1] = wire[1] /\ l > 0
      BY <2>1, <1>6, <1>7
    <3> QED BY <2>1, <3>1 DEF FInv, InOrder, l
  <2>2. ASSUME NEW i \in 1..(Len(wire') - 1), wire'[i + 1].tag = "Report"
        PROVE  Using(wire'[i], wire'[i + 1].gen)
    <3>1. i # l
      BY <2>2, <1>6, <1>7
    <3>2. i \in 1..(l - 1) /\ wire'[i] = wire[i] /\ wire'[i + 1] = wire[i + 1]
      BY <3>1, <1>7
    <3> QED BY <2>2, <3>2 DEF FInv, InOrder, l
  <2>3. Using(wire'[Len(wire')], gen')
    BY <1>1, <1>6, <1>7 DEF Using
  <2> QED BY <1>1, <1>7, <2>1, <2>2, <2>3 DEF InOrder
<1>18. Same'
  <2>1. \A i \in 1..l : wire[i].gen <= gen
    BY DEF FInv, Same, l
  <2>2. \A i \in 1..l : wire[i].gen \in Int
    <3>1. \A x \in Message : x.gen \in Int
      BY DEF Message, Gens
    <3>2. \A i \in 1..l : wire[i] \in Message
      BY DEF FInv, Types, l
    <3> QED BY <3>1, <3>2
  <2>3. virtual # NoDevice => virtual.gen <= gen /\ virtual.gen \in Int
    BY DEF FInv, Same, Types, Gens
  <2>4. ASSUME NEW i \in 1..Len(wire')
        PROVE  /\ wire'[i].gen <= gen + 1
               /\ wire'[i].tag = "Info" /\ wire'[i].gen = gen + 1 => wire'[i].info = info
    <3>1. CASE i = l + 1
      BY <3>1, <1>2, <1>6, <1>7
    <3>2. CASE i # l + 1
      <4>1. i \in 1..l /\ wire'[i] = wire[i]
        BY <3>2, <1>7
      <4>2. wire'[i].gen <= gen /\ wire'[i].gen \in Int /\ gen \in Int
        BY <4>1, <2>1, <2>2, <1>2
      <4> QED BY <4>2
    <3> QED BY <3>1, <3>2
  <2>5. virtual' # NoDevice => virtual'.gen <= gen + 1 /\ virtual'.gen # gen + 1
    BY <1>1, <1>2, <2>3
  <2> QED BY <1>1, <1>3, <2>4, <2>5 DEF Same
<1>19. Fitting'
  <2>1. \A j \in 1..Len(wire') : wire'[j].tag = "Report" => j \in 1..l /\ wire'[j] = wire[j]
    BY <1>6, <1>7
  <2>2. ASSUME NEW i \in 1..Len(wire'), NEW j \in 1..Len(wire'), i < j,
               wire'[i].tag = "Info", wire'[j].tag = "Report", wire'[i].gen = wire'[j].gen
        PROVE  Fits(wire'[i].info, wire'[j].report, wire'[j].gen)
    <3>1. j \in 1..l /\ wire'[j] = wire[j]
      BY <2>1, <2>2
    <3>2. i \in 1..l /\ wire'[i] = wire[i]
      BY <2>2, <3>1, <1>7
    <3> QED BY <2>2, <3>1, <3>2 DEF FInv, Fitting, l
  <2>3. ASSUME NEW j \in 1..Len(wire'), virtual # NoDevice,
               wire'[j].tag = "Report", wire'[j].gen = virtual.gen
        PROVE  Fits(virtual.info, wire'[j].report, wire'[j].gen)
    BY <2>3, <2>1 DEF FInv, Fitting, l
  <2> QED BY <1>1, <2>2, <2>3, SMTT(40) DEF Fitting, Fits
<1> QED BY <1>11, <1>12, <1>13, <1>14, <1>15, <1>16, <1>17, <1>18, <1>19 DEF FInv

\* Nothing of what the invariant is about changes.
LEMMA UnchangedStep ==
    ASSUME FInv, UNCHANGED <<gen, dev, codes, state, synced, queue, info, mapping, report, wire,
                             virtual, heard, frames, dropped>>
    PROVE  FInv'
<1>1. Numbered' /\ InOrder' /\ Same' /\ Fitting' /\ Resting' /\ WholeFrames'
  BY KernelKeeps
<1> QED BY <1>1 DEF FInv, Types, Queued, Recorded, Behind, Settled

\* A write outside of the report is only noted.
LEMMA OutsideStep == ASSUME FInv, WriteOutside PROVE FInv'
<1>1. UNCHANGED <<gen, dev, codes, state, synced, queue, info, mapping, report, wire, virtual,
                  heard, frames, dropped>>
  BY DEF WriteOutside, kernel, server, history
<1> QED BY <1>1, UnchangedStep

-----------------------------------------------------------------------------
(* The step of the client *)

\* What the first message makes of the virtual device.
LEMMA HandleVirtual ==
    ASSUME FInv, Handle
    PROVE  LET m == wire[1] IN
           /\ Len(wire) \in Nat /\ Len(wire) > 0 /\ m \in Message /\ m.gen \in Gens
           /\ m.tag = "Destroy" => virtual' = NoDevice
           /\ m.tag # "Destroy" =>
                 /\ m.tag \in {"Info", "Report"}
                 /\ virtual' # NoDevice /\ virtual'.gen = m.gen
                 /\ virtual' \in [gen : Gens, info : [Type -> Seq(Code)], value : State]
                 /\ m.gen \notin dropped => virtual'.value \in frames[m.gen]
           /\ m.tag = "Info" => virtual'.info = m.info /\ virtual'.value = Zero
           /\ m.tag = "Report" => /\ virtual # NoDevice /\ virtual.gen = m.gen
                                  /\ virtual'.info = virtual.info
                                  /\ virtual'.value = Shown(virtual.info, m.report)
<1> DEFINE m == wire[1]
           V == [gen : Gens, info : [Type -> Seq(Code)], value : State]
<1>1. wire \in Seq(Message) /\ wire # <<>>
  BY DEF Handle, FInv, Types
<1>2. Len(wire) \in Nat /\ Len(wire) > 0 /\ 1 \in 1..Len(wire) /\ m = Head(wire) /\ m \in Message
  BY <1>1
<1>3. \A x \in Message : x.gen \in Gens /\ x.tag \in {"Info", "Report", "Destroy"}
  BY DEF Message
<1>4. virtual' = CASE m.tag = "Info"    -> device_init(m)
                   [] m.tag = "Report"  -> device_handle_report(m)
                   [] m.tag = "Destroy" -> NoDevice
  BY <1>2 DEF Handle
<1> HIDE DEF m
<1>5. \A x \in V : x # NoDevice
  <2>1. \A x \in V : x.gen # 0
    BY ForwardAssumption DEF Gens
  <2>2. NoDevice.gen = 0
    BY DEF NoDevice
  <2> QED BY <2>1, <2>2
<1>6. CASE m.tag = "Destroy"
  <2>1. virtual' = NoDevice
    BY <1>4, <1>6
  <2> QED BY <2>1, <1>2, <1>3, <1>6 DEF m
<1>7. CASE m.tag = "Info"
  <2>1. virtual' = [gen |-> m.gen, info |-> m.info, value |-> Zero]
    BY <1>4, <1>7 DEF device_init
  <2>2. m.info \in [Type -> Seq(Code)]
    BY <1>2, <1>7 DEF Message
  <2>3. Zero \in State /\ Zero \in frames[m.gen]
    BY <1>2, <1>3 DEF FInv, Types, State, Zero
  <2>4. virtual' \in V /\ virtual'.gen = m.gen /\ virtual'.info = m.info /\ virtual'.value = Zero
    BY <1>2, <1>3, <2>1, <2>2, <2>3
  <2> QED BY <1>2, <1>3, <1>5, <1>7, <2>3, <2>4 DEF m
<1>8. CASE m.tag = "Report"
  <2>1. virtual # NoDevice /\ virtual.gen = m.gen
    BY <1>2, <1>8 DEF FInv, InOrder, m
  <2>2. Fits(virtual.info, m.report, m.gen)
    BY <1>2, <1>8, <2>1 DEF FInv, Fitting, m
  <2>3. virtual' = [virtual EXCEPT !.value = Shown(virtual.info, m.report)]
    <3>1. virtual' = device_handle_report(m)
      BY <1>4, <1>8
    <3> QED BY <2>1, <2>2, <3>1, HandleShows DEF Fits
  <2>4. virtual \in V
    BY <2>1 DEF FInv, Types
  <2>5. Shown(virtual.info, m.report) \in State
    <3>1. m.report \in [Type -> Seq(Int)]
      BY <1>2, <1>8 DEF Message
    <3> QED BY <2>2, <2>4, <3>1, ShownType DEF Fits
  <2>6. /\ virtual' \in V /\ virtual'.gen = virtual.gen /\ virtual'.info = virtual.info
        /\ virtual'.value = Shown(virtual.info, m.report)
    BY <2>3, <2>4, <2>5
  <2>7. m.gen \notin dropped => virtual'.value \in frames[m.gen]
    BY <2>2, <2>6 DEF Fits
  <2> QED BY <1>2, <1>3, <1>5, <1>8, <2>1, <2>6, <2>7 DEF m
<1> QED BY <1>2, <1>3, <1>6, <1>7, <1>8

\* The client takes a message off the stream.
LEMMA HandleStep == ASSUME FInv, Handle PROVE FInv'
<1> DEFINE m == wire[1]
           l == Len(wire)
           V == [gen : Gens, info : [Type -> Seq(Code)], value : State]
<1>1. /\ wire # <<>> /\ wire' = Tail(wire)
      /\ UNCHANGED <<gen, dev, codes, state, synced, heard, frames, dropped, queue, info, mapping, report>>
  BY DEF Handle, kernel, server, history
<1>2. /\ l \in Nat /\ l > 0 /\ m \in Message /\ m.gen \in Gens
      /\ m.tag = "Destroy" => virtual' = NoDevice
      /\ m.tag # "Destroy" => /\ m.tag \in {"Info", "Report"}
                              /\ virtual' # NoDevice /\ virtual'.gen = m.gen /\ virtual' \in V
                              /\ m.gen \notin dropped => virtual'.value \in frames[m.gen]
  BY HandleVirtual
<1>3. /\ m.tag = "Info" => virtual'.info = m.info /\ virtual'.value = Zero
      /\ m.tag = "Report" => /\ virtual # NoDevice /\ virtual.gen = m.gen
                             /\ virtual'.info = virtual.info
                             /\ virtual'.value = Shown(virtual.info, m.report)
  BY HandleVirtual
<1>4. /\ wire' \in Seq(Message) /\ Len(wire') = l - 1
      /\ \A i \in 1..(l - 1) : wire'[i] = wire[i + 1]
      /\ wire' = <<>> <=> l = 1
  <2>1. wire \in Seq(Message)
    BY DEF FInv, Types
  <2>2. /\ Tail(wire) \in Seq(Message) /\ Len(Tail(wire)) = l - 1
        /\ \A i \in 1..Len(Tail(wire)) : Tail(wire)[i] = wire[i + 1]
    BY <1>1, <2>1, HeadTailProperties
  <2>3. wire' = <<>> <=> Len(wire') = 0
    BY <1>1, <2>2, EmptySeq
  <2> QED BY <1>1, <1>2, <2>2, <2>3
<1> HIDE DEF m, l, V
<1>5. Types'
  BY <1>1, <1>2, <1>4 DEF FInv, Types, V
<1>6. Numbered' /\ Queued' /\ Recorded' /\ Behind'
  BY <1>1 DEF FInv, Numbered, Queued, Recorded, Behind
<1>7. Resting'
  <2> SUFFICES ASSUME virtual' # NoDevice, NEW t \in Type, NEW c \in Code, ~Has(virtual'.info[t], c)
               PROVE  virtual'.value[t][c] = 0
    BY DEF Resting
  <2>1. CASE m.tag = "Info"
    BY <1>3, <2>1 DEF Zero
  <2>2. CASE m.tag = "Report"
    BY <1>3, <2>2 DEF Shown
  <2> QED BY <1>2, <2>1, <2>2
<1>8. WholeFrames'
  BY <1>1, <1>2 DEF WholeFrames
<1>9. InOrder'
  <2>1. ASSUME Len(wire') > 0, wire'[1].tag = "Report"
        PROVE  virtual' # NoDevice /\ virtual'.gen = wire'[1].gen
    <3>1. 1 \in 1..(l - 1) /\ wire'[1] = wire[1 + 1]
      BY <1>2, <1>4, <2>1
    <3>2. Using(wire[1], wire[1 + 1].gen)
      BY <2>1, <3>1 DEF FInv, InOrder, l
    <3>3. m.tag # "Destroy" /\ m.gen = wire'[1].gen
      BY <3>1, <3>2 DEF Using, m
    <3> QED BY <1>2, <3>3
  <2>2. ASSUME NEW i \in 1..(Len(wire') - 1), wire'[i + 1].tag = "Report"
        PROVE  Using(wire'[i], wire'[i + 1].gen)
    <3>1. /\ i + 1 \in 1..(l - 1) /\ wire'[i] = wire[i + 1] /\ wire'[i + 1] = wire[(i + 1) + 1]
      BY <1>2, <1>4
    <3> QED BY <2>2, <3>1 DEF FInv, InOrder, l
  <2>3. ASSUME dev = "held"
        PROVE  IF wire' = <<>> THEN virtual' # NoDevice /\ virtual'.gen = gen
               ELSE Using(wire'[Len(wire')], gen)
    <3>1. Using(wire[l], gen)
      BY <1>1, <2>3 DEF FInv, InOrder, l
    <3>2. CASE l = 1
      <4>1. m.tag # "Destroy" /\ m.gen = gen
        BY <3>1, <3>2 DEF Using, m
      <4> QED BY <4>1, <3>2, <1>2, <1>4
    <3>3. CASE l # 1
      <4>1. l - 1 \in 1..(l - 1) /\ (l - 1) + 1 = l
        BY <3>3, <1>2
      <4>2. wire'[Len(wire')] = wire[l]
        BY <4>1, <1>4
      <4> QED BY <3>1, <3>3, <4>2, <1>4
    <3> QED BY <3>2, <3>3
  <2> QED BY <1>1, <2>1, <2>2, <2>3 DEF InOrder
<1>10. \A i \in 1..Len(wire') : wire'[i] = wire[i + 1] /\ i + 1 \in 1..l
  BY <1>2, <1>4
<1>11. Same'
  <2>1. 1 \in 1..l
    BY <1>2
  <2>2. m.gen <= gen
    BY <2>1 DEF FInv, Same, l, m
  <2>3. \A i \in 1..Len(wire') : wire'[i].gen <= gen
    BY <1>10 DEF FInv, Same, l
  <2>4. ASSUME dev = "held"
        PROVE  \A i \in 1..Len(wire') :
                  wire'[i].tag = "Info" /\ wire'[i].gen = gen => wire'[i].info = info
    BY <1>10, <2>4 DEF FInv, Same, l
  <2>5. ASSUME dev = "held", virtual' # NoDevice, virtual'.gen = gen
        PROVE  virtual'.info = info
    <3>1. m.gen = gen /\ m.tag \in {"Info", "Report"}
      BY <1>2, <2>5
    <3>2. CASE m.tag = "Info"
      <4>1. m.info = info
        BY <2>1, <2>5, <3>1, <3>2 DEF FInv, Same, l, m
      <4> QED BY <1>3, <3>2, <4>1
    <3>3. CASE m.tag = "Report"
      BY <1>3, <2>5, <3>1, <3>3 DEF FInv, Same
    <3> QED BY <3>1, <3>2, <3>3
  <2> QED BY <1>1, <1>2, <2>2, <2>3, <2>4, <2>5 DEF Same
<1>12. Fitting'
  <2>1. ASSUME NEW i \in 1..Len(wire'), NEW j \in 1..Len(wire'), i < j,
               wire'[i].tag = "Info", wire'[j].tag = "Report", wire'[i].gen = wire'[j].gen
        PROVE  Fits(wire'[i].info, wire'[j].report, wire'[j].gen)
    <3>1. i + 1 < j + 1
      BY <1>2, <1>4, <2>1
    <3> QED BY <2>1, <3>1, <1>10 DEF FInv, Fitting, l
  <2>2. ASSUME NEW j \in 1..Len(wire'), virtual' # NoDevice,
               wire'[j].tag = "Report", wire'[j].gen = virtual'.gen
        PROVE  Fits(virtual'.info, wire'[j].report, wire'[j].gen)
    <3>1. m.tag \in {"Info", "Report"} /\ m.gen = wire'[j].gen
      BY <1>2, <2>2
    <3>2. wire'[j] = wire[j + 1] /\ j + 1 \in 1..l /\ 1 \in 1..l /\ 1 < j + 1
      BY <1>2, <1>4, <1>10
    <3>3. CASE m.tag = "Info"
      <4>1. Fits(m.info, wire[j + 1].report, wire[j + 1].gen)
        BY <2>2, <3>1, <3>2, <3>3 DEF FInv, Fitting, l, m
      <4> QED BY <1>3, <3>2, <3>3, <4>1
    <3>4. CASE m.tag = "Report"
      <4>1. Fits(virtual.info, wire[j + 1].report, wire[j + 1].gen)
        BY <1>3, <2>2, <3>1, <3>2, <3>4 DEF FInv, Fitting, l
      <4> QED BY <1>3, <3>2, <3>4, <4>1
    <3> QED BY <3>1, <3>3, <3>4
  <2> QED BY <1>1, <2>1, <2>2 DEF Fitting, Fits
<1>13. Settled'
  <2> SUFFICES ASSUME dev = "held", gen \notin dropped, synced, queue = <<>>
               PROVE  IF wire' = <<>> THEN virtual'.value = Masked(state, heard)
                      ELSE Masked(state, heard) = IF wire'[Len(wire')].tag = "Info" THEN Zero
                                   ELSE Shown(info, wire'[Len(wire')].report)
    BY <1>1 DEF Settled
  <2>1. Masked(state, heard) = IF wire[l].tag = "Info" THEN Zero ELSE Shown(info, wire[l].report)
    BY <1>1 DEF FInv, Settled, l
  <2>2. CASE l = 1
    <3>1. Using(m, gen)
      BY <1>1, <2>2 DEF FInv, InOrder, l, m
    <3>2. CASE m.tag = "Info"
      BY <1>3, <1>4, <2>1, <2>2, <3>2 DEF m
    <3>3. CASE m.tag = "Report"
      <4>1. virtual.info = info
        BY <1>3, <3>1, <3>3 DEF FInv, Same, Using
      <4> QED BY <1>3, <1>4, <2>1, <2>2, <3>3, <4>1 DEF m
    <3> QED BY <3>1, <3>2, <3>3 DEF Using
  <2>3. CASE l # 1
    <3>1. l - 1 \in 1..(l - 1) /\ (l - 1) + 1 = l
      BY <2>3, <1>2
    <3>2. wire'[Len(wire')] = wire[l]
      BY <3>1, <1>4
    <3> QED BY <2>1, <2>3, <3>2, <1>4
  <2> QED BY <2>2, <2>3
<1> QED BY <1>5, <1>6, <1>7, <1>8, <1>9, <1>11, <1>12, <1>13 DEF FInv

-----------------------------------------------------------------------------
(* The theorems *)

\* At the start there is no device.
LEMMA ForwardInitial == Init => FInv
<1> SUFFICES ASSUME Init PROVE FInv
  OBVIOUS
<1>1. Zero \in State
  BY DEF Zero, State
<1>2. Types
  BY <1>1, ForwardAssumption DEF Init, Types, Gens, Codes
<1>3. Len(wire) = 0 /\ Len(queue) = 0
  BY DEF Init
<1> QED BY <1>2, <1>3 DEF Init, FInv, Numbered, Queued, Recorded, Told, Behind, InOrder, Same,
                          Fitting, Resting, Settled, WholeFrames

\* Every step of the kernel, the server and the client keeps the invariant.
LEMMA ForwardInductive == FInv /\ [Next]_vars => FInv'
<1> SUFFICES ASSUME FInv, [Next]_vars PROVE FInv'
  OBVIOUS
<1>1. CASE ReadEvent
  BY <1>1, ReadSyn, ReadValue
<1>2. CASE UNCHANGED vars
  BY <1>2, UnchangedStep DEF vars, kernel, server, history
<1> QED BY <1>1, <1>2, HappenStep, SyncStep, OpenStep, AcquireStep, ReturnStep, OutsideStep,
           LostStep, HandleStep DEF Next

\* The report, the messages and the virtual device are what is left of the events, the
\* packets, the devices and their uses before them.
THEOREM ForwardInvariance == Spec => []FInv
BY ForwardInitial, ForwardInductive, PTL DEF Spec

\* The virtual device only ever shows what the physical one had at the end of one packet, of
\* the codes that were read in this use of it, unless the kernel dropped events in this use.
THEOREM OnlyWholeFrames == Spec => []WholeFrames
<1>1. FInv => WholeFrames
  BY DEF FInv
<1> QED BY ForwardInvariance, <1>1, PTL

\* Once everything was read and replayed the virtual device has the values of the physical
\* one in all codes that were read in this use of it.
THEOREM CatchesUp == Spec => []CaughtUp
<1>1. FInv => CaughtUp
  <2> SUFFICES ASSUME FInv, dev = "held", gen \notin dropped, synced, queue = <<>>, wire = <<>>
               PROVE  /\ virtual # NoDevice /\ virtual.gen = gen
                      /\ virtual.value = Masked(state, heard)
                      /\ \A t \in Type : Range(virtual.info[t]) = Looked(codes, t)
    BY DEF CaughtUp
  <2>1. virtual # NoDevice /\ virtual.gen = gen
    BY DEF FInv, InOrder
  <2>2. virtual.value = Masked(state, heard)
    BY DEF FInv, Settled
  <2>3. virtual.info = info /\ info \in [Type -> Seq(Code)] /\ codes \in Codes
    BY <2>1 DEF FInv, Same, Types
  <2>4. ASSUME NEW t \in Type PROVE Range(info[t]) = Looked(codes, t)
    <3>1. \A c \in Code : c \in Looked(codes, t) <=> Has(info[t], c)
      BY DEF FInv, Numbered
    <3>2. Looked(codes, t) \subseteq Code /\ info[t] \in Seq(Code)
      BY <2>3 DEF Codes, Looked
    <3>3. Range(info[t]) = {c \in Code : Has(info[t], c)}
      BY <3>2 DEF Has, Range
    <3> QED BY <3>1, <3>2, <3>3
  <2> QED BY <2>1, <2>2, <2>3, <2>4
<1> QED BY ForwardInvariance, <1>1, PTL

\* Every event that waits has its place in the report, unless it is of the last code.
THEOREM OnlyLastOutside == Spec => []EventsIndexed
<1>1. FInv => EventsIndexed
  <2> SUFFICES ASSUME FInv, dev = "held", NEW i \in DOMAIN queue, queue[i].type # "syn",
                      queue[i].code < KeyMax
               PROVE  Indexed(queue[i])
    BY DEF EventsIndexed
  <2>1. queue \in Seq(Event) /\ i \in 1..Len(queue)
    BY DEF FInv, Types
  <2>2. ~Ends(queue[i]) /\ queue[i].type \in Type
    <3>1. queue[i] \in Event
      BY <2>1
    <3> QED BY <3>1, EventKinds DEF Ends
  <2>3. queue[i].code \in Looked(codes, queue[i].type)
    BY <2>1, <2>2 DEF FInv, Queued, Looked
  <2>4. report \in [Type -> Seq(Int)]
    BY DEF FInv, Types
  <2> QED BY <2>2, <2>3, <2>4 DEF FInv, Numbered, Indexed
<1> QED BY ForwardInvariance, <1>1, PTL
==============================================================================
