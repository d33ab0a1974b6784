---------------------------- MODULE HashmapProofs ----------------------------
(***************************************************************************)
(* The hash map is a map, for every hash function, every set of keys and   *)
(* values and every size.                                                  *)
(***************************************************************************)
EXTENDS Hashmap, SetLemmas, FiniteSetTheorems

Bucket == {Empty} \cup [key : Key, val : Value]
Filled == {i \in Index : buckets[i] # Empty}

\* The types of the variables.
Types ==
    /\ cap \in Nat /\ cap >= 2 /\ cap <= MaxCap
    /\ buckets \in [Index -> Bucket]
    /\ count \in Nat /\ hash \in [Key -> Nat]
    /\ hole \in Index \cup {NoHole}
    /\ from \in Nat /\ item \in Bucket

\* Whether a probe that starts at the home of bucket i's key meets j before i.
Before(i, j) ==
    Steps(Home(buckets[i].key), j) < Steps(Home(buckets[i].key), i)

\* A probe for a key is not stopped by an empty bucket before it gets to the key.  (The
\* hole does not stop it: it is empty only once it is closed.)
Reachable == \A i \in Entries, j \in Index : Before(i, j) => buckets[j] # Empty

Unique == \A i, j \in Entries : buckets[i].key = buckets[j].key => i = j

\* At least half of the buckets are empty.
Counted == count = Cardinality(Entries) /\ 2 * Cardinality(Filled) <= cap

\* The hole is not empty before it is closed.
Held == hole # NoHole => buckets[hole] # Empty /\ item = Empty

\* What is left of the old buckets and the entries of the new ones fill no more than half
\* of the size the table had.
Growing ==
    IF item = Empty THEN old = <<>> /\ from = 0
    ELSE /\ cap = 2 * old_cap /\ from <= old_cap
         /\ old \in [0..(old_cap - 1) -> Bucket]
         /\ 2 * (count + Cardinality(Left)) <= old_cap

\* Whatever is taken, the entries are counted and there is room.
Sound == Types /\ Counted /\ Held /\ Growing

\* While a hole is closed no chain goes over the last bucket.
Closing == hole # NoHole => Apart

\* What is left of the old buckets has other keys than the new ones.
Fresh ==
    item # Empty =>
        /\ \A i, j \in Left : old[i].key = old[j].key => i = j
        /\ \A i \in Entries, j \in Left : buckets[i].key # old[j].key

\* The entries are where probes look for them.
Order == Reachable /\ Unique /\ Closing /\ Fresh

HInv == across \in BOOLEAN /\ Sound /\ (~across => Order)

-----------------------------------------------------------------------------
(* Probing *)

\* The remainder is a place of the table.
LEMMA Remainder ==
    ASSUME NEW x \in Nat, NEW c \in Nat, c > 0
    PROVE  x % c \in 0..(c - 1)
OBVIOUS

\* The home of a key is a bucket.
LEMMA HomeInside ==
    ASSUME Types, NEW k \in Key
    PROVE  Home(k) \in Index
<1>1. hash[k] \in Nat
  BY DEF Types
<1> QED BY <1>1, Remainder DEF Types, Home, Index

\* Two places are not equally far.
LEMMA StepsApart ==
    ASSUME Types, NEW i \in Index
    PROVE  /\ \A j \in Index : Steps(i, j) \in Index
           /\ \A j, l \in Index : Steps(i, j) = Steps(i, l) => j = l
BY DEF Types, Index, Steps

\* FirstFrom finds what it is named after.
LEMMA Nearest ==
    ASSUME Types, NEW i \in Index, NEW S \in SUBSET Index, S # {}
    PROVE  /\ FirstFrom(i, S) \in S
           /\ \A l \in S : Steps(i, FirstFrom(i, S)) <= Steps(i, l)
<1> DEFINE D == {Steps(i, l) : l \in S}
<1>1. D \in SUBSET Nat /\ D # {}
  <2>1. \A l \in S : Steps(i, l) \in Nat
    BY StepsApart DEF Index
  <2> QED BY <2>1
<1>2. Min(D) \in D /\ \A y \in D : Min(D) <= y
  BY <1>1, MinIsLeast
<1>3. PICK j \in S : Min(D) = Steps(i, j)
  BY <1>2
<1>4. \A l \in S : Steps(i, j) <= Steps(i, l)
  BY <1>2, <1>3
<1> QED BY <1>4 DEF FirstFrom

\* There is always an empty bucket.
LEMMA SomeEmpty ==
    ASSUME Types, Counted
    PROVE  \E i \in Index : buckets[i] = Empty
<1> SUFFICES ASSUME Filled = Index
             PROVE  FALSE
  BY DEF Filled
<1>1. 0 \in Int /\ cap - 1 \in Int /\ 0 <= cap - 1 /\ cap \in Nat /\ cap >= 2
  BY DEF Types
<1>2. Cardinality(0..(cap - 1)) = cap
  BY <1>1, FS_Interval
<1> QED BY <1>1, <1>2 DEF Counted, Index

\* hashmap_bucket: nothing before the bucket stops the probe.
LEMMA Probe ==
    ASSUME Types, Counted, NEW k \in Key
    PROVE  /\ hashmap_bucket(k) \in Index
           /\ buckets[hashmap_bucket(k)] = Empty \/ buckets[hashmap_bucket(k)].key = k
           /\ \A j \in Index : Steps(Home(k), j) < Steps(Home(k), hashmap_bucket(k))
                                  => buckets[j] # Empty /\ buckets[j].key # k
<1>1. Home(k) \in Index
  BY HomeInside
<1>2. Stops(k) \in SUBSET Index /\ Stops(k) # {}
  BY SomeEmpty DEF Stops
<1>3. /\ hashmap_bucket(k) \in Stops(k)
      /\ \A l \in Stops(k) : Steps(Home(k), hashmap_bucket(k)) <= Steps(Home(k), l)
  BY <1>1, <1>2, Nearest DEF hashmap_bucket
<1>4. ASSUME NEW j \in Index, Steps(Home(k), j) < Steps(Home(k), hashmap_bucket(k))
      PROVE  j \notin Stops(k)
  <2>1. Steps(Home(k), j) \in Nat /\ Steps(Home(k), hashmap_bucket(k)) \in Nat
    BY <1>1, <1>2, <1>3, StepsApart DEF Index
  <2> QED BY <2>1, <1>3, <1>4
<1> QED BY <1>3, <1>4 DEF Stops

\* An entry is what a probe for its key finds.
LEMMA Found ==
    ASSUME Types, Counted, Reachable, Unique, hole = NoHole, NEW i \in Entries
    PROVE  buckets[i].key \in Key /\ hashmap_bucket(buckets[i].key) = i
<1> DEFINE k == buckets[i].key
           p == hashmap_bucket(k)
<1>1. i \in Index /\ buckets[i] # Empty /\ k \in Key
  BY DEF Entries, Types, Bucket
<1>2. Home(k) \in Index /\ p \in Index
  BY <1>1, HomeInside, Probe
<1>3. Steps(Home(k), i) \in Nat /\ Steps(Home(k), p) \in Nat
  BY <1>1, <1>2, StepsApart DEF Index
<1>4. ~(Steps(Home(k), i) < Steps(Home(k), p))
  BY <1>1, Probe
<1>5. CASE Steps(Home(k), p) < Steps(Home(k), i)
  <2>1. buckets[p] # Empty
    BY <1>1, <1>2, <1>5 DEF Reachable, Before
  <2>2. buckets[p].key = k
    BY <1>1, <2>1, Probe
  <2>3. p # hole
    BY <1>2, HashmapAssumption DEF Types, Index, NoHole
  <2>4. p \in Entries
    BY <1>2, <2>1, <2>3 DEF Entries
  <2>5. p = i
    BY <2>2, <2>4 DEF Unique
  <2> QED BY <2>5, <1>5, <1>3
<1>6. CASE Steps(Home(k), p) = Steps(Home(k), i)
  BY <1>6, <1>1, <1>2, StepsApart
<1> QED BY <1>1, <1>3, <1>4, <1>5, <1>6

\* A probe that ends at an empty bucket is for a key that is not there.
LEMMA NotFound ==
    ASSUME Types, Counted, Reachable, Unique, hole = NoHole, NEW k \in Key,
           NEW i \in Entries, buckets[i].key = k
    PROVE  buckets[hashmap_bucket(k)] = buckets[i] /\ buckets[i] # Empty
BY Found DEF Entries

-----------------------------------------------------------------------------
(* Insertion *)

\* Outside of hashmap_take the entries are what is filled.
LEMMA EntriesFilled ==
    ASSUME Types, hole = NoHole
    PROVE  Entries = Filled
BY HashmapAssumption DEF Types, Index, NoHole, Entries, Filled

\* The buckets that are filled can be counted.
LEMMA FiniteTable ==
    ASSUME Types
    PROVE  /\ IsFiniteSet(Filled) /\ IsFiniteSet(Entries)
           /\ Cardinality(Filled) \in Nat /\ Cardinality(Entries) \in Nat
<1>1. 0 \in Int /\ cap - 1 \in Int
  BY DEF Types
<1>2. IsFiniteSet(Index)
  BY <1>1, FS_Interval DEF Index
<1>3. Filled \subseteq Index /\ Entries \subseteq Index
  BY DEF Filled, Entries
<1>4. IsFiniteSet(Filled) /\ IsFiniteSet(Entries)
  BY <1>2, <1>3, FS_Subset
<1> QED BY <1>4, FS_CardinalityType

\* What hashmap_insert changes: one bucket, which has the key afterwards.
LEMMA Inserted ==
    ASSUME Types, Counted, hole = NoHole, NEW k \in Key, NEW v \in Value,
           hashmap_insert(k, v), UNCHANGED <<cap, hash, hole>>
    PROVE  LET p == hashmap_bucket(k)
           IN  /\ p \in Index /\ Index' = Index
               /\ buckets' \in [Index -> Bucket]
               /\ buckets'[p] = [key |-> k, val |-> v] /\ buckets'[p] # Empty
               /\ \A i \in Index : i # p => buckets'[i] = buckets[i]
               /\ p \in Entries => buckets[p].key = k
               /\ Entries' = Entries \cup {p} /\ Filled' = Entries'
<1> DEFINE p == hashmap_bucket(k)
           e == [key |-> k, val |-> v]
<1>1. p \in Index /\ Index' = Index
  BY Probe DEF Index
<1>2. e \in Bucket /\ e # Empty
  <2>1. e.key = k /\ Empty.key = Missing
    BY DEF Empty
  <2> QED BY <2>1, HashmapAssumption DEF Bucket
<1>3. buckets' = [buckets EXCEPT ![p] = e]
  BY DEF hashmap_insert
<1>4. /\ buckets' \in [Index -> Bucket] /\ buckets'[p] = e
      /\ \A i \in Index : i # p => buckets'[i] = buckets[i]
  BY <1>1, <1>2, <1>3 DEF Types
<1>6. p \in Entries => buckets[p].key = k
  BY Probe DEF Entries
<1>7. Entries' = Entries \cup {p}
  <2>1. hole' = hole /\ hole \notin Index
    BY HashmapAssumption DEF Types, Index, NoHole
  <2>2. ASSUME NEW i \in Index
        PROVE  i \in Entries' <=> i \in Entries \/ i = p
    BY <1>1, <1>2, <1>4, <2>1 DEF Entries
  <2> QED BY <1>1, <2>2 DEF Entries
<1>8. Filled' = Entries'
  <2>1. hole' \notin Index'
    BY <1>1, HashmapAssumption DEF Types, Index, NoHole
  <2> QED BY <2>1 DEF Entries, Filled
<1> QED BY <1>1, <1>2, <1>4, <1>6, <1>7, <1>8

\* There is no other bucket that has the key.
LEMMA OnlyOne ==
    ASSUME Types, Counted, Reachable, Unique, hole = NoHole, NEW k \in Key
    PROVE  \A i \in Entries : i # hashmap_bucket(k) => buckets[i].key # k
BY Found

\* An entry more is counted, when there is room for it.
LEMMA InsertCounted ==
    ASSUME Types, Counted, hole = NoHole, NEW k \in Key, NEW v \in Value,
           2 * (count + 1) <= cap,
           hashmap_insert(k, v), UNCHANGED <<cap, hash, hole>>
    PROVE  Counted' /\ count' \in Nat /\ count' <= count + 1
<1> DEFINE p == hashmap_bucket(k)
<1>1. p \in Index /\ Entries' = Entries \cup {p} /\ Filled' = Entries'
  BY Inserted
<1>2. count \in Nat /\ count = Cardinality(Entries) /\ IsFiniteSet(Entries)
  BY FiniteTable DEF Counted, Types
<1>3. p \in Entries <=> buckets[p] # Empty
  BY <1>1, EntriesFilled DEF Filled
<1>4. count' = Cardinality(Entries') /\ count' \in Nat /\ count' <= count + 1
  <2>1. CASE p \in Entries
    <3>1. count' = count /\ Entries' = Entries
      BY <1>1, <1>3, <2>1 DEF hashmap_insert
    <3> QED BY <3>1, <1>2
  <2>2. CASE p \notin Entries
    <3>1. count' = count + 1
      BY <1>3, <2>2 DEF hashmap_insert
    <3>2. Cardinality(Entries \cup {p}) = Cardinality(Entries) + 1
      BY <1>2, <2>2, FS_AddElement
    <3> QED BY <3>1, <3>2, <1>1, <1>2
  <2> QED BY <2>1, <2>2
<1>5. Counted'
  <2>1. cap' = cap /\ cap \in Nat
    BY DEF Types
  <2> QED BY <2>1, <1>1, <1>2, <1>4 DEF Counted
<1> QED BY <1>4, <1>5

\* The entries stay where probes look for them.
LEMMA InsertOrdered ==
    ASSUME Types, Counted, Reachable, Unique, hole = NoHole, NEW k \in Key, NEW v \in Value,
           hashmap_insert(k, v), UNCHANGED <<cap, hash, hole>>
    PROVE  Reachable' /\ Unique'
<1> DEFINE p == hashmap_bucket(k)
           e == [key |-> k, val |-> v]
<1>1. /\ p \in Index /\ Index' = Index
      /\ buckets'[p] = e /\ buckets'[p].key = k /\ buckets'[p] # Empty
      /\ \A i \in Index : i # p => buckets'[i] = buckets[i]
      /\ \A i \in Entries : i # p => buckets[i].key # k
      /\ Entries' = Entries \cup {p} /\ Filled' = Entries'
  <2>1. e.key = k
    OBVIOUS
  <2> QED BY <2>1, Inserted, OnlyOne
<1>2. \A j \in Index : buckets[j] # Empty => buckets'[j] # Empty
  BY <1>1
<1>3. Reachable'
  <2> SUFFICES ASSUME NEW i \in Entries', NEW j \in Index, Before(i, j)'
               PROVE  buckets'[j] # Empty
    BY <1>1 DEF Reachable
  <2>1. CASE i = p
    <3>1. Steps(Home(k), j) < Steps(Home(k), p)
      BY <1>1, <2>1 DEF Before, Steps, Home
    <3> QED BY <3>1, <1>2, Probe
  <2>2. CASE i # p
    <3>1. i \in Entries /\ i \in Index
      BY <1>1, <2>2 DEF Entries
    <3>2. buckets'[i] = buckets[i]
      BY <1>1, <2>2, <3>1
    <3>3. Before(i, j)
      BY <3>2 DEF Before, Steps, Home
    <3> QED BY <3>1, <3>3, <1>2 DEF Reachable
  <2> QED BY <2>1, <2>2
<1>4. Unique'
  <2> SUFFICES ASSUME NEW i \in Entries', NEW j \in Entries', buckets'[i].key = buckets'[j].key, i # j
               PROVE  FALSE
    BY DEF Unique
  <2>1. i \in Index /\ j \in Index
    BY <1>1 DEF Entries
  <2>2. CASE i # p /\ j # p
    BY <1>1, <2>1, <2>2 DEF Unique
  <2>3. CASE i = p \/ j = p
    BY <1>1, <2>1, <2>3
  <2> QED BY <2>2, <2>3
<1> QED BY <1>3, <1>4

-----------------------------------------------------------------------------
(* Closing the hole *)

\* While the ends are apart no entry lies before its home.
LEMMA NoWrap ==
    ASSUME Types, Reachable, Apart, NEW i \in Entries
    PROVE  Home(buckets[i].key) \in Index /\ Home(buckets[i].key) <= i
<1> DEFINE h == Home(buckets[i].key)
<1>1. i \in Index /\ buckets[i] # Empty /\ buckets[i].key \in Key
  BY DEF Entries, Types, Bucket
<1>2. h \in Index
  BY <1>1, HomeInside
<1>3. cap \in Nat /\ cap >= 2 /\ h \in 0..(cap - 1) /\ i \in 0..(cap - 1)
  BY <1>1, <1>2 DEF Types, Index
<1>4. 0 \in Index /\ cap - 1 \in Index
  BY <1>3 DEF Index
<1> SUFFICES ASSUME h > i
             PROVE  FALSE
  BY <1>2, <1>3
<1>5. buckets[cap - 1] # Empty
  <2>1. Before(i, cap - 1)
    BY <1>3 DEF Before, Steps
  <2> QED BY <2>1, <1>4 DEF Reachable
<1>6. buckets[0] = Empty /\ i # 0
  BY <1>1, <1>5 DEF Apart
<1>7. Before(i, 0)
  BY <1>3, <1>6 DEF Before, Steps
<1> QED BY <1>4, <1>6, <1>7 DEF Reachable

\* The bucket CloseHole takes next.
Stop == {i \in Index : buckets[i] = Empty \/ Movable(i)}
NextStop == FirstFrom((hole + 1) % cap, Stop)

\* It exists, and nothing before it stops the search.
LEMMA StopFacts ==
    ASSUME Types, Counted, hole # NoHole
    PROVE  /\ hole \in Index /\ (hole + 1) % cap \in Index
           /\ (hole + 1) % cap = IF hole = cap - 1 THEN 0 ELSE hole + 1
           /\ NextStop \in Index /\ NextStop \in Stop
           /\ \A l \in Stop : Steps((hole + 1) % cap, NextStop) <= Steps((hole + 1) % cap, l)
<1>1. hole \in Index /\ cap \in Nat /\ cap >= 2
  BY DEF Types
<1>2. (hole + 1) % cap = IF hole = cap - 1 THEN 0 ELSE hole + 1
  BY <1>1 DEF Index
<1>3. (hole + 1) % cap \in Index
  BY <1>1, <1>2 DEF Index
<1>4. Stop \in SUBSET Index /\ Stop # {}
  BY SomeEmpty DEF Stop
<1>5. /\ NextStop \in Stop
      /\ \A l \in Stop : Steps((hole + 1) % cap, NextStop) <= Steps((hole + 1) % cap, l)
  BY <1>3, <1>4, Nearest DEF NextStop
<1> QED BY <1>1, <1>2, <1>3, <1>4, <1>5

\* The search does not come round to the hole.
LEMMA StopElsewhere ==
    ASSUME Types, Counted, Held, hole # NoHole
    PROVE  NextStop # hole
<1> DEFINE n == NextStop
           s == (hole + 1) % cap
<1>1. /\ hole \in 0..(cap - 1) /\ cap \in Nat /\ cap >= 2
      /\ s = IF hole = cap - 1 THEN 0 ELSE hole + 1
      /\ \A l \in Stop : Steps(s, n) <= Steps(s, l)
  BY StopFacts DEF Types, Index
<1>2. PICK e \in Index : buckets[e] = Empty
  BY SomeEmpty
<1>3. e \in Stop /\ e # hole /\ e \in 0..(cap - 1)
  BY <1>2 DEF Stop, Held, Index
<1>4. Steps(s, n) <= Steps(s, e)
  BY <1>1, <1>3
<1>5. ~(Steps(s, hole) <= Steps(s, e))
  BY <1>1, <1>3 DEF Steps
<1> QED BY <1>4, <1>5

\* An entry that is moved comes from behind the hole.
LEMMA MovedBack ==
    ASSUME Types, Counted, Held, Closing, hole # NoHole, buckets[NextStop] # Empty
    PROVE  hole < NextStop
<1> DEFINE n == NextStop
           s == (hole + 1) % cap
<1>1. /\ hole \in 0..(cap - 1) /\ n \in 0..(cap - 1) /\ cap \in Nat /\ cap >= 2
      /\ s = IF hole = cap - 1 THEN 0 ELSE hole + 1
      /\ \A l \in Stop : Steps(s, n) <= Steps(s, l)
  BY StopFacts DEF Types, Index
<1>2. buckets[hole] # Empty /\ (buckets[0] = Empty \/ buckets[cap - 1] = Empty)
  BY DEF Held, Closing, Apart
<1>3. 0 \in Index /\ cap - 1 \in Index
  BY <1>1 DEF Index
<1> SUFFICES ASSUME n <= hole
             PROVE  FALSE
  BY <1>1
<1>4. CASE buckets[cap - 1] = Empty
  <2>1. cap - 1 \in Stop
    BY <1>3, <1>4 DEF Stop
  <2>2. Steps(s, n) <= Steps(s, cap - 1)
    BY <2>1, <1>1
  <2>3. hole # cap - 1
    BY <1>2, <1>4
  <2> QED BY <1>1, <2>2, <2>3 DEF Steps
<1>5. CASE buckets[0] = Empty
  <2>1. 0 \in Stop
    BY <1>3, <1>5 DEF Stop
  <2>2. Steps(s, n) <= Steps(s, 0)
    BY <2>1, <1>1
  <2>3. n = 0
    BY <1>1, <2>2 DEF Steps
  <2> QED BY <2>3, <1>5
<1> QED BY <1>2, <1>4, <1>5

\* When nothing can be moved, no entry's probe goes over the hole.
LEMMA HoleCloses ==
    ASSUME Types, Counted, Reachable, Closing, hole # NoHole, buckets[NextStop] = Empty,
           NEW i \in Entries
    PROVE  ~Before(i, hole)
<1> DEFINE n == NextStop
           s == (hole + 1) % cap
           h == Home(buckets[i].key)
<1> SUFFICES ASSUME Before(i, hole)
             PROVE  FALSE
  OBVIOUS
<1>1. /\ hole \in 0..(cap - 1) /\ n \in 0..(cap - 1) /\ cap \in Nat /\ cap >= 2
      /\ s = IF hole = cap - 1 THEN 0 ELSE hole + 1
      /\ \A l \in Stop : Steps(s, n) <= Steps(s, l)
      /\ n \in Index
  BY StopFacts DEF Types, Index
<1>2. i \in Index /\ i \in 0..(cap - 1) /\ buckets[i] # Empty
  BY DEF Entries, Index
<1>3. h \in 0..(cap - 1) /\ h <= i
  BY NoWrap DEF Closing, Index
<1>4. h <= hole /\ hole < i
  BY <1>1, <1>2, <1>3 DEF Before, Steps
<1>5. i \in Stop
  BY <1>2, <1>4 DEF Stop, Movable
<1>6. Steps(s, n) <= Steps(s, i)
  BY <1>1, <1>5
<1>7. h <= n /\ n <= i
  BY <1>1, <1>2, <1>3, <1>4, <1>6 DEF Steps
<1>8. n < i
  BY <1>1, <1>2, <1>7
<1>9. Before(i, n)
  BY <1>1, <1>2, <1>3, <1>7, <1>8 DEF Before, Steps
<1> QED BY <1>1, <1>9 DEF Reachable

\* What CloseHole changes when it moves an entry: the hole gets it, and leaves its place.
LEMMA Moved ==
    ASSUME Sound, CloseHole, buckets[NextStop] # Empty
    PROVE  LET n == NextStop
           IN  /\ hole \in Index /\ n \in Index /\ n \in Stop /\ hole # n /\ hole' = n
               /\ Index' = Index /\ UNCHANGED <<cap, count, hash, old, from, item, across>>
               /\ buckets' \in [Index -> Bucket] /\ buckets'[hole] = buckets[n]
               /\ buckets[n].key \in Key
               /\ \A i \in Index : i # hole => buckets'[i] = buckets[i]
               /\ \A j \in Index : buckets'[j] = Empty <=> buckets[j] = Empty
               /\ Filled' = Filled /\ hole \in Filled /\ n \in Filled
               /\ Entries = Filled \ {hole} /\ Entries' = Filled \ {n}
<1> DEFINE n == NextStop
<1>1. Types /\ Counted /\ Held /\ Growing /\ hole # NoHole
  BY DEF Sound, CloseHole
<1>2. /\ buckets' = [buckets EXCEPT ![hole] = buckets[n]] /\ hole' = n
      /\ UNCHANGED <<cap, count, hash, old, from, item, across>>
  BY DEF CloseHole, NextStop, Stop, growing
<1>3. /\ hole \in Index /\ n \in Index /\ n \in Stop /\ hole # n /\ Index' = Index
  BY <1>1, <1>2, StopFacts, StopElsewhere DEF Index
<1>4. /\ buckets[n] \in Bucket /\ buckets[n].key \in Key /\ buckets[hole] # Empty
      /\ buckets \in [Index -> Bucket]
  BY <1>1, <1>3 DEF Types, Bucket, Held
<1>5. /\ buckets' \in [Index -> Bucket] /\ buckets'[hole] = buckets[n]
      /\ \A i \in Index : i # hole => buckets'[i] = buckets[i]
  BY <1>2, <1>3, <1>4
<1>6. \A j \in Index : buckets'[j] = Empty <=> buckets[j] = Empty
  BY <1>4, <1>5
<1>7. Filled' = Filled
  BY <1>3, <1>6 DEF Filled
<1>8. Entries = Filled \ {hole} /\ Entries' = Filled \ {n}
  BY <1>2, <1>3, <1>6 DEF Entries, Filled
<1>9. hole \in Filled /\ n \in Filled
  BY <1>3, <1>4 DEF Filled
<1> QED BY <1>2, <1>3, <1>4, <1>5, <1>6, <1>7, <1>8, <1>9

\* An entry is moved into the hole and leaves a hole behind: the count is right,
LEMMA MoveSound ==
    ASSUME Sound, CloseHole, buckets[NextStop] # Empty
    PROVE  Sound'
<1> DEFINE n == NextStop
<1>1. Types /\ Counted /\ Held /\ Growing /\ hole # NoHole
  BY DEF Sound, CloseHole
<1>2. Types'
  BY <1>1, Moved DEF Types
<1>3. Counted'
  <2>1. IsFiniteSet(Filled)
    BY <1>1, FiniteTable
  <2>2. hole \in Filled /\ n \in Filled
    BY Moved
  <2>3. Cardinality(Filled \ {hole}) = Cardinality(Filled) - 1
    BY <2>1, <2>2, FS_RemoveElement
  <2>4. Cardinality(Filled \ {n}) = Cardinality(Filled) - 1
    BY <2>1, <2>2, FS_RemoveElement
  <2> QED BY <1>1, <2>3, <2>4, Moved DEF Counted
<1>4. Held' /\ Growing'
  BY <1>1, Moved DEF Held, Growing
<1> QED BY <1>2, <1>3, <1>4 DEF Sound

\* and the entries are where probes look for them, unless it came over the end.
LEMMA MoveOrdered ==
    ASSUME Sound, Order, CloseHole, buckets[NextStop] # Empty
    PROVE  /\ Order'
           /\ {buckets'[i] : i \in Entries'} = {buckets[i] : i \in Entries}
<1> DEFINE n == NextStop
           k == buckets[n].key
<1>1. Types /\ Counted /\ Held /\ Growing /\ Reachable /\ Unique /\ Closing /\ hole # NoHole
  BY DEF Sound, Order, CloseHole
<1>2. /\ hole' = n /\ UNCHANGED <<cap, hash, old, from, item>>
      /\ hole \in Index /\ n \in Index /\ n \in Stop /\ hole # n /\ Index' = Index
      /\ hole < n /\ cap \in Nat /\ k \in Key
  BY <1>1, Moved, MovedBack DEF Types
<1>3. /\ buckets'[hole] = buckets[n]
      /\ \A i \in Index : i # hole => buckets'[i] = buckets[i]
      /\ \A j \in Index : buckets'[j] = Empty <=> buckets[j] = Empty
      /\ Entries = Filled \ {hole} /\ Entries' = Filled \ {n}
      /\ hole \in Filled /\ n \in Filled /\ n \in Entries /\ hole \in Entries'
  BY Moved
<1>4. Closing' /\ Fresh'
  <2>1. 0 \in Index /\ cap - 1 \in Index
    BY <1>1 DEF Types, Index
  <2>2. Apart /\ item = Empty
    BY <1>1 DEF Closing, Held
  <2>3. Apart' /\ item' = Empty
    BY <1>2, <1>3, <2>1, <2>2 DEF Apart
  <2> QED BY <2>3 DEF Closing, Fresh
<1>5. Unique'
  <2> SUFFICES ASSUME NEW i \in Entries', NEW j \in Entries', buckets'[i].key = buckets'[j].key, i # j
               PROVE  FALSE
    BY DEF Unique
  <2> DEFINE o(x) == IF x = hole THEN n ELSE x
  <2>1. ASSUME NEW x \in Entries'
        PROVE  o(x) \in Entries /\ buckets'[x] = buckets[o(x)]
    BY <1>3 DEF Filled
  <2>2. buckets[o(i)].key = buckets[o(j)].key /\ o(i) \in Entries /\ o(j) \in Entries
    BY <2>1
  <2>3. o(i) # o(j)
    BY <1>3
  <2> QED BY <2>2, <2>3, <1>1 DEF Unique
<1>6. Reachable'
  <2> SUFFICES ASSUME NEW i \in Entries', NEW j \in Index, Before(i, j)'
               PROVE  buckets[j] # Empty
    BY <1>2, <1>3 DEF Reachable
  <2>1. CASE i = hole
    <3>1. Home(k) \in Index /\ Home(k) <= hole
      BY <1>1, <1>2, <1>3, HomeInside DEF Stop, Movable, Filled
    <3>2. Steps(Home(k), j) < Steps(Home(k), hole)
      BY <1>2, <1>3, <2>1 DEF Before, Steps, Home
    <3>3. Steps(Home(k), hole) < Steps(Home(k), n) /\ Steps(Home(k), j) \in Nat
      BY <1>2, <3>1 DEF Steps, Index
    <3>4. Steps(Home(k), hole) \in Nat /\ Steps(Home(k), n) \in Nat
      BY <1>2, <3>1 DEF Steps, Index
    <3>5. Before(n, j)
      BY <3>2, <3>3, <3>4 DEF Before
    <3> QED BY <1>1, <1>3, <3>5 DEF Reachable
  <2>2. CASE i # hole
    <3>1. i \in Entries /\ buckets'[i] = buckets[i]
      BY <1>3, <2>2 DEF Filled
    <3>2. Before(i, j)
      BY <1>2, <3>1 DEF Before, Steps, Home
    <3> QED BY <1>1, <3>1, <3>2 DEF Reachable
  <2> QED BY <2>1, <2>2
<1>7. {buckets'[i] : i \in Entries'} = {buckets[i] : i \in Entries}
  <2>1. ASSUME NEW i \in Entries' PROVE \E j \in Entries : buckets'[i] = buckets[j]
    BY <1>3 DEF Filled
  <2>2. ASSUME NEW i \in Entries PROVE \E j \in Entries' : buckets[i] = buckets'[j]
    BY <1>3 DEF Filled
  <2> QED BY <2>1, <2>2
<1> QED BY <1>4, <1>5, <1>6, <1>7 DEF Order

\* What CloseHole changes when nothing is moved: the hole is an empty bucket.
LEMMA Closed ==
    ASSUME Sound, CloseHole, buckets[NextStop] = Empty
    PROVE  /\ hole' = NoHole /\ NoHole \notin Index /\ hole \in Index /\ Index' = Index
           /\ UNCHANGED <<cap, count, hash, old, from, item, across>>
           /\ buckets' \in [Index -> Bucket]
           /\ \A i \in Index : i # hole => buckets'[i] = buckets[i]
           /\ Entries' = Entries /\ Filled' = Entries
           /\ \A i \in Entries : i \in Index /\ buckets'[i] = buckets[i]
<1>1. Types /\ hole # NoHole
  BY DEF Sound, CloseHole
<1>2. /\ buckets' = [buckets EXCEPT ![hole] = Empty] /\ hole' = NoHole
      /\ UNCHANGED <<cap, count, hash, old, from, item, across>>
  BY DEF CloseHole, NextStop, Stop, growing
<1>3. hole \in Index /\ Index' = Index /\ NoHole \notin Index
  BY <1>1, <1>2, HashmapAssumption DEF Types, Index, NoHole
<1>4. /\ buckets' \in [Index -> Bucket] /\ buckets'[hole] = Empty
      /\ \A i \in Index : i # hole => buckets'[i] = buckets[i]
  BY <1>1, <1>2, <1>3 DEF Types, Bucket
<1>5. Entries' = Entries /\ Filled' = Entries
  BY <1>2, <1>3, <1>4 DEF Entries, Filled
<1>6. \A i \in Entries : i \in Index /\ buckets'[i] = buckets[i]
  BY <1>4 DEF Entries
<1> QED BY <1>2, <1>3, <1>4, <1>5, <1>6

\* The hole becomes an empty bucket: the count is right,
LEMMA CloseSound ==
    ASSUME Sound, CloseHole, buckets[NextStop] = Empty
    PROVE  Sound'
<1>1. Types /\ Counted /\ Held /\ Growing /\ hole # NoHole
  BY DEF Sound, CloseHole
<1>2. Types'
  BY <1>1, Closed DEF Types
<1>3. Counted'
  <2>1. Entries \subseteq Filled /\ IsFiniteSet(Filled)
    BY <1>1, FiniteTable DEF Entries, Filled
  <2>2. Cardinality(Entries) <= Cardinality(Filled)
    BY <2>1, FS_Subset
  <2>3. Cardinality(Entries) \in Nat /\ Cardinality(Filled) \in Nat /\ cap \in Nat
    BY <1>1, FiniteTable DEF Types
  <2> QED BY <1>1, <2>2, <2>3, Closed DEF Counted
<1>4. Held' /\ Growing'
  BY <1>1, Closed DEF Held, Growing
<1> QED BY <1>2, <1>3, <1>4 DEF Sound

\* and no probe is stopped by it.
LEMMA CloseOrdered ==
    ASSUME Sound, Order, CloseHole, buckets[NextStop] = Empty
    PROVE  /\ Order'
           /\ {buckets'[i] : i \in Entries'} = {buckets[i] : i \in Entries}
<1>1. Types /\ Counted /\ Held /\ Growing /\ Reachable /\ Unique /\ Closing /\ hole # NoHole
  BY DEF Sound, Order, CloseHole
<1>2. /\ hole' = NoHole /\ UNCHANGED <<cap, hash, item>> /\ Index' = Index /\ Entries' = Entries
      /\ \A i \in Index : i # hole => buckets'[i] = buckets[i]
      /\ \A i \in Entries : i \in Index /\ buckets'[i] = buckets[i]
  BY Closed
<1>3. Closing' /\ Fresh'
  BY <1>1, <1>2 DEF Held, Closing, Fresh
<1>4. Unique'
  BY <1>1, <1>2 DEF Unique
<1>5. Reachable'
  <2> SUFFICES ASSUME NEW i \in Entries, NEW j \in Index, Before(i, j)'
               PROVE  buckets'[j] # Empty
    BY <1>2 DEF Reachable
  <2>1. Before(i, j)
    BY <1>2 DEF Before, Steps, Home
  <2>2. j # hole
    BY <1>1, <2>1, HoleCloses
  <2>3. buckets[j] # Empty
    BY <1>1, <2>1 DEF Reachable
  <2> QED BY <1>2, <2>2, <2>3
<1>6. {buckets'[i] : i \in Entries'} = {buckets[i] : i \in Entries}
  BY <1>2
<1> QED BY <1>3, <1>4, <1>5, <1>6 DEF Order

-----------------------------------------------------------------------------
(* The other steps *)

Kept == {buckets[i] : i \in Entries}

\* With a key put into the table, or taken out of it.
With(S, k, v) == {e \in S : e.key # k} \cup {[key |-> k, val |-> v]}
Without(S, k) == {e \in S : e.key # k}

\* What hashmap_insert does to the entries.
LEMMA InsertKept ==
    ASSUME Types, Counted, Reachable, Unique, hole = NoHole, NEW k \in Key, NEW v \in Value,
           hashmap_insert(k, v), UNCHANGED <<cap, hash, hole>>
    PROVE  Kept' = With(Kept, k, v)
<1> DEFINE p == hashmap_bucket(k)
           e == [key |-> k, val |-> v]
<1>1. /\ p \in Index /\ Index' = Index
      /\ buckets'[p] = e /\ e.key = k
      /\ \A i \in Index : i # p => buckets'[i] = buckets[i]
      /\ \A i \in Entries : i # p => buckets[i].key # k
      /\ p \in Entries => buckets[p].key = k
      /\ Entries' = Entries \cup {p}
  <2>1. e.key = k
    OBVIOUS
  <2> QED BY <2>1, Inserted, OnlyOne
<1>2. \A i \in Entries : i \in Index
  BY DEF Entries
<1>3. ASSUME NEW x \in Kept' PROVE x \in With(Kept, k, v)
  <2>1. PICK i \in Entries' : x = buckets'[i]
    BY DEF Kept
  <2>2. CASE i = p
    BY <1>1, <2>1, <2>2 DEF With
  <2>3. CASE i # p
    <3>1. i \in Entries /\ x = buckets[i] /\ x.key # k
      BY <1>1, <1>2, <2>1, <2>3
    <3> QED BY <3>1 DEF With, Kept
  <2> QED BY <2>2, <2>3
<1>4. ASSUME NEW x \in With(Kept, k, v) PROVE x \in Kept'
  <2>1. CASE x = e
    BY <1>1, <2>1 DEF Kept
  <2>2. CASE x # e
    <3>1. x \in Kept /\ x.key # k
      BY <2>2 DEF With
    <3>2. PICK i \in Entries : x = buckets[i]
      BY <3>1 DEF Kept
    <3>3. i # p
      BY <1>1, <3>1, <3>2
    <3>4. i \in Entries' /\ x = buckets'[i]
      BY <1>1, <1>2, <3>2, <3>3
    <3> QED BY <3>4 DEF Kept
  <2> QED BY <2>1, <2>2
<1> QED BY <1>3, <1>4

\* A probe finds a key exactly if an entry has it, and then it finds that entry.
LEMMA ProbeKept ==
    ASSUME Types, Counted, Reachable, Unique, hole = NoHole, NEW k \in Key
    PROVE  /\ At(k) = Empty => \A e \in Kept : e.key # k
           /\ At(k) # Empty => At(k) \in Kept /\ At(k).key = k
<1>1. hashmap_bucket(k) \in Index /\ (At(k) = Empty \/ At(k).key = k)
  BY Probe DEF At
<1>2. ASSUME At(k) = Empty, NEW e \in Kept, e.key = k PROVE FALSE
  BY <1>2, NotFound DEF Kept, At
<1>3. ASSUME At(k) # Empty PROVE At(k) \in Kept
  BY <1>1, <1>3, EntriesFilled DEF Kept, At, Filled
<1> QED BY <1>1, <1>2, <1>3

\* Outside of hashmap_grow nothing is left in old buckets.
LEMMA NothingLeft ==
    ASSUME Growing, item = Empty
    PROVE  Left = {} /\ Present = Kept
<1>1. old = <<>>
  BY DEF Growing
<1>2. DOMAIN old = {}
  BY <1>1
<1> QED BY <1>2 DEF Left, Present, Kept

\* hashmap_set without growth.
LEMMA SetStep ==
    ASSUME Sound, Idle, NEW k \in Key, NEW v \in Value,
           hashmap_insert(k, v), count < MaxItems(cap), UNCHANGED <<cap, hash, hole, growing>>
    PROVE  Sound' /\ (Order => Order' /\ Present' = With(Present, k, v))
<1>1. /\ Types /\ Counted /\ Growing
      /\ hole = NoHole /\ item = Empty
      /\ UNCHANGED <<cap, hash, hole>> /\ UNCHANGED <<old, from, item>>
  BY DEF Sound, Idle, growing
<1>2. 2 * (count + 1) <= cap
  BY <1>1 DEF Types, MaxItems
<1>3. Counted' /\ count' \in Nat
  BY <1>1, <1>2, InsertCounted
<1>4. Types'
  <2>1. Index' = Index /\ buckets' \in [Index -> Bucket]
    BY <1>1, Inserted
  <2> QED BY <2>1, <1>1, <1>3 DEF Types
<1>5. Held' /\ Growing' /\ item' = Empty
  BY <1>1 DEF Held, Growing
<1>6. ASSUME Order PROVE Order' /\ Present' = With(Present, k, v)
  <2>1. Reachable /\ Unique
    BY <1>6 DEF Order
  <2>2. Reachable' /\ Unique'
    BY <1>1, <2>1, InsertOrdered
  <2>3. Closing' /\ Fresh'
    BY <1>1 DEF Closing, Fresh
  <2>4. Kept' = With(Kept, k, v)
    BY <1>1, <2>1, InsertKept
  <2>5. Present = Kept /\ Present' = Kept'
    BY <1>1, <1>5, NothingLeft DEF Present, Kept, Left, Growing
  <2> QED BY <2>2, <2>3, <2>4, <2>5 DEF Order
<1> QED BY <1>3, <1>4, <1>5, <1>6 DEF Sound

\* A table of empty buckets is in order.
LEMMA EmptyTable ==
    ASSUME Types', buckets' = Buckets(cap'), count' = 0
    PROVE  Kept' = {} /\ Entries' = {} /\ Reachable' /\ Unique' /\ Counted'
<1>1. \A i \in Index' : buckets'[i] = Empty
  BY DEF Buckets, Index
<1>2. Entries' = {} /\ Filled' = {}
  BY <1>1 DEF Entries, Filled
<1>3. Cardinality({}) = 0
  BY FS_EmptySet
<1>4. Counted'
  BY <1>2, <1>3 DEF Counted, Types
<1> QED BY <1>2, <1>4 DEF Kept, Reachable, Unique

\* hashmap_set starts to grow the table: every entry is left over.
LEMMA GrowStep ==
    ASSUME Sound, Idle, NEW k \in Key, NEW v \in Value, hashmap_grow,
           item' = [key |-> k, val |-> v], UNCHANGED <<hash, hole>>
    PROVE  Sound' /\ (Order => Order' /\ Present' = Present)
<1>1. Types /\ Counted /\ Growing /\ hole = NoHole /\ item = Empty
  BY DEF Sound, Idle
<1>2. /\ cap' = 2 * cap /\ cap' <= MaxCap /\ buckets' = Buckets(cap') /\ count' = 0
      /\ old' = buckets /\ from' = 0
  BY DEF hashmap_grow
<1>3. item' \in Bucket /\ item' # Empty
  <2>1. [key |-> k, val |-> v].key = k /\ Empty.key = Missing
    BY DEF Empty
  <2> QED BY <2>1, HashmapAssumption DEF Bucket
<1>4. Types'
  <2>1. buckets' \in [Index' -> Bucket]
    BY <1>2 DEF Buckets, Index, Bucket
  <2> QED BY <1>1, <1>2, <1>3, <2>1 DEF Types
<1>5. Kept' = {} /\ Entries' = {} /\ Reachable' /\ Unique' /\ Counted'
  BY <1>2, <1>4, EmptyTable
<1>6. old_cap' = cap
  BY <1>1, <1>2 DEF old_cap, Types
<1>7. Left' = Entries
  <2>1. DOMAIN old' = Index /\ \A i \in Index : i >= from'
    BY <1>1, <1>2 DEF Types, Index
  <2>2. Left' = {i \in Index : buckets[i] # Empty}
    BY <1>2, <2>1 DEF Left
  <2> QED BY <1>1, <2>2, EntriesFilled DEF Filled
<1>8. Growing'
  <2>1. cap' = 2 * old_cap' /\ from' <= old_cap' /\ old' \in [0..(old_cap' - 1) -> Bucket]
    BY <1>1, <1>2, <1>6 DEF Types, Index
  <2>2. 2 * (count' + Cardinality(Left')) <= old_cap'
    <3>1. 2 * Cardinality(Entries) <= cap /\ Cardinality(Entries) \in Nat
      BY <1>1, EntriesFilled, FiniteTable DEF Counted
    <3> QED BY <1>2, <1>6, <1>7, <3>1
  <2> QED BY <1>3, <2>1, <2>2 DEF Growing
<1>9. Held' /\ Closing'
  <2>1. hole' = NoHole'
    BY <1>1 DEF NoHole
  <2> QED BY <2>1 DEF Held, Closing
<1>10. ASSUME Order PROVE Order' /\ Present' = Present
  <2>1. Unique
    BY <1>10 DEF Order
  <2>2. Fresh'
    BY <1>2, <1>5, <1>7, <2>1 DEF Unique, Fresh
  <2>3. Present' = Kept' \cup {old'[i] : i \in Left'}
    BY DEF Present, Kept
  <2>4. {old'[i] : i \in Left'} = Kept
    BY <1>2, <1>7 DEF Kept
  <2>5. Present' = Present
    BY <1>1, <1>5, <2>3, <2>4, NothingLeft
  <2> QED BY <1>5, <1>9, <2>2, <2>5 DEF Order
<1> QED BY <1>4, <1>5, <1>8, <1>9, <1>10 DEF Sound

\* What is known while the table grows.
LEMMA WhileGrowing ==
    ASSUME Sound, item # Empty
    PROVE  /\ cap = 2 * old_cap /\ from <= old_cap
           /\ old \in [0..(old_cap - 1) -> Bucket] /\ DOMAIN old = 0..(old_cap - 1)
           /\ 2 * (count + Cardinality(Left)) <= old_cap
           /\ cap \in Nat /\ cap >= 2 /\ old_cap \in Nat /\ from \in Nat /\ count \in Nat
           /\ hole = NoHole
           /\ IsFiniteSet(Left) /\ Cardinality(Left) \in Nat
<1>1. /\ cap = 2 * old_cap /\ from <= old_cap
      /\ old \in [0..(old_cap - 1) -> Bucket]
      /\ 2 * (count + Cardinality(Left)) <= old_cap
  BY DEF Sound, Growing
<1>2. /\ cap \in Nat /\ cap >= 2 /\ old_cap \in Nat /\ from \in Nat /\ count \in Nat
      /\ hole = NoHole /\ DOMAIN old = 0..(old_cap - 1)
  BY <1>1 DEF Sound, Types, old_cap, Held
<1>3. IsFiniteSet(0..(old_cap - 1)) /\ Left \subseteq 0..(old_cap - 1)
  BY <1>2, FS_Interval DEF Left
<1>4. IsFiniteSet(Left) /\ Cardinality(Left) \in Nat
  BY <1>3, FS_Subset, FS_CardinalityType
<1> QED BY <1>1, <1>2, <1>4

\* An empty one of the old buckets is passed over.
LEMMA SkipStep ==
    ASSUME Sound, Rehash, old[from] = Empty
    PROVE  Sound' /\ (Order => Order' /\ Present' = Present)
<1>1. /\ Types /\ Counted /\ Held /\ Growing
      /\ item # Empty /\ from < old_cap /\ from' = from + 1
      /\ UNCHANGED <<cap, hash, hole, buckets, count>> /\ UNCHANGED <<old, item>>
  BY DEF Sound, Rehash
<1>2. /\ cap = 2 * old_cap /\ from <= old_cap
      /\ old \in [0..(old_cap - 1) -> Bucket]
      /\ 2 * (count + Cardinality(Left)) <= old_cap
      /\ old_cap \in Nat /\ from \in Nat /\ old_cap' = old_cap /\ hole = NoHole
      /\ DOMAIN old = 0..(old_cap - 1)
  BY <1>1, WhileGrowing DEF old_cap
<1>3. Left' = Left
  BY <1>1, <1>2 DEF Left
<1>4. Entries' = Entries /\ Filled' = Filled /\ Index' = Index
  BY <1>1 DEF Entries, Filled, Index
<1>5. Types' /\ Counted'
  BY <1>1, <1>2, <1>4 DEF Types, Counted
<1>6. Held' /\ Closing'
  <2>1. hole' = NoHole'
    BY <1>1, <1>2 DEF NoHole
  <2> QED BY <2>1 DEF Held, Closing
<1>7. Growing'
  BY <1>1, <1>2, <1>3 DEF Growing
<1>8. ASSUME Order PROVE Order' /\ Present' = Present
  <2>1. Reachable' /\ Unique'
    BY <1>1, <1>4, <1>8 DEF Order, Reachable, Before, Steps, Home, Unique
  <2>2. Fresh'
    BY <1>1, <1>3, <1>4, <1>8 DEF Order, Fresh
  <2>3. Present' = Present
    BY <1>1, <1>3, <1>4 DEF Present
  <2> QED BY <1>6, <2>1, <2>2, <2>3 DEF Order
<1> QED BY <1>5, <1>6, <1>7, <1>8 DEF Sound

\* An entry of the old buckets gets its place in the new ones.
LEMMA RehashStep ==
    ASSUME Sound, Rehash, old[from] # Empty
    PROVE  Sound' /\ (Order => Order' /\ Present' = Present)
<1> DEFINE k == old[from].key
           v == old[from].val
<1>1. /\ Types /\ Counted /\ Held /\ Growing
      /\ item # Empty /\ from < old_cap /\ from' = from + 1
      /\ UNCHANGED <<cap, hash, hole>> /\ UNCHANGED <<old, item>>
  BY DEF Sound, Rehash
<1>2. /\ cap = 2 * old_cap /\ from <= old_cap
      /\ old \in [0..(old_cap - 1) -> Bucket]
      /\ 2 * (count + Cardinality(Left)) <= old_cap
      /\ cap \in Nat /\ old_cap \in Nat /\ from \in Nat /\ count \in Nat
      /\ hole = NoHole /\ DOMAIN old = 0..(old_cap - 1)
      /\ IsFiniteSet(Left) /\ Cardinality(Left) \in Nat
  BY <1>1, WhileGrowing
<1>3. old_cap' = old_cap
  BY <1>1 DEF old_cap
<1>4. from \in Left /\ from \in 0..(old_cap - 1)
  BY <1>1, <1>2 DEF Left
<1>5. k \in Key /\ v \in Value /\ old[from] = [key |-> k, val |-> v]
  <2>1. old[from] \in [key : Key, val : Value]
    BY <1>2, <1>4 DEF Bucket
  <2> QED BY <2>1
<1>6. hashmap_insert(k, v)
  BY DEF Rehash
<1>7. Left' = Left \ {from}
  <2>1. ASSUME NEW i \in DOMAIN old PROVE i >= from + 1 <=> (i >= from /\ i # from)
    BY <1>2
  <2> QED BY <1>1, <2>1 DEF Left
<1>8. /\ Cardinality(Left') = Cardinality(Left) - 1 /\ Cardinality(Left) >= 1
      /\ Cardinality(Left') \in Nat
  <2>1. Cardinality(Left \ {from}) = Cardinality(Left) - 1
    BY <1>2, <1>4, FS_RemoveElement
  <2>2. IsFiniteSet(Left \ {from})
    BY <1>2, FS_Subset
  <2>3. Cardinality(Left \ {from}) \in Nat
    BY <2>2, FS_CardinalityType
  <2> QED BY <1>2, <1>7, <2>1, <2>3
<1>9. 2 * (count + 1) <= cap
  BY <1>2, <1>8
<1>10. Counted' /\ count' \in Nat /\ count' <= count + 1
  BY <1>1, <1>2, <1>5, <1>6, <1>9, InsertCounted
<1>11. /\ Index' = Index /\ buckets' \in [Index -> Bucket]
       /\ hashmap_bucket(k) \in Index /\ buckets'[hashmap_bucket(k)].key = k
       /\ \A i \in Index : i # hashmap_bucket(k) => buckets'[i] = buckets[i]
       /\ Entries' = Entries \cup {hashmap_bucket(k)}
  <2>1. [key |-> k, val |-> v].key = k
    OBVIOUS
  <2> QED BY <1>1, <1>2, <1>5, <1>6, <2>1, Inserted
<1>12. Types'
  BY <1>1, <1>2, <1>10, <1>11 DEF Types
<1>13. Growing'
  <2>1. 2 * (count' + Cardinality(Left')) <= old_cap
    BY <1>2, <1>8, <1>10
  <2> QED BY <1>1, <1>2, <1>3, <2>1 DEF Growing
<1>14. Held' /\ Closing'
  <2>1. hole' = NoHole'
    BY <1>1, <1>2 DEF NoHole
  <2> QED BY <2>1 DEF Held, Closing
<1>15. ASSUME Order PROVE Order' /\ Present' = Present
  <2>1. /\ Reachable /\ Unique
        /\ \A i, j \in Left : old[i].key = old[j].key => i = j
        /\ \A i \in Entries, j \in Left : buckets[i].key # old[j].key
    BY <1>1, <1>15 DEF Order, Fresh
  <2>2. Reachable' /\ Unique'
    BY <1>1, <1>2, <1>5, <1>6, <2>1, InsertOrdered
  <2>3. Fresh'
    <3>1. \A i, j \in Left' : old'[i].key = old'[j].key => i = j
      BY <1>1, <1>7, <2>1
    <3>2. ASSUME NEW i \in Entries', NEW j \in Left'
          PROVE  buckets'[i].key # old'[j].key
      <4>1. j \in Left /\ j # from /\ old'[j] = old[j] /\ old[j].key # k
        BY <1>1, <1>4, <1>7, <2>1
      <4>2. CASE i = hashmap_bucket(k)
        BY <1>11, <4>1, <4>2
      <4>3. CASE i # hashmap_bucket(k)
        <5>1. i \in Entries /\ buckets'[i] = buckets[i]
          BY <1>11, <4>3 DEF Entries
        <5> QED BY <2>1, <4>1, <5>1
      <4> QED BY <4>2, <4>3
    <3> QED BY <3>1, <3>2 DEF Fresh
  <2>4. Present' = Present
    <3>1. Kept' = With(Kept, k, v)
      BY <1>1, <1>2, <1>5, <1>6, <2>1, InsertKept
    <3>2. \A e \in Kept : e.key # k
      BY <1>4, <2>1 DEF Kept
    <3>3. Kept' = Kept \cup {old[from]}
      BY <1>5, <3>1, <3>2 DEF With
    <3>4. {old'[i] : i \in Left'} \cup {old[from]} = {old[i] : i \in Left}
      BY <1>1, <1>4, <1>7
    <3> QED BY <3>3, <3>4 DEF Present, Kept
  <2> QED BY <1>14, <2>2, <2>3, <2>4 DEF Order
<1> QED BY <1>10, <1>12, <1>13, <1>14, <1>15 DEF Sound

\* The entry that hashmap_set was called with gets its place once the table has grown.
LEMMA GrownStep ==
    ASSUME Sound, Grown
    PROVE  /\ item.key \in Key /\ item.val \in Value /\ hole = NoHole
           /\ Sound' /\ Present = Kept
           /\ Order => Order' /\ Present' = With(Present, item.key, item.val)
<1>1. /\ Types /\ Counted /\ Held /\ Growing
      /\ item # Empty /\ from = old_cap /\ hashmap_insert(item.key, item.val)
      /\ UNCHANGED <<cap, hash, hole>>
      /\ old' = <<>> /\ from' = 0 /\ item' = Empty
  BY DEF Sound, Grown
<1>2. /\ cap = 2 * old_cap /\ DOMAIN old = 0..(old_cap - 1)
      /\ 2 * (count + Cardinality(Left)) <= old_cap
      /\ cap \in Nat /\ cap >= 2 /\ old_cap \in Nat /\ count \in Nat
      /\ hole = NoHole
  BY <1>1, WhileGrowing
<1>3. Left = {}
  <2>1. \A i \in DOMAIN old : ~(i >= from)
    BY <1>1, <1>2
  <2> QED BY <2>1 DEF Left
<1>4. Cardinality(Left) = 0
  BY <1>3, FS_EmptySet
<1>5. 2 * (count + 1) <= cap
  BY <1>2, <1>4
<1>6. item.key \in Key /\ item.val \in Value
  <2>1. item \in [key : Key, val : Value]
    BY <1>1 DEF Types, Bucket
  <2> QED BY <2>1
<1>7. Counted' /\ count' \in Nat
  BY <1>1, <1>2, <1>5, <1>6, InsertCounted
<1>8. Types'
  <2>1. Index' = Index /\ buckets' \in [Index -> Bucket]
    BY <1>1, <1>2, <1>6, Inserted
  <2> QED BY <2>1, <1>1, <1>7 DEF Types, Bucket
<1>9. Held' /\ Closing' /\ Growing'
  <2>1. hole' = NoHole'
    BY <1>1, <1>2 DEF NoHole
  <2> QED BY <1>1, <2>1 DEF Held, Closing, Growing
<1>10. Present = Kept
  BY <1>3 DEF Present, Kept
<1>11. Present' = Kept'
  <2>1. DOMAIN old' = {}
    BY <1>1
  <2>2. Left' = {}
    BY <2>1 DEF Left
  <2> QED BY <2>2 DEF Present, Kept
<1>12. ASSUME Order PROVE Order' /\ Present' = With(Present, item.key, item.val)
  <2>1. Reachable /\ Unique
    BY <1>12 DEF Order
  <2>2. Reachable' /\ Unique'
    BY <1>1, <1>2, <1>6, <2>1, InsertOrdered
  <2>3. Fresh'
    BY <1>1 DEF Fresh
  <2>4. Kept' = With(Kept, item.key, item.val)
    BY <1>1, <1>2, <1>6, <2>1, InsertKept
  <2> QED BY <1>9, <1>10, <1>11, <2>2, <2>3, <2>4 DEF Order
<1> QED BY <1>2, <1>6, <1>7, <1>8, <1>9, <1>10, <1>12 DEF Sound

\* hashmap_take of a key that is there: its bucket becomes the hole.
LEMMA TakeStep ==
    ASSUME Sound, Idle, NEW k \in Key, hashmap_take(k), At(k) # Empty
    PROVE  Sound' /\ (Order /\ Apart => Order' /\ Present' = Without(Present, k))
<1> DEFINE p == hashmap_bucket(k)
<1>1. Types /\ Counted /\ Growing /\ hole = NoHole /\ item = Empty
  BY DEF Sound, Idle
<1>2. /\ hole' = p /\ count' = count - 1
      /\ UNCHANGED <<buckets, cap, hash>> /\ UNCHANGED <<old, from, item>>
  BY DEF hashmap_take, growing
<1>3. p \in Index /\ buckets[p] # Empty /\ buckets[p].key = k /\ Index' = Index
  BY <1>1, <1>2, Probe DEF At, Index
<1>4. Entries = Filled /\ Filled' = Filled /\ p \in Filled /\ Entries' = Filled \ {p}
  BY <1>1, <1>2, <1>3, EntriesFilled DEF Filled, Entries
<1>5. count' = Cardinality(Entries') /\ count' \in Nat
  <2>1. IsFiniteSet(Filled)
    BY <1>1, FiniteTable
  <2>2. Cardinality(Filled \ {p}) = Cardinality(Filled) - 1
    BY <1>4, <2>1, FS_RemoveElement
  <2>3. IsFiniteSet(Filled \ {p})
    BY <2>1, FS_Subset
  <2>4. Cardinality(Filled \ {p}) \in Nat
    BY <2>3, FS_CardinalityType
  <2> QED BY <1>1, <1>2, <1>4, <2>2, <2>4 DEF Counted
<1>6. Types'
  BY <1>1, <1>2, <1>3, <1>5 DEF Types
<1>7. Counted'
  BY <1>1, <1>2, <1>4, <1>5 DEF Counted
<1>8. Held' /\ Growing' /\ Left' = {}
  BY <1>1, <1>2, <1>3, NothingLeft DEF Held, Growing, Left
<1>9. ASSUME Order, Apart PROVE Order' /\ Present' = Without(Present, k)
  <2>1. Reachable /\ Unique
    BY <1>9 DEF Order
  <2>2. Unique'
    BY <1>2, <1>4, <2>1 DEF Unique
  <2>3. Reachable'
    BY <1>2, <1>3, <1>4, <2>1 DEF Reachable, Before, Steps, Home
  <2>4. Closing' /\ Fresh'
    BY <1>1, <1>2, <1>9 DEF Closing, Fresh, Apart
  <2>5. Present = {buckets[i] : i \in Filled} /\ Present' = {buckets[i] : i \in Filled \ {p}}
    BY <1>1, <1>2, <1>4, <1>8, NothingLeft DEF Present, Kept
  <2>6. \A i \in Filled : i # p => buckets[i].key # k
    BY <1>3, <1>4, <2>1 DEF Unique
  <2>7. Present' = Without(Present, k)
    BY <1>3, <1>4, <2>5, <2>6 DEF Without
  <2> QED BY <2>2, <2>3, <2>4, <2>7 DEF Order
<1> QED BY <1>6, <1>7, <1>8, <1>9 DEF Sound

\* hashmap_clear: there is nothing left, or there was nothing.
LEMMA ClearStep ==
    ASSUME Sound, Idle, hashmap_clear
    PROVE  Sound' /\ Order' /\ Present' = {}
<1>1. Types /\ Counted /\ Growing /\ hole = NoHole /\ item = Empty
  BY DEF Sound, Idle
<1>2. /\ buckets' = IF count = 0 THEN buckets ELSE Buckets(cap)
      /\ count' = 0
      /\ UNCHANGED <<cap, hash, hole>> /\ UNCHANGED <<old, from, item>>
  BY DEF hashmap_clear, growing
<1>3. Index' = Index
  BY <1>2 DEF Index
<1>4. Types'
  <2>1. Buckets(cap) \in [Index -> Bucket]
    BY DEF Buckets, Index, Bucket
  <2> QED BY <1>1, <1>2, <1>3, <2>1 DEF Types
<1>5. Held' /\ Closing' /\ Fresh' /\ Growing' /\ Left' = {}
  BY <1>1, <1>2, NothingLeft DEF Held, Closing, Fresh, Growing, Left
<1>6. Entries' = {} /\ Counted'
  <2>1. CASE count # 0
    BY <1>2, <1>4, <2>1, EmptyTable
  <2>2. CASE count = 0
    <3>1. buckets' = buckets /\ count' = count /\ Entries' = Entries /\ Filled' = Filled
      BY <1>2, <1>3, <2>2 DEF Entries, Filled
    <3>2. Counted'
      BY <1>1, <1>2, <3>1 DEF Counted
    <3>3. Entries = {}
      BY <1>1, <2>2, FiniteTable, FS_EmptySet DEF Counted
    <3> QED BY <3>1, <3>2, <3>3
  <2> QED BY <2>1, <2>2
<1>7. Reachable' /\ Unique'
  BY <1>6 DEF Reachable, Unique
<1>8. Present' = {}
  BY <1>5, <1>6 DEF Present
<1> QED BY <1>4, <1>5, <1>6, <1>7, <1>8 DEF Sound, Order

\* Steps that only return something.
LEMMA LookStep ==
    ASSUME Sound, UNCHANGED <<buckets, cap, count, hash, hole, growing>>
    PROVE  Sound' /\ Present' = Present /\ (Order => Order')
<1>1. UNCHANGED <<buckets, cap, count, hash, hole>> /\ UNCHANGED <<old, from, item>>
  BY DEF growing
<1>2. Index' = Index /\ Entries' = Entries /\ Filled' = Filled /\ Left' = Left /\ old_cap' = old_cap
  BY <1>1 DEF Index, Entries, Filled, Left, old_cap
<1>3. Sound'
  BY <1>1, <1>2 DEF Sound, Types, Counted, Held, Growing
<1>4. ASSUME Order PROVE Order'
  <2>1. Unique' /\ Closing' /\ Fresh'
    BY <1>1, <1>2, <1>4 DEF Order, Unique, Closing, Fresh, Apart
  <2>2. Reachable'
    BY <1>1, <1>2, <1>4 DEF Order, Reachable, Before, Steps, Home
  <2> QED BY <2>1, <2>2 DEF Order
<1>5. Present' = Present
  BY <1>1, <1>2 DEF Present
<1> QED BY <1>3, <1>4, <1>5

-----------------------------------------------------------------------------
(* The invariant *)

\* hashmap_init: the table is empty and in order.
LEMMA InitStep ==
    ASSUME Init
    PROVE  HInv /\ Present = {}
<1>1. /\ cap = BaseCap /\ buckets = Buckets(BaseCap) /\ count = 0
      /\ hash \in [Key -> Nat] /\ hole = NoHole
      /\ old = <<>> /\ from = 0 /\ item = Empty /\ across = FALSE
  BY HashmapAssumption DEF Init
<1>2. Types
  BY <1>1, HashmapAssumption DEF Types, Buckets, Index, Bucket
<1>3. \A i \in Index : buckets[i] = Empty
  BY <1>1 DEF Buckets, Index
<1>4. Entries = {} /\ Filled = {}
  BY <1>3 DEF Entries, Filled
<1>5. Cardinality({}) = 0
  BY FS_EmptySet
<1>6. Counted
  BY <1>1, <1>2, <1>4, <1>5 DEF Counted, Types
<1>7. Held /\ Growing /\ Order
  BY <1>1, <1>4 DEF Held, Growing, Order, Reachable, Unique, Closing, Fresh
<1>8. Present = {}
  BY <1>1, <1>4, <1>7, NothingLeft DEF Kept
<1> QED BY <1>1, <1>2, <1>6, <1>7, <1>8 DEF HInv, Sound

\* Every step keeps count of the entries, and their order, unless one is taken across the
\* ends.
LEMMA NextStep ==
    ASSUME HInv, [Next]_vars
    PROVE  HInv'
<1> DEFINE Keeps == Sound' /\ (Order => Order') /\ across' = across
<1>1. Sound /\ across \in BOOLEAN /\ (~across => Order)
  BY DEF HInv
<1>2. Keeps => HInv'
  BY <1>1 DEF HInv
<1>3. ASSUME Idle, NEW k \in Key, NEW v \in Value, hashmap_set(k, v) PROVE Keeps
  <2>1. CASE /\ hashmap_insert(k, v) /\ count < MaxItems(cap)
             /\ UNCHANGED <<cap, hash, hole, growing, across>>
    BY <1>1, <1>3, <2>1, SetStep
  <2>2. CASE hashmap_grow /\ item' = [key |-> k, val |-> v] /\ UNCHANGED <<hash, hole, across>>
    BY <1>1, <1>3, <2>2, GrowStep
  <2> QED BY <1>3, <2>1, <2>2 DEF hashmap_set
<1>4. ASSUME NEW k \in Key, hashmap_get(k) \/ hashmap_has(k) PROVE Keeps
  BY <1>1, <1>4, LookStep DEF hashmap_get, hashmap_has
<1>5. ASSUME Idle, NEW k \in Key, hashmap_take(k) PROVE HInv'
  <2>1. CASE At(k) # Empty
    <3>1. across' = (across \/ ~Apart)
      BY <1>5, <2>1 DEF hashmap_take
    <3>2. ~across' => ~across /\ Apart
      BY <3>1
    <3> QED BY <1>1, <1>5, <2>1, <3>1, <3>2, TakeStep DEF HInv
  <2>2. CASE At(k) = Empty
    <3>1. UNCHANGED <<buckets, cap, count, hash, hole, growing, across>>
      BY <1>5, <2>2 DEF hashmap_take
    <3> QED BY <1>1, <1>2, <3>1, LookStep
  <2> QED BY <2>1, <2>2
<1>6. ASSUME Idle, hashmap_clear PROVE HInv'
  <2>1. across' = FALSE
    BY <1>6 DEF hashmap_clear
  <2> QED BY <1>1, <1>6, <2>1, ClearStep DEF HInv
<1>7. ASSUME hashmap_iter PROVE Keeps
  BY <1>1, <1>7, LookStep DEF hashmap_iter
<1>8. ASSUME Rehash PROVE Keeps
  BY <1>1, <1>8, SkipStep, RehashStep DEF Rehash
<1>9. ASSUME Grown PROVE Keeps
  BY <1>1, <1>9, GrownStep DEF Grown
<1>10. ASSUME CloseHole PROVE Keeps
  BY <1>1, <1>10, MoveSound, MoveOrdered, CloseSound, CloseOrdered DEF CloseHole
<1>11. ASSUME UNCHANGED vars PROVE Keeps
  BY <1>1, <1>11, LookStep DEF vars
<1> QED BY <1>2, <1>3, <1>4, <1>5, <1>6, <1>7, <1>8, <1>9, <1>10, <1>11 DEF Next

\* The entries are counted whatever is taken, and in order unless one was taken across
\* the ends.
THEOREM HashmapInvariance == Spec => []HInv
<1>1. Init => HInv
  BY InitStep
<1>2. HInv /\ [Next]_vars => HInv'
  BY NextStep
<1> QED BY <1>1, <1>2, PTL DEF Spec

\* Findable: whatever the hash function and however the table has grown, every probe
\* ends, and as long as nothing was taken across the ends since the map was last cleared,
\* a probe for a key in the table finds it.
THEOREM AlwaysFindable == Spec => []Findable
<1>1. HInv => Findable
  <2> SUFFICES ASSUME HInv, Idle
               PROVE  /\ count = Cardinality(Entries) /\ 2 * count <= cap
                      /\ across \/ \A i \in Entries : hashmap_bucket(buckets[i].key) = i
    BY DEF Findable
  <2>1. Types /\ Counted /\ hole = NoHole /\ (~across => Reachable /\ Unique)
    BY DEF HInv, Sound, Order, Idle
  <2>2. count = Cardinality(Entries) /\ 2 * count <= cap
    BY <2>1, EntriesFilled DEF Counted
  <2>3. across \/ \A i \in Entries : hashmap_bucket(buckets[i].key) = i
    BY <2>1, Found
  <2> QED BY <2>2, <2>3
<1> QED BY HashmapInvariance, <1>1, PTL

-----------------------------------------------------------------------------
(* The refinement of KeyedMap *)

\* A set of entries that has each key once.
Once(S) ==
    /\ S \subseteq [key : Key, val : Value]
    /\ \A e, f \in S : e.key = f.key => e = f

\* The entries of the table and of the old buckets have each key once.
LEMMA PresentOnce ==
    ASSUME Sound, Order
    PROVE  Once(Present)
<1>1. Types /\ Unique /\ Growing
  BY DEF Sound, Order
<1>2. \A i \in Entries : buckets[i] \in [key : Key, val : Value]
  BY <1>1 DEF Types, Entries, Bucket
<1>3. CASE item = Empty
  <2>1. Present = Kept
    BY <1>1, <1>3, NothingLeft
  <2> QED BY <1>1, <1>2, <2>1 DEF Once, Kept, Unique
<1>4. CASE item # Empty
  <2>1. /\ old \in [0..(old_cap - 1) -> Bucket]
        /\ \A i, j \in Left : old[i].key = old[j].key => i = j
        /\ \A i \in Entries, j \in Left : buckets[i].key # old[j].key
    BY <1>1, <1>4 DEF Growing, Order, Fresh
  <2>2. \A i \in Left : old[i] \in [key : Key, val : Value]
    BY <2>1 DEF Left, Bucket
  <2>3. Present \subseteq [key : Key, val : Value]
    BY <1>2, <2>2 DEF Present
  <2>4. ASSUME NEW e \in Present, NEW f \in Present, e.key = f.key PROVE e = f
    <3>1. CASE \E i, j \in Entries : e = buckets[i] /\ f = buckets[j]
      BY <1>1, <2>4, <3>1 DEF Unique
    <3>2. CASE \E i, j \in Left : e = old[i] /\ f = old[j]
      BY <2>1, <2>4, <3>2
    <3>3. CASE \E i \in Entries, j \in Left : \/ e = buckets[i] /\ f = old[j]
                                              \/ f = buckets[i] /\ e = old[j]
      BY <2>1, <2>4, <3>3
    <3> QED BY <3>1, <3>2, <3>3 DEF Present
  <2> QED BY <2>3, <2>4 DEF Once
<1> QED BY <1>3, <1>4

\* The value of a key is that of the entry that has it.
LEMMA ValueOf ==
    ASSUME NEW S, Once(S), NEW k
    PROVE  /\ \A e \in S : e.key = k => ValueIn(S, k) = e.val
           /\ (\A e \in S : e.key # k) => ValueIn(S, k) = Missing
BY DEF Once, ValueIn

\* Putting an entry in changes the value of its key only.
LEMMA ValueWith ==
    ASSUME NEW S, Once(S), NEW k \in Key, NEW v \in Value, NEW j \in Key
    PROVE  ValueIn(With(S, k, v), j) = IF j = k THEN v ELSE ValueIn(S, j)
<1> DEFINE x == [key |-> k, val |-> v]
           T == With(S, k, v)
<1>1. x.key = k /\ x.val = v /\ x \in [key : Key, val : Value]
  OBVIOUS
<1>2. Once(T)
  BY <1>1 DEF Once, With
<1>3. CASE j = k
  <2>1. x \in T
    BY DEF With
  <2> QED BY <1>1, <1>2, <1>3, <2>1, ValueOf
<1>4. CASE j # k
  <2>1. \A e : e.key = j => (e \in T <=> e \in S)
    BY <1>1, <1>4 DEF With
  <2>2. CASE \E e \in S : e.key = j
    BY <1>2, <1>4, <2>1, <2>2, ValueOf
  <2>3. CASE \A e \in S : e.key # j
    BY <1>2, <1>4, <2>1, <2>3, ValueOf
  <2> QED BY <2>2, <2>3
<1> QED BY <1>3, <1>4

\* Taking an entry out changes the value of its key only.
LEMMA ValueWithout ==
    ASSUME NEW S, Once(S), NEW k \in Key, NEW j \in Key
    PROVE  ValueIn(Without(S, k), j) = IF j = k THEN Missing ELSE ValueIn(S, j)
<1> DEFINE T == Without(S, k)
<1>1. Once(T)
  BY DEF Once, Without
<1>2. CASE j = k
  <2>1. \A e \in T : e.key # j
    BY <1>2 DEF Without
  <2> QED BY <1>1, <1>2, <2>1, ValueOf
<1>3. CASE j # k
  <2>1. \A e : e.key = j => (e \in T <=> e \in S)
    BY <1>3 DEF Without
  <2>2. CASE \E e \in S : e.key = j
    BY <1>1, <1>3, <2>1, <2>2, ValueOf
  <2>3. CASE \A e \in S : e.key # j
    BY <1>1, <1>3, <2>1, <2>3, ValueOf
  <2> QED BY <2>2, <2>3
<1> QED BY <1>2, <1>3

\* The keys the abstract map has a value for are the ones of the entries.
LEMMA StoredKeys ==
    ASSUME Sound, Order, NEW k \in Key
    PROVE  /\ Contents[k] = ValueIn(Present, k)
           /\ k \in Map!Stored(Contents) <=> \E e \in Present : e.key = k
<1>1. Contents[k] = ValueIn(Present, k)
  BY DEF Contents
<1>2. CASE \E e \in Present : e.key = k
  <2>1. PICK e \in Present : e.key = k
    BY <1>2
  <2>2. Contents[k] = e.val /\ e.val \in Value
    BY <1>1, <2>1, PresentOnce, ValueOf DEF Once
  <2> QED BY <1>1, <2>1, <2>2, HashmapAssumption DEF Map!Stored
<1>3. CASE \A e \in Present : e.key # k
  BY <1>1, <1>3, PresentOnce, ValueOf DEF Map!Stored
<1> QED BY <1>2, <1>3

\* What a probe finds is what the abstract map has.
LEMMA LookedUp ==
    ASSUME Sound, Order, hole = NoHole, Present = Kept, NEW k \in Key
    PROVE  /\ (At(k) # Empty) <=> (k \in Map!Stored(Contents))
           /\ At(k) # Empty => At(k).val = Contents[k]
           /\ At(k) = Empty => Contents[k] = Missing
<1>1. Types /\ Reachable /\ Unique /\ Counted
  BY DEF Sound, Order
<1>2. /\ At(k) = Empty => \A e \in Present : e.key # k
      /\ At(k) # Empty => At(k) \in Present /\ At(k).key = k
  BY <1>1, ProbeKept
<1>3. Contents[k] = ValueIn(Present, k) /\ (k \in Map!Stored(Contents) <=> \E e \in Present : e.key = k)
  BY StoredKeys
<1> QED BY <1>2, <1>3, PresentOnce, ValueOf

\* A new entry is a Set of the abstract map, and what is returned says whether it had one.
LEMMA SetMapped ==
    ASSUME Sound, Order, hole = NoHole, Present = Kept, NEW k \in Key, NEW v \in Value,
           Present' = With(Present, k, v), ret' = <<"set", At(k) # Empty>>
    PROVE  Map!Set(k, v)
<1>1. Contents' = [Contents EXCEPT ![k] = v]
  <2>1. ASSUME NEW j \in Key
        PROVE  ValueIn(Present', j) = IF j = k THEN v ELSE ValueIn(Present, j)
    BY PresentOnce, ValueWith
  <2>2. Contents' = [j \in Key |-> ValueIn(Present', j)]
    BY DEF Contents, ValueIn
  <2> QED BY <2>1, <2>2 DEF Contents
<1>2. (At(k) # Empty) <=> (k \in Map!Stored(Contents))
  BY LookedUp
<1>3. (At(k) # Empty) = (k \in Map!Stored(Contents))
  BY <1>2
<1> QED BY <1>1, <1>3 DEF Map!Set

\* hashmap_iter meets every entry once.
LEMMA IterMapped ==
    ASSUME Sound, Order, Idle, hashmap_iter
    PROVE  Map!Iterate
<1>1. /\ Types /\ Unique /\ Counted /\ hole = NoHole /\ item = Empty /\ Growing
      /\ Present = Kept
  BY NothingLeft DEF Sound, Order, Idle
<1>2. Entries = {i \in Index : buckets[i] # Empty} /\ IsFiniteSet(Entries) /\ Cardinality(Entries) = count
  BY <1>1, EntriesFilled, FiniteTable DEF Filled, Counted
<1>3. Walked = Entries
  <2>1. CASE count = 0
    BY <1>2, <2>1, FS_EmptySet DEF Walked
  <2>2. CASE count # 0
    BY <1>2, <2>2 DEF Walked
  <2> QED BY <2>1, <2>2
<1> DEFINE K == Map!Stored(Contents)
<1>4. \A i \in Entries : buckets[i].key \in K /\ buckets[i].val = Contents[buckets[i].key]
  <2> SUFFICES ASSUME NEW i \in Entries
               PROVE  buckets[i].key \in K /\ buckets[i].val = Contents[buckets[i].key]
    OBVIOUS
  <2>1. buckets[i] \in Present /\ buckets[i].key \in Key
    BY <1>1, PresentOnce DEF Kept, Once
  <2> QED BY <2>1, StoredKeys, PresentOnce, ValueOf
<1>5. \A k \in K : \E i \in Entries : buckets[i].key = k
  <2> SUFFICES ASSUME NEW k \in K
               PROVE  \E i \in Entries : buckets[i].key = k
    OBVIOUS
  <2>1. k \in Key
    BY DEF Map!Stored
  <2>2. \E e \in Present : e.key = k
    BY <2>1, StoredKeys
  <2> QED BY <1>1, <2>2 DEF Kept
<1>6. Cardinality(K) = Cardinality(Entries)
  <2> DEFINE f == [i \in Entries |-> buckets[i].key]
  <2>1. f \in [Entries -> K] /\ \A i, j \in Entries : f[i] = f[j] => i = j
    BY <1>1, <1>4 DEF Unique
  <2>2. \A k \in K : \E i \in Entries : f[i] = k
    BY <1>5
  <2>3. f \in Bijection(Entries, K)
    BY <2>1, <2>2 DEF Bijection, Injection, Surjection, IsInjective
  <2> QED BY <1>2, <2>3, FS_Bijection DEF ExistsBijection
<1>7. {<<buckets[i].key, buckets[i].val>> : i \in Walked} = {<<k, Contents[k]>> : k \in K}
  <2>1. ASSUME NEW i \in Entries
        PROVE  <<buckets[i].key, buckets[i].val>> \in {<<k, Contents[k]>> : k \in K}
    BY <1>4
  <2>2. ASSUME NEW k \in K
        PROVE  <<k, Contents[k]>> \in {<<buckets[i].key, buckets[i].val>> : i \in Entries}
    BY <1>4, <1>5
  <2> QED BY <1>3, <2>1, <2>2
<1>8. Contents' = Contents
  <2>1. Present' = Present
    BY LookStep DEF hashmap_iter
  <2> QED BY <2>1 DEF Contents, ValueIn
<1>9. ret' = <<"iter", Cardinality(K), {<<k, Contents[k]>> : k \in K}>>
  BY <1>3, <1>6, <1>7 DEF hashmap_iter
<1>10. Map!Cardinality(K) = Cardinality(K)
  BY Zenon DEF Map!Cardinality, Cardinality
<1> QED BY <1>8, <1>9, <1>10 DEF Map!Iterate

\* hashmap_take takes the entry of its key out, if there is one.
LEMMA TakeMapped ==
    ASSUME Sound, Order, Idle, NEW k \in Key, hashmap_take(k), Apart \/ At(k) = Empty
    PROVE  Map!Take(k)
<1>1. hole = NoHole /\ Present = Kept
  BY NothingLeft DEF Idle, Sound
<1>2. CASE At(k) # Empty
  <2>1. Present' = Without(Present, k)
    BY <1>2, TakeStep
  <2>2. ASSUME NEW j \in Key
        PROVE  ValueIn(Present', j) = IF j = k THEN Missing ELSE ValueIn(Present, j)
    BY <2>1, PresentOnce, ValueWithout
  <2>3. Contents' = [j \in Key |-> ValueIn(Present', j)]
    BY DEF Contents, ValueIn
  <2>4. Contents' = [Contents EXCEPT ![k] = Missing]
    BY <2>2, <2>3 DEF Contents
  <2>5. ret' = <<"take", Contents[k]>>
    BY <1>1, <1>2, LookedUp DEF hashmap_take
  <2> QED BY <2>4, <2>5 DEF Map!Take
<1>3. CASE At(k) = Empty
  <2>1. UNCHANGED <<buckets, cap, count, hash, hole, growing>> /\ ret' = <<"take", Missing>>
    BY <1>3 DEF hashmap_take
  <2>2. Present' = Present
    BY <2>1, LookStep
  <2>3. Contents' = Contents
    BY <2>2 DEF Contents, ValueIn
  <2>4. Contents[k] = Missing
    BY <1>1, <1>3, LookedUp
  <2>5. Contents = [Contents EXCEPT ![k] = Missing]
    BY <2>4 DEF Contents
  <2> QED BY <2>1, <2>3, <2>4, <2>5 DEF Map!Take
<1> QED BY <1>2, <1>3

\* hashmap_clear leaves a map without a key, whatever there was before.
LEMMA ClearMapped ==
    ASSUME Sound, Idle, hashmap_clear
    PROVE  Map!Clear
<1>1. Present' = {}
  BY ClearStep
<1>2. Contents' = [k \in Key |-> Missing]
  BY <1>1 DEF Contents, ValueIn
<1> QED BY <1>2 DEF hashmap_clear, Map!Clear, Map!Clean

\* Every step is a step of the abstract map or none, unless an entry was or is taken
\* across the ends.
LEMMA StepMapped ==
    ASSUME Sound, Order, ~across', [Next]_vars
    PROVE  [Map!Next]_<<Contents, ret>>
<1> DEFINE Same == Contents' = Contents /\ ret' = ret
<1>1. Present' = Present => Contents' = Contents
  BY DEF Contents, ValueIn
<1>2. Idle => hole = NoHole /\ Present = Kept
  BY NothingLeft DEF Idle, Sound
<1>3. ASSUME Idle, NEW k \in Key, NEW v \in Value, hashmap_set(k, v)
      PROVE  Map!Set(k, v) \/ Same
  <2>1. CASE /\ hashmap_insert(k, v) /\ count < MaxItems(cap) /\ UNCHANGED <<cap, hash, hole, growing>>
             /\ ret' = <<"set", buckets[hashmap_bucket(k)] # Empty>>
    <3>1. Present' = With(Present, k, v)
      BY <1>3, <2>1, SetStep
    <3> QED BY <1>2, <1>3, <2>1, <3>1, SetMapped DEF At
  <2>2. CASE hashmap_grow /\ item' = [key |-> k, val |-> v] /\ UNCHANGED <<hash, hole, ret>>
    BY <1>1, <1>3, <2>2, GrowStep
  <2> QED BY <1>3, <2>1, <2>2 DEF hashmap_set
<1>4. ASSUME Idle, NEW k \in Key, hashmap_get(k) PROVE Map!Get(k)
  <2>1. Contents' = Contents
    BY <1>1, <1>4, LookStep DEF hashmap_get
  <2> QED BY <1>2, <1>4, <2>1, LookedUp DEF hashmap_get, Map!Get
<1>5. ASSUME Idle, NEW k \in Key, hashmap_has(k) PROVE Map!Has(k)
  <2>1. Contents' = Contents
    BY <1>1, <1>5, LookStep DEF hashmap_has
  <2>2. (At(k) # Empty) <=> (k \in Map!Stored(Contents))
    BY <1>2, <1>5, LookedUp
  <2>3. (At(k) # Empty) = (k \in Map!Stored(Contents))
    BY <2>2
  <2> QED BY <1>5, <2>1, <2>3 DEF hashmap_has, Map!Has
<1>6. ASSUME Idle, NEW k \in Key, hashmap_take(k) PROVE Map!Take(k)
  <2>1. Apart \/ At(k) = Empty
    BY <1>6 DEF hashmap_take
  <2> QED BY <1>6, <2>1, TakeMapped
<1>7. ASSUME Idle, hashmap_clear PROVE Map!Clear
  BY <1>7, ClearMapped
<1>8. ASSUME Idle, hashmap_iter PROVE Map!Iterate
  BY <1>8, IterMapped
<1>9. ASSUME Rehash PROVE Same
  BY <1>1, <1>9, SkipStep, RehashStep DEF Rehash
<1>10. ASSUME Grown PROVE \E k \in Key, v \in Value : Map!Set(k, v)
  <2>1. /\ item.key \in Key /\ item.val \in Value /\ Present = Kept /\ hole = NoHole
        /\ Present' = With(Present, item.key, item.val)
    BY <1>10, GrownStep
  <2>2. ret' = <<"set", At(item.key) # Empty>>
    BY <1>10 DEF Grown, At
  <2>3. Map!Set(item.key, item.val)
    BY <2>1, <2>2, SetMapped
  <2> QED BY <2>1, <2>3
<1>11. ASSUME CloseHole PROVE Same
  <2>1. {buckets'[i] : i \in Entries'} = {buckets[i] : i \in Entries}
    BY <1>11, MoveOrdered, CloseOrdered
  <2>2. Left' = Left /\ old' = old
    BY <1>11 DEF CloseHole, Left, growing
  <2>3. Present' = Present
    BY <2>1, <2>2 DEF Present
  <2> QED BY <1>1, <1>11, <2>3 DEF CloseHole
<1>12. ASSUME UNCHANGED vars PROVE Same
  BY <1>1, <1>12, LookStep DEF vars
<1> QED BY <1>3, <1>4, <1>5, <1>6, <1>7, <1>8, <1>9, <1>10, <1>11, <1>12 DEF Next, Map!Next

\* What was taken across the ends is forgotten when the map is cleared only.
LEMMA AcrossStays ==
    ASSUME across, ~across', [Next]_vars
    PROVE  Idle /\ hashmap_clear
<1>1. ASSUME NEW k \in Key, NEW v \in Value PROVE hashmap_set(k, v) => across' = across
  BY DEF hashmap_set
<1>2. ASSUME NEW k \in Key PROVE hashmap_get(k) \/ hashmap_has(k) => across' = across
  BY DEF hashmap_get, hashmap_has
<1>3. ASSUME NEW k \in Key PROVE hashmap_take(k) => across'
  BY DEF hashmap_take
<1>4. hashmap_iter \/ Rehash \/ Grown \/ CloseHole \/ UNCHANGED vars => across' = across
  BY DEF hashmap_iter, Rehash, Grown, CloseHole, vars
<1> QED BY <1>1, <1>2, <1>3, <1>4 DEF Next

\* IsMap: the hash map is a map.  What probing, growing and closing holes do to the
\* buckets is invisible, and every operation returns what it would return for a map, until
\* hashmap_take is called while both ends of the table are occupied, and again once the
\* map is cleared.
THEOREM MapRefinement == Spec => IsMap
<1>1. Init => Map!Init
  <2> SUFFICES ASSUME Init PROVE Map!Init
    OBVIOUS
  <2>1. Contents = [k \in Key |-> Missing]
    BY InitStep DEF Contents, ValueIn
  <2> QED BY <2>1 DEF Init, Map!Init, Map!Clean
<1>2. HInv /\ [Next]_vars => [across' \/ Map!Next]_<<Contents, ret>>
  <2> SUFFICES ASSUME HInv, [Next]_vars, ~across'
               PROVE  [Map!Next]_<<Contents, ret>>
    OBVIOUS
  <2>1. Sound /\ (~across => Order)
    BY DEF HInv
  <2>2. CASE ~across
    BY <2>1, <2>2, StepMapped
  <2>3. CASE across
    <3>1. Idle /\ hashmap_clear
      BY <2>3, AcrossStays
    <3> QED BY <2>1, <3>1, ClearMapped DEF Map!Next
  <2> QED BY <2>2, <2>3
<1>3. Spec => []HInv
  BY HashmapInvariance
<1> QED BY <1>1, <1>2, <1>3, PTL DEF Spec, IsMap
==============================================================================
