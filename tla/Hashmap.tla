------------------------------- MODULE Hashmap -------------------------------
(***************************************************************************)
(* The hash map of the schema compiler (ser/hashmap.c): open addressing    *)
(* with linear probing, growing at half load, and deletion that moves      *)
(* later entries into the hole.  The hash function is seeded with the time *)
(* and the address: any function.                                          *)
(*                                                                         *)
(* The two loops that move entries take one step per entry.  hashmap_take  *)
(* empties a bucket and closes the hole: hole is the bucket that is still  *)
(* to be filled, NoHole outside of it.  hashmap_grow puts the entries of   *)
(* the old buckets into new ones: old and from are the old buckets and the *)
(* first one that is not done, item is what hashmap_set was called with.   *)
(*                                                                         *)
(* hashmap_take compares the index of the hole with that of a home and     *)
(* does not see that a chain of entries may go over the last bucket        *)
(* (hashmap.c:268).  The history variable across tells whether, since the  *)
(* map was last cleared, an entry was taken while both ends of the buckets *)
(* were occupied, so that there may have been such a chain.                *)
(***************************************************************************)
EXTENDS Naturals, FiniteSets

CONSTANTS
    Key, Value,
    Missing,        \* no value (NULL)
    BaseCap,        \* HASHMAP_BASE_CAP, a power of two
    MaxCap,         \* bound: the largest capacity the map grows to
    Hashes          \* hash functions, Key -> Nat

ASSUME HashmapAssumption ==
    /\ Missing \notin Key /\ Missing \notin Value
    /\ BaseCap \in Nat /\ BaseCap >= 2
    /\ MaxCap \in Nat /\ MaxCap >= BaseCap
    /\ \A h \in Hashes : h \in [Key -> Nat]

VARIABLES buckets, cap, count, hash, hole, old, from, item, ret, across

growing == <<old, from, item>>
vars    == <<buckets, cap, count, hash, hole, growing, ret, across>>

Empty  == [key |-> Missing]
NoHole == MaxCap

Index       == 0..(cap - 1)
Buckets(c)  == [i \in 0..(c - 1) |-> Empty]
Home(k)     == hash[k] % cap       \* hash & mask: cap is a power of two
MaxItems(c) == c \div 2

\* How far a probe that starts at i goes until j, and the first bucket of S it meets.
Steps(i, j)     == IF i <= j THEN j - i ELSE j + cap - i
FirstFrom(i, S) == CHOOSE j \in S : \A l \in S : Steps(i, j) <= Steps(i, l)

\* The first empty bucket or the first one of the key.
Stops(k)          == {i \in Index : buckets[i] = Empty \/ buckets[i].key = k}
hashmap_bucket(k) == FirstFrom(Home(k), Stops(k))

\* The entry, and whether there was one of its key.
hashmap_insert(k, v) ==
    LET p == hashmap_bucket(k)
    IN  /\ buckets' = [buckets EXCEPT ![p] = [key |-> k, val |-> v]]
        /\ count' = IF buckets[p] = Empty THEN count + 1 ELSE count

-----------------------------------------------------------------------------
Init ==
    /\ cap = BaseCap /\ buckets = Buckets(BaseCap) /\ count = 0
    /\ hash \in Hashes
    /\ hole = NoHole /\ ret = <<>>
    /\ old = <<>> /\ from = 0 /\ item = Empty
    /\ across = FALSE

\* hashmap_grow: all buckets are new and empty,
hashmap_grow ==
    /\ 2 * cap <= MaxCap
    /\ cap' = 2 * cap /\ buckets' = Buckets(2 * cap) /\ count' = 0
    /\ old' = buckets /\ from' = 0

\* Bug: the last of the old buckets is left out.
old_cap_short == cap \div 2 - 1
old_cap == cap \div 2

\* and get the entries of the old ones in their order.
Rehash ==
    /\ item # Empty /\ from < old_cap
    /\ IF old[from] = Empty THEN UNCHANGED <<buckets, count>>
       ELSE hashmap_insert(old[from].key, old[from].val)
    /\ from' = from + 1
    /\ UNCHANGED <<cap, hash, hole, old, item, ret, across>>

hashmap_set(k, v) ==
    \/ /\ count < MaxItems(cap)
       /\ hashmap_insert(k, v)
       /\ ret' = <<"set", buckets[hashmap_bucket(k)] # Empty>>
       /\ UNCHANGED <<cap, hash, hole, growing, across>>
    \/ /\ count >= MaxItems(cap)
       /\ hashmap_grow
       /\ item' = [key |-> k, val |-> v]
       /\ UNCHANGED <<hash, hole, ret, across>>

\* The rest of hashmap_set, after hashmap_grow.
Grown ==
    /\ item # Empty /\ from = old_cap
    /\ hashmap_insert(item.key, item.val)
    /\ ret' = <<"set", buckets[hashmap_bucket(item.key)] # Empty>>
    /\ old' = <<>> /\ from' = 0 /\ item' = Empty
    /\ UNCHANGED <<cap, hash, hole, across>>

At(k) == buckets[hashmap_bucket(k)]

hashmap_get(k) ==
    /\ ret' = <<"get", IF At(k) = Empty THEN Missing ELSE At(k).val>>
    /\ UNCHANGED <<buckets, cap, count, hash, hole, growing, across>>

hashmap_has(k) ==
    /\ ret' = <<"has", At(k) # Empty>>
    /\ UNCHANGED <<buckets, cap, count, hash, hole, growing, across>>

\* The ends of the table are not occupied both: no chain goes over the last bucket.
Apart == buckets[0] = Empty \/ buckets[cap - 1] = Empty

\* hashmap_take, and hashmap_delete: the entry is found and handed over,
hashmap_take(k) ==
    /\ IF At(k) = Empty
       THEN ret' = <<"take", Missing>> /\ UNCHANGED <<count, hole, across>>
       ELSE /\ ret' = <<"take", At(k).val>>
            /\ count' = count - 1
            /\ hole' = hashmap_bucket(k)
            /\ across' = (across \/ ~Apart)
    /\ UNCHANGED <<buckets, cap, hash, growing>>

\* Bug: entries that are at home are moved too.
Movable_any(i) == TRUE
Movable(i) == Home(buckets[i].key) <= hole

\* and its bucket gets the next entry whose home does not lie behind it, until there is
\* none before an empty bucket.
CloseHole ==
    LET next == FirstFrom((hole + 1) % cap, {i \in Index : buckets[i] = Empty \/ Movable(i)})
    IN  /\ hole # NoHole
        /\ buckets' = [buckets EXCEPT ![hole] = buckets[next]]
        /\ hole' = IF buckets[next] = Empty THEN NoHole ELSE next
        /\ UNCHANGED <<cap, count, hash, growing, ret, across>>

\* Nothing is done when there is no entry.
hashmap_clear ==
    /\ buckets' = IF count = 0 THEN buckets ELSE Buckets(cap)
    /\ count' = 0
    /\ across' = FALSE
    /\ UNCHANGED <<cap, hash, hole, growing, ret>>

\* A loop over hashmap_iter: the buckets in order, nothing at all when count is zero.
Walked == IF count = 0 THEN {} ELSE {i \in Index : buckets[i] # Empty}

hashmap_iter ==
    /\ ret' = <<"iter", Cardinality(Walked), {<<buckets[i].key, buckets[i].val>> : i \in Walked}>>
    /\ UNCHANGED <<buckets, cap, count, hash, hole, growing, across>>

\* No operation is under way.
Idle == hole = NoHole /\ item = Empty

Next ==
    \/ /\ Idle
       /\ \/ \E k \in Key, v \in Value : hashmap_set(k, v)
          \/ \E k \in Key : hashmap_get(k)
          \/ \E k \in Key : hashmap_has(k)
          \/ \E k \in Key : hashmap_take(k)
          \/ hashmap_clear
          \/ hashmap_iter
    \/ Rehash
    \/ Grown
    \/ CloseHole

Spec == Init /\ [][Next]_vars

-----------------------------------------------------------------------------
(***************************************************************************)
(* Properties                                                              *)
(***************************************************************************)
Entries == {i \in Index : buckets[i] # Empty /\ i # hole}

\* The old buckets that are still to be put into new ones.
Left == {i \in DOMAIN old : old[i] # Empty /\ i >= from}

\* What a reader finds, in the table or in what is left of the old one.
Present       == {buckets[i] : i \in Entries} \cup {old[i] : i \in Left}
ValueIn(S, k) == IF \E e \in S : e.key = k THEN (CHOOSE e \in S : e.key = k).val ELSE Missing
Contents      == [k \in Key |-> ValueIn(Present, k)]

Map == INSTANCE KeyedMap WITH map <- Contents

\* Every operation does to the entries of the table, and returns, what it promises,
\* whatever the hash function does and however often the table has grown or moved its
\* entries, as long as nothing was taken across the ends since the map was last cleared.
\* hashmap_clear makes a map of it again, whatever was taken before.
IsMap == Map!Init /\ [][across' \/ Map!Next]_<<Contents, ret>>

\* There are as many entries as counted and at least half of the buckets are empty, so
\* that every probe ends; and as long as nothing was taken across the ends, the probe for
\* the key of an entry gets to that entry, which is the only one with the key.
Findable ==
    Idle =>
        /\ count = Cardinality(Entries)
        /\ 2 * count <= cap
        /\ across \/ \A i \in Entries : hashmap_bucket(buckets[i].key) = i
===============================================================================
