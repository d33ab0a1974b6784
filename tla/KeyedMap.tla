------------------------------- MODULE KeyedMap -------------------------------
(***************************************************************************)
(* What a hash map promises (the comments of ser/hashmap.h): a partial     *)
(* function from keys to values, and what each operation returns.          *)
(***************************************************************************)
EXTENDS Naturals, FiniteSets

CONSTANTS Key, Value, Missing

VARIABLES map, ret

Clean == [k \in Key |-> Missing]
Stored(m) == {k \in Key : m[k] # Missing}

Init == map = Clean /\ ret = <<>>

\* "returns true if the value was overwritten"
Set(k, v) ==
    /\ map' = [map EXCEPT ![k] = v]
    /\ ret' = <<"set", k \in Stored(map)>>

\* "return NULL if not found"
Get(k) == ret' = <<"get", map[k]>> /\ UNCHANGED map

Has(k) == ret' = <<"has", k \in Stored(map)>> /\ UNCHANGED map

Take(k) ==
    /\ map' = [map EXCEPT ![k] = Missing]
    /\ ret' = <<"take", map[k]>>

Clear == map' = Clean /\ UNCHANGED ret

\* Every entry once: how many were met, and which.
Iterate ==
    /\ UNCHANGED map
    /\ ret' = <<"iter", Cardinality(Stored(map)), {<<k, map[k]>> : k \in Stored(map)}>>

Next ==
    \/ \E k \in Key : (\E v \in Value : Set(k, v)) \/ Get(k) \/ Has(k) \/ Take(k)
    \/ Clear
    \/ Iterate

Spec == Init /\ [][Next]_<<map, ret>>
===============================================================================
