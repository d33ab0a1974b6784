------------------------------ MODULE MCHashmap ------------------------------
EXTENDS Hashmap, TLC

\* Hashes that meet in the table of four buckets and not in that of eight, that are
\* neighbours, and that go over the end of either.
NearTheEnds == [Key -> {0, 1, 3, 7}]

Keys == Permutations(Key)
==============================================================================
