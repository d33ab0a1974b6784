\* Four keys, tables of four and eight buckets, hashes at their ends.
SPECIFICATION Spec
CONSTANTS
    Key = {a, b, c, d}
    Value = {1, 2}
    Missing = Missing
    BaseCap = 4
    MaxCap = 8
    Hashes <- NearTheEnds
INVARIANT Findable
PROPERTY IsMap
SYMMETRY Keys
