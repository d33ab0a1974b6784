\* Every schema of one or two fields, and the shipped one; cuts in the middle of words.
SPECIFICATION Spec
CONSTANTS
    Schemas <- SmallSchemas
    MaxLen = 2
    ServerBases = {0, 4}
    ClientBases = {0}
    OtherBases = {0, 4}
    Versions = {1, 2}
    Cuts = {11, 17, 26}
INVARIANT ReadBack
INVARIANT RefusedUnlessWhole
INVARIANT FreedOnce
INVARIANT NetGenerated
INVARIANT PythonReadBack
CHECK_DEADLOCK FALSE
