\* A declaration and a struct that refer to each other.
SPECIFICATION Spec
CONSTANTS
    LitRange = 64
    NoVersion = NoVersion
    HeapMax = 65535
    Programs <- Recursive
    Damaged = {}
    Insertions = {}
    Texts = {}
INVARIANT TypesResolved
CHECK_DEADLOCK FALSE
