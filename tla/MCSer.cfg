\* Programs of up to four items, and damaged texts.
SPECIFICATION Spec
CONSTANTS
    LitRange = 64
    NoVersion = NoVersion
    HeapMax = 65535
    Programs <- AllPrograms
    Damaged <- DamagedPrograms
    Insertions <- Pieces
    Texts <- ShortTexts
INVARIANTS
    Tiled
    NumbersRead
    ParsedAsWritten
    Judged
    TypesResolved
    Meant
    Strictest
    DefinedInOrder
CHECK_DEADLOCK FALSE
