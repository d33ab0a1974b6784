\* Texts of up to five pieces, damaged and whole documents, buffers that are too small.
SPECIFICATION Spec
CONSTANTS
    Texts <- AllTexts
    Documents <- AllDocuments
    Caps = {4, 12, 100}
INVARIANT InBuffer
INVARIANT Walkable
INVARIANT AcceptedIsWritten
INVARIANT FitsOrRefused
INVARIANT AdaptedAsWritten
CHECK_DEADLOCK FALSE
