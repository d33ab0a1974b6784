\* A cloneable and a Dualshock 4 entry in the configuration; one thread accepts both tags.
SPECIFICATION Spec
CONSTANTS
    t1 = t1
    t2 = t2
    pad = pad
    key = key
    Thread = {t1, t2}
    Event = {e1, e2}
    Tag = {pad, key}
    Config <- Mixed
    Tags <- PadAndAny
    NoOwner = NoOwner
    NoDev = NoDev
    MaxPlug = 2
INVARIANTS
    Exclusive
    KnownAccounted
    DescriptorsAccounted
    NoLostWakeup
SYMMETRY Symmetry
PROPERTY ImplementsAlloc
