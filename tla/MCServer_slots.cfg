\* A client with two slots sends anything and leaves.
SPECIFICATION ServerSpec
CONSTANTS
    t1 = t1
    t2 = t2
    c1 = c1
    pad = pad
    Thread = {t1, t2}
    Event = {e1}
    Tag = {pad}
    Config <- PlainOnly
    Tags <- BothPads
    NoOwner = NoOwner
    NoDev = NoDev
    MaxPlug = 1
    Conn = {c1}
    Requests <- TwoSlots
    Leavers = {c1}
    Sends <- AllMessages
    MaxInbox = 1
    MaxIds = 1
INVARIANT JoinedBeforeFree
INVARIANT Announced
PROPERTY CleanContract
CHECK_DEADLOCK FALSE
