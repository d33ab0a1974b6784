\* A client leaves while a slot waits for a device.
SPECIFICATION ServerSpec
CONSTANTS
    t1 = t1
    t2 = t2
    c1 = c1
    pad = pad
    Thread = {t1}
    Event = {e1}
    Tag = {pad}
    Config <- PlainOnly
    Tags <- BothPads
    NoOwner = NoOwner
    NoDev = NoDev
    MaxPlug = 1
    Conn = {c1}
    Requests <- OneSlot
    Leavers = {c1}
    Sends <- RequestOnly
    MaxInbox = 1
    MaxIds = 1
INVARIANT MutexesReleased
CHECK_DEADLOCK FALSE
