\* A client leaves and connects again; devices are unplugged and plugged again.
SPECIFICATION FairServerSpec
CONSTANTS
    t1 = t1
    t2 = t2
    c1 = c1
    pad = pad
    Thread = {t1}
    Event = {e1}
    Tag = {pad}
    Config <- PlainOnly
    Tags <- BothPads
    NoOwner = NoOwner
    NoDev = NoDev
    MaxPlug = 2
    Conn = {c1}
    Requests <- OneSlot
    Leavers = {c1}
    Sends <- RequestOnly
    MaxInbox = 1
    MaxIds = 2
PROPERTY Forwarded
PROPERTY ConnectionsEnd
CHECK_DEADLOCK FALSE
