\* All devices have the same tag: nobody waits for ever.
SPECIFICATION FairSpec
CONSTANTS
    t1 = t1
    t2 = t2
    pad = pad
    key = key
    Thread = {t1, t2}
    Event = {e1}
    Tag = {pad, key}
    Config <- PlainOnly
    Tags <- BothPads
    NoOwner = NoOwner
    NoDev = NoDev
    MaxPlug = 2
PROPERTY Served
