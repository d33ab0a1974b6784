\* Two uses of devices, of one after another or of one that was returned, and a buffer that
\* can overflow.
SPECIFICATION Spec
CONSTANTS
    Code = {0, 1, 2, 3}
    KeyMax = 3
    Value = {0, 1, 2}
    Devices <- PadAndMouse
    Buffer = 3
    MaxEvents = 3
    MaxGen = 2
INVARIANT WholeFrames
INVARIANT EventsIndexed
INVARIANT CaughtUp
CHECK_DEADLOCK FALSE
