\* One slot with up to three devices, a buffer that ends inside the second message, a
\* reconnection.
SPECIFICATION Spec
CONSTANTS
    Slots = {0}
    Shapes = {"pad", "wheel"}
    Strays <- Alien
    Lines = {"state"}
    Paths = {"fifo", "missing", "stuck"}
    RequestFits = TRUE
    Room = 3
    MaxPipe = 4
    MaxGen = 3
    MaxConn = 2
    MaxLines = 1
INVARIANT Mirrors
INVARIANT ReplayedOnItsDevice
PROPERTY Reconnects
PROPERTY Appears
CHECK_DEADLOCK FALSE
