------------------------------- MODULE MCServer -------------------------------
(***************************************************************************)
(* Small instances of Server: a client with one or two slots that connects *)
(* once or twice; one entry in /sys/class/input, plugged once or twice.    *)
(***************************************************************************)
EXTENDS Server, TLC

CONSTANTS t1, t2, c1, pad

Plain  == [tag |-> pad, duplicate |-> FALSE, ps4_hidraw |-> FALSE, js |-> FALSE]
PlainOnly == <<Plain>>
BothPads  == [t \in Thread |-> <<pad>>]

OneSlot  == [c \in Conn |-> <<t1>>]
TwoSlots == [c \in Conn |-> <<t1, t2>>]

RequestOnly == {"Request"}
AllMessages == {"Request", "ControllerState", "Other"}
==============================================================================
