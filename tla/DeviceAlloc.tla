----------------------------- MODULE DeviceAlloc -----------------------------
(***************************************************************************)
(* What the pool of hid.c promises, without vectors, locks or polling: a   *)
(* set of devices on offer, and who has which.  A device is offered only   *)
(* while no other device of the same id is on offer or in use; a device    *)
(* that is not cloneable is given to one thread at a time; a thread is     *)
(* given only what it asked for; and only the thread that has a device     *)
(* returns or loses it.                                                    *)
(***************************************************************************)
CONSTANTS
    Thread,         \* those who ask for devices
    Device,         \* all devices, records with an id
    Cloneable(_),   \* whether a device may be with several threads
    Wants(_, _),    \* Wants(t, d): whether t asked for devices like d
    Nothing         \* a thread has no device

VARIABLES
    offered,        \* devices that can be given
    has             \* [Thread -> the device it has, or Nothing]

allocVars == <<offered, has>>

Init ==
    /\ offered = {}
    /\ has = [t \in Thread |-> Nothing]

InPlay == offered \cup {has[t] : t \in {u \in Thread : has[u] # Nothing}}

Offer(d) ==
    /\ \A other \in InPlay : other.id # d.id
    /\ offered' = offered \cup {d}
    /\ UNCHANGED has

Give(t, d) ==
    /\ d \in offered
    /\ has[t] = Nothing
    /\ Wants(t, d)
    /\ has' = [has EXCEPT ![t] = d]
    /\ offered' = IF Cloneable(d) THEN offered ELSE offered \ {d}

Return(t) ==
    /\ has[t] # Nothing
    /\ has' = [has EXCEPT ![t] = Nothing]
    /\ offered' = IF Cloneable(has[t]) THEN offered ELSE offered \cup {has[t]}

Lose(t) ==
    /\ has[t] # Nothing
    /\ has' = [has EXCEPT ![t] = Nothing]
    /\ offered' = offered \ {has[t]}

\* What is newly offered is a device (written so that a model checker need not
\* run through all of Device).
Next ==
    \/ \E d \in (offered' \ offered) \cap Device : Offer(d)
    \/ \E t \in Thread : Return(t) \/ Lose(t) \/ \E d \in offered : Give(t, d)

Spec == Init /\ [][Next]_allocVars
==============================================================================
