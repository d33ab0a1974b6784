------------------------------ MODULE MCHidPool ------------------------------
(***************************************************************************)
(* Small instances of HidPool.  Two threads, so that one can wait or take  *)
(* while the other returns or forgets; two entries; enough plugs that an   *)
(* entry is used again by another device.                                  *)
(***************************************************************************)
EXTENDS HidPool, TLC

CONSTANTS t1, t2, pad, key

Plain  == [tag |-> pad, duplicate |-> FALSE, ps4_hidraw |-> FALSE, js |-> FALSE]
Shared == [tag |-> key, duplicate |-> TRUE, ps4_hidraw |-> FALSE, js |-> FALSE]
Ds4    == [tag |-> pad, duplicate |-> FALSE, ps4_hidraw |-> TRUE, js |-> TRUE]

\* One tag; a cloneable device beside a Dualshock 4.
PlainOnly == <<Plain>>
Mixed     == <<Shared, Ds4>>

BothPads  == [t \in Thread |-> <<pad>>]
PadAndAny == [t \in Thread |-> IF t = t1 THEN <<pad>> ELSE <<key, pad>>]

\* Entries are alike.
Symmetry == Permutations(Event)
==============================================================================
