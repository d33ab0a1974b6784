------------------------------- MODULE MCCodec -------------------------------
(***************************************************************************)
(* Schemas for Codec: the shipped one, and every message of one or two     *)
(* fields taken from a set that has each alignment, arrays of each width   *)
(* of length, nested arrays, structs with and without padding at the end   *)
(* and heap arrays.                                                        *)
(***************************************************************************)
EXTENDS Codec

u64  == Prim(8)
Pair == StructOf(<<u8, u32>>)                          \* 5 bytes, alignment 4
Name == StructOf(<<u8, HeapArray(u8, 65535)>>)

FieldTypes ==
    { u8, u32, u64, FixedArray(u8, 3), FixedArray(Name, 2), Pair,
      MaxArray(u8, 255), MaxArray(u32, 256),
      MaxArray(Pair, 4), HeapArray(Name, 4), MaxArray(MaxArray(u16, 2), 2),
      MaxArray(FixedArray(u8, 2), 2) }

MessagesOf(n) ==
    { {[tag |-> 1, type |-> StructOf(fs), versioned |-> FALSE]} : fs \in [1..n -> FieldTypes] }

\* A pointer to a number of elements that is fixed, beside a field of each type.
HeapFixed == { {[tag |-> 1, type |-> StructOf(<<HeapFixedArray(u8, 3), t>>),
                versioned |-> FALSE]} : t \in FieldTypes }

SmallSchemas == {DeviceMessages} \cup MessagesOf(1) \cup MessagesOf(2) \cup HeapFixed
==============================================================================
