-------------------------------- MODULE Codec --------------------------------
(***************************************************************************)
(* One message on its way from a peer to another: it is serialized, its    *)
(* bytes enter a TCP stream and come out in pieces, and the receiver tries *)
(* to deserialize what it has.  The receiver's buffer is used again and    *)
(* again: beyond the bytes just received lie those of an earlier message.  *)
(* Both peers run code that the schema compiler generated, the shipped     *)
(* net.c or the Python classes; the receiver's schema may lack the message.*)
(***************************************************************************)
EXTENDS Net, CodegenPython

CONSTANTS
    Schemas,        \* families of messages: each a set with one code generated for it
    MaxLen,         \* longest array of a message
    ServerBases,    \* where the buffers of the server may lie, modulo 8
    ClientBases,    \* and those of the client
    OtherBases,     \* and those of programs with another schema
    Versions,       \* versions of the schema the sender may have
    Cuts            \* how the bytes may be cut: k bytes have come for k \in Cuts

ASSUME MaxLenAssumption == MaxLen \in Nat

VARIABLES
    schema, msg, val,   \* the message sent: a message of a schema and its value
    ties,               \* how qsort ordered equal fields when the code was generated
    stage,              \* "new", "sent", "received", "read", "freed", "python"
    from, to,           \* the addresses of the two buffers, modulo 8
    sent,               \* the bytes the sender put in the stream
    reader,             \* the messages of the receiver's schema
    buf, len,           \* the receiver's buffer and how many bytes recv returned
    held,               \* the message the receiver's struct holds: read and freed
    res,                \* what deserialize did (C)
    py                  \* what the Python classes did

given == <<schema, msg, val, ties>>
vars == <<given, stage, from, to, sent, reader, buf, len, held, res, py>>

\* Every leaf of a value is itself: its path.
RECURSIVE Values(_, _, _)
Values(t, path, version) ==
    LET Product(n, S(_)) ==
            FoldLeft(LAMBDA acc, i : {Append(s, x) : s \in acc, x \in S(i)},
                     {<<>>}, [i \in 1..n |-> i])
    IN  CASE t.kind = "prim" -> { IF t.n = 8 /\ version # 0 THEN <<"version", version>>
                                  ELSE <<"leaf">> \o path }
          [] t.kind = "struct" ->
                Product(Len(t.sub), LAMBDA i : Values(t.sub[i], Append(path, i), version))
          [] t.kind = "fixed" ->
                Product(t.n, LAMBDA i : Values(t.sub[1], Append(path, i), version))
          [] t.kind = "max" ->
                UNION {Product(n, LAMBDA i : Values(t.sub[1], path \o <<1, i>>, version)) :
                           n \in 0..MaxLen}

\* What a reader must have read of v: every leaf and every length, once.
RECURSIVE Leaves(_, _, _)
Leaves(t, v, path) ==
    CASE t.kind = "prim" -> {<<path, v>>}
      [] t.kind = "struct" -> UNION {Leaves(t.sub[i], v[i], Append(path, i)) : i \in DOMAIN v}
      [] t.kind = "fixed"  -> UNION {Leaves(t.sub[1], v[i], Append(path, i)) : i \in DOMAIN v}
      [] t.kind = "max"    ->
            {<<Append(path, 0), <<"len", Len(v)>> >>}
            \cup UNION {Leaves(t.sub[1], v[i], path \o <<1, i>>) : i \in DOMAIN v}

\* A message whose arrays all have n elements.
RECURSIVE Uniform(_, _)
Uniform(t, n) ==
    CASE t.kind = "prim" -> <<"leaf">>
      [] t.kind = "struct" -> [i \in DOMAIN t.sub |-> Uniform(t.sub[i], n)]
      [] t.kind = "fixed" -> [i \in 1..t.n |-> Uniform(t.sub[1], n)]
      [] t.kind = "max" -> [i \in 1..n |-> Uniform(t.sub[1], n)]

\* How long a message can get.
RECURSIVE Longest(_)
Longest(t) ==
    CASE t.kind = "prim" -> t.n
      [] t.kind = "struct" -> FoldSeq(LAMBDA x, s : s + Longest(x) + 8, 8, t.sub)
      [] t.kind = "fixed" -> t.n * Longest(t.sub[1])
      [] t.kind = "max" -> LenSize(t.n) + MaxLen * (Longest(t.sub[1]) + 8)

Blank     == <<>>
BufLen(m) == Longest(m.type) + 2 * MAGIC
Bytes(st) == [k \in 1..st.pos |-> Byte(st.mem, k - 1)]
NoRes     == [pos |-> 0]
NoPy      == [ok |-> FALSE]

SenderVersion == IF msg.versioned THEN Last(val)[2] ELSE DeviceVersion
Shipped == schema = DeviceMessages

\* The messages that the server sends, and the client: server.c and client.c declare
\* their buffers aligned to 4 and to 8.
FromServer(m) == m.type \in {Info, Report, Destroy}
Bases(server) == IF ~Shipped THEN OtherBases ELSE IF server THEN ServerBases ELSE ClientBases

Init ==
    /\ schema \in Schemas
    /\ msg \in schema
    /\ \E version \in Versions :
         val \in Values(msg.type, <<>>, IF msg.versioned THEN version ELSE 0)
    /\ ties \in {"kept", "reversed"}
    /\ stage = "new" /\ from = 0 /\ to = 0 /\ sent = <<>>
    /\ reader = schema /\ buf = <<>> /\ len = 0 /\ held = NoMessage
    /\ res = NoRes /\ py = NoPy

\* Whether there is a C program to follow.  For a pointer to a number of elements that is
\* fixed (T&[n]) the generated code has free(<field>.data), which no C compiler takes of a
\* pointer; and where it frees nothing, it stores through a pointer that nobody has set.
RECURSIVE HasProgram(_)
HasProgram(t) ==
    /\ t.kind = "fixed" => ~t.heap
    /\ \A i \in DOMAIN t.sub : HasProgram(t.sub[i])

\* The sender's buffer is large enough; its bytes are handed to send().
Send ==
    /\ stage = "new" /\ stage' = "sent" /\ HasProgram(msg.type)
    /\ \E base \in Bases(FromServer(msg)) :
         /\ from' = base
         /\ sent' = Bytes(msg_serialize(msg, ties, val, Blank, BufLen(msg), base))
    /\ UNCHANGED <<given, to, reader, buf, len, held, res, py>>

\* recv into a buffer that still holds the bytes of an earlier message; what
\* follows in the stream, if anything, is the message again.  A receiver that knows
\* the earlier message has read and freed it: its struct still says so.  (A struct
\* never written, as the server's at first, may hold the same by chance.)
Receive ==
    /\ stage = "sent" /\ stage' = "received"
    /\ \E n \in 0..MaxLen, earlier \in {m \in schema : FromServer(m) = FromServer(msg)} :
         LET v      == Uniform(earlier.type, n)
             stale  == msg_serialize(earlier, ties, v, Blank, BufLen(earlier), from).mem
             stream == sent \o sent
         IN  /\ \E k \in {c \in Cuts : c < Len(sent)}
                          \cup (IF n = MaxLen THEN {Len(sent), Len(sent) + MAGIC} ELSE {}) :
                  /\ len' = k
                  /\ buf' = [i \in 0..(k - 1) |-> stream[i + 1]] @@ stale
             /\ to' \in Bases(~FromServer(msg))
             /\ reader' \in {schema, schema \ {msg}} \ {{}}
             /\ held' = IF earlier \in reader'
                        THEN [type |-> earlier.type, got |-> Leaves(earlier.type, v, <<>>)]
                        ELSE NoMessage
    /\ UNCHANGED <<given, from, sent, res, py>>

\* deserialize reads the lengths that straddle old and new bytes, of which a message
\* that is whole has none, as anything.
Read ==
    /\ stage = "received" /\ stage' = "read"
    /\ \E junk \in IF len < Len(sent) THEN 0..MaxLen ELSE {0} :
         res' = msg_deserialize(reader, ties, buf, len, to, DeviceVersion, junk, held)
    /\ UNCHANGED <<given, from, to, sent, reader, buf, len, held, py>>

\* The caller is done with a message that was read.
Free ==
    /\ stage = "read" /\ res.pos # -1 /\ stage' = "freed"
    /\ res' = [res EXCEPT !.freed = msg_free([type |-> msg.type, got |-> res.got])]
    /\ UNCHANGED <<given, from, to, sent, reader, buf, len, held, py>>

\* The same message written and read by the generated Python classes.
Python ==
    /\ stage = "new" /\ stage' = "python"
    /\ sent' = py_serialize(msg, ties, val)
    /\ py' = py_deserialize(msg, ties, sent')
    /\ UNCHANGED <<given, from, to, reader, buf, len, held, res>>

Next == Send \/ Receive \/ Read \/ Free \/ Python

Spec == Init /\ [][Next]_vars

-----------------------------------------------------------------------------
(***************************************************************************)
(* Properties                                                              *)
(***************************************************************************)
Whole == /\ len >= Len(sent)
         /\ msg \in reader
         /\ (msg.versioned => SenderVersion = DeviceVersion)

\* Both peers round addresses, not offsets, up to 8 after the arrays of a message.
SameFooting == (from - to) % 8 = 0 \/ ArrayFields(type_layout(msg.type, ties)) = <<>>

\* A message that is there in full, from a peer of the same version and schema whose
\* buffer lies as the receiver's does modulo 8, is read back as it was sent, and the
\* reader takes exactly its bytes: the next message is not touched (client.c receives
\* the length that deserialize returned).
ReadBack ==
    stage = "read" /\ Whole /\ SameFooting
        => res.pos = Len(sent) /\ res.got = Leaves(msg.type, val, <<>>)

\* Any other message is refused, whatever the bytes of earlier messages make the missing
\* lengths look like: one of which only a part has come, one of a peer of another version
\* or with a message this schema lacks, and one with arrays that was written in a buffer
\* that lies otherwise, as a server's, aligned to 4, may to a client's, aligned to 8.
RefusedUnlessWhole ==
    stage = "read" /\ ~(Whole /\ SameFooting) => res.pos = -1

\* What deserialize allocates is freed once and only once: by the caller for a message
\* that was read, by deserialize itself for one it refuses.  Of a message with a tag
\* that the schema lacks nothing is allocated, and nothing may be freed; the code keeps to
\* that as long as the struct does not hold another message still.
FreedOnce ==
    (stage = "freed" \/ (stage = "read" /\ res.pos = -1 /\ (msg \in reader \/ held = NoMessage)))
        => /\ Range(res.freed) = Range(res.blocks)
           /\ Len(res.freed) = Len(res.blocks)

\* net.c, as it is checked in, writes and reads what the compiler generates from
\* net.ser: the same bytes, each scalar at its alignment when the buffer is at 8, and of
\* every buffer, whole, cut or of another version, a reader of either kind makes the same.
NetGenerated ==
    Shipped /\ ties = "kept" =>
        /\ stage = "sent" =>
             LET st == msg_device_serialize(msg, val, Blank, BufLen(msg), from)
             IN  /\ Bytes(st) = sent
                 /\ from = 0 => \A a \in st.acc : a[1] % a[2] = 0
        /\ stage = "read" /\ reader = schema =>
             LET st == msg_device_deserialize(buf, len, to, res.junk, held)
             IN  /\ st.pos = res.pos /\ st.got = res.got
                 /\ st.blocks = res.blocks /\ st.freed = res.freed

\* Fixed part of a type that does not fill its alignment.
Ragged(t, start) ==
    LET l == type_layout(t, ties)
    IN  /\ l.fields # <<>> /\ ArrayFields(l) = <<>>
        /\ (AlignUp(start, l.fields[1].type.align) + FixedSize(l))
             % (IF start = 2 THEN 8 ELSE t.align) # 0

RECURSIVE Elements(_)
Elements(t) == UNION {Elements(t.sub[i]) : i \in DOMAIN t.sub}
               \cup (IF t.kind = "max" THEN {t.sub[1]} ELSE {})

\* No list of fixed size in a message, in a struct or in another list of fixed size,
\* nor one of structs: the reader assigns to the elements of lists it has not made.
RECURSIVE Assigned(_, _)
Assigned(t, element) ==
    /\ t.kind = "fixed" => element /\ t.sub[1].kind \in {"prim", "max"}
    /\ \A i \in DOMAIN t.sub : Assigned(t.sub[i], t.kind = "max")

\* The Python reader reads what the Python writer wrote, unless it raises at a list of
\* fixed size or a part of constant size needs padding at its end, which only the reader
\* counts.  If that padding is not needed and the C code had no padding to put before
\* the first field, the two languages write the same bytes from the first field on.
PythonReadBack ==
    stage = "python" /\ ~Ragged(msg.type, 2) /\ (\A t \in Elements(msg.type) : ~Ragged(t, 0))
        => /\ Assigned(msg.type, FALSE)
                => py.ok /\ py.off = Len(sent) /\ py.got = Leaves(msg.type, val, <<>>)
           /\ HasProgram(msg.type) /\ type_layout(msg.type, ties).fields[1].type.align <= 2
                => LET c == Bytes(msg_serialize(msg, ties, val, Blank,
                                                BufLen(msg), 0))
                   IN  /\ Len(c) = Len(sent)
                       /\ \A k \in 11..(Len(c) - MAGIC) :
                              sent[k] = c[k] \/ sent[k][1] = <<"zero">>
==============================================================================
