------------------------------- MODULE Forward -------------------------------
(***************************************************************************)
(* The way of an event from a physical device to the virtual one: the      *)
(* features of the device are numbered (setup_device of hid.c), a device   *)
(* thread collects events in a report by these numbers and sends it at     *)
(* every EV_SYN (device_thread of server.c), and the client writes what is *)
(* in a report to the virtual device (client.c).                           *)
(*                                                                         *)
(* A device is opened by poll_devices and waits in the pool, its events    *)
(* with it, until a thread gets it.  A thread that is killed returns it,   *)
(* with what it has not read and without what its report held, and the     *)
(* thread that gets it next starts with a report of its own.  One device   *)
(* is followed at a time, and one slot: the one of the thread that has it. *)
(* (Of a duplicate, which several threads read at once, each thread gets   *)
(* some of the events.  That is not followed.)                             *)
(*                                                                         *)
(* The stream between the two is a queue here; how the client gets out of  *)
(* step with it is Client's subject.  An index counts from 1; the -1 of a  *)
(* code without an index is 65535 in the uint16_t it is stored in, and no  *)
(* index is ever found to be negative.                                     *)
(***************************************************************************)
EXTENDS Integers, Sequences, FiniteSets, Functions

CONSTANTS
    Code, Value,    \* codes of events, and values with 0
    KeyMax,         \* KEY_MAX: the last code there is, which setup_device stops short of
    Devices,        \* the devices there may be: the codes of each type
    Buffer,         \* events the kernel keeps for a reader
    MaxEvents,      \* bound: events
    MaxGen          \* bound: uses, of devices by threads, one after the other

NoIndex == 65535

ASSUME ForwardAssumption ==
    /\ Code \subseteq 0..KeyMax /\ KeyMax \in 0..(NoIndex - 1)
    /\ Value \subseteq Int /\ 0 \in Value
    /\ \A cs \in Devices : cs \in [{"abs", "rel", "key"} -> SUBSET Code]
    /\ Buffer \in Nat /\ Buffer > 1 /\ MaxEvents \in Nat /\ MaxGen \in Nat

VARIABLES
    gen,            \* uses so far: each time a thread gets a device it is the next one
    dev, codes,     \* the device: "gone", in the "pool" or "held" by a thread; what it has
    state,          \* the last value of each code since the device was opened
    synced,         \* whether the kernel has ended the packet of the last event
    queue,          \* the events to be read; the end of a packet with the state it ended in
    events,         \* events so far
    info, mapping,  \* PhysicalDevice: device_info, mapping
    report,         \* device_thread: report
    wire,           \* messages on their way to the client
    virtual,        \* the virtual device: the use it is of, its codes and their values
    outside,        \* whether an event was written outside of the report
    heard,          \* history: the codes read in this use
    frames,         \* history: for each use, what there was to show at the ends of packets
    dropped         \* history: the uses in which the kernel has dropped events

kernel  == <<gen, dev, codes, state, synced, events>>
server  == <<info, mapping, report>>
history == <<heard, frames, dropped>>
vars    == <<kernel, queue, server, wire, virtual, outside, history>>

Type    == {"abs", "rel", "key"}
Zero    == [t \in Type |-> [c \in Code |-> 0]]

NoDevice == [gen |-> 0]

\* The end of a packet; the state is for the properties alone.
Syn(s) == [type |-> "syn", state |-> s]
\* A state as far as the codes H are concerned, all others being at rest.
Masked(s, H) == [t \in Type |-> [c \in Code |-> IF <<t, c>> \in H THEN s[t][c] ELSE 0]]

\* !!event.value for keys, where 2 is a key that repeats; the value for all others.
\* Bug: only the first event of a key that is held counts.
Stored_once(t, v) == IF t = "key" THEN (IF v = 1 THEN 1 ELSE 0) ELSE v
Stored(t, v) == IF t = "key" THEN (IF v # 0 THEN 1 ELSE 0) ELSE v

\* What the kernel makes of a value that is written: any other than 0 presses a key.
Felt(t, v)    == IF t = "key" /\ v # 0 THEN 1 ELSE v
\* (uint32_t)(!key) - 1 is 0 for 0 and all ones, -1, otherwise.
Emitted(t, v) == IF t = "key" /\ v # 0 THEN -1 ELSE v

Init ==
    /\ gen = 0 /\ dev = "gone" /\ codes = [t \in Type |-> {}] /\ state = Zero /\ synced = TRUE
    /\ events = 0 /\ queue = <<>> /\ wire = <<>> /\ virtual = NoDevice /\ outside = FALSE
    /\ info = [t \in Type |-> <<>>] /\ mapping = [t \in Type |-> [c \in Code |-> NoIndex]]
    /\ report = [t \in Type |-> <<>>]
    /\ heard = {} /\ frames = [g \in 1..MaxGen |-> {Zero}] /\ dropped = {}

-----------------------------------------------------------------------------
(***************************************************************************)
(* The kernel                                                              *)
(***************************************************************************)
\* When the buffer is full everything in it gives way to SYN_DROPPED and the event.
Enqueue(e) ==
    IF Len(queue) < Buffer
    THEN queue' = Append(queue, e) /\ UNCHANGED dropped
    ELSE /\ queue' = << Syn(state), e >>
         /\ dropped' = IF dev = "held" THEN dropped \cup {gen} ELSE dropped

Happen(t, c, v) ==
    /\ dev # "gone" /\ c \in codes[t] /\ events < MaxEvents
    /\ events' = events + 1
    /\ Enqueue([type |-> t, code |-> c, value |-> v])
    /\ state' = [state EXCEPT ![t][c] = Felt(t, v)]
    /\ synced' = FALSE
    /\ UNCHANGED <<gen, dev, codes, server, wire, virtual, outside, heard, frames>>

Sync ==
    /\ dev # "gone" /\ ~synced
    /\ Enqueue(Syn(state))
    /\ synced' = TRUE
    /\ UNCHANGED <<gen, dev, codes, state, events, server, wire, virtual, outside, heard, frames>>

-----------------------------------------------------------------------------
(***************************************************************************)
(* The server                                                              *)
(***************************************************************************)
\* setup_device: the codes of each type get indices in their order, by a counter of the
\* codes met so far.  The last code there is is not looked at.
Looked(cs, t)   == {c \in cs[t] : c < KeyMax}
Index(cs, t, c) == Cardinality({d \in Looked(cs, t) : d <= c})
Ids(cs, t)      ==
    [i \in 1..Cardinality(Looked(cs, t)) |-> CHOOSE c \in Looked(cs, t) : Index(cs, t, c) = i]
\* Bug: the counter is incremented before it is used.
Mapping_ahead(cs, t) ==
    [c \in Code |-> IF c \in Looked(cs, t) THEN Index(cs, t, c) + 1 ELSE NoIndex]
Mapping(cs, t)  ==
    [c \in Code |-> IF c \in Looked(cs, t) THEN Index(cs, t, c) ELSE NoIndex]
setup_device(cs) ==
    /\ info' = [t \in Type |-> Ids(cs, t)]
    /\ mapping' = [t \in Type |-> Mapping(cs, t)]

\* poll_devices opens a device; from then on the kernel keeps its events for it.
Open(cs) ==
    /\ dev = "gone"
    /\ dev' = "pool" /\ codes' = cs /\ setup_device(cs)
    /\ state' = Zero /\ synced' = TRUE
    /\ UNCHANGED <<gen, events, queue, report, wire, virtual, outside, history>>

\* A device thread gets the device, announces it and starts with an empty report.
Acquire ==
    /\ dev = "pool" /\ gen < MaxGen
    /\ dev' = "held" /\ gen' = gen + 1
    /\ wire' = Append(wire, [tag |-> "Info", gen |-> gen + 1, info |-> info])
    /\ report' = [t \in Type |-> [i \in DOMAIN info[t] |-> 0]]
    /\ heard' = {}
    /\ UNCHANGED <<codes, state, synced, events, queue, info, mapping, virtual, outside, frames, dropped>>

\* The thread is killed and returns the device (device_thread_exit).  The next thread is one
\* of another connection: what was on the way to this client is not followed any further.
Return ==
    /\ dev = "held"
    /\ dev' = "pool" /\ wire' = <<>> /\ virtual' = NoDevice
    /\ UNCHANGED <<gen, codes, state, synced, events, queue, server, outside, history>>

\* The types of events at which the report is sent.
\* Bug: a report is sent with every event.
Sends_always(e) == TRUE
Sends(e) == e.type = "syn"

\* The place of an event in the report.
Indexed(e) == e.type # "syn" => mapping[e.type][e.code] \in DOMAIN report[e.type]

\* One round of the loop: nothing in the report is cleared once it is sent, so that a
\* movement is sent again with every report.
ReadEvent ==
    LET e == Head(queue)
    IN  /\ dev = "held" /\ queue # <<>> /\ Indexed(e)
        /\ queue' = Tail(queue)
        /\ report' = IF e.type = "syn" THEN report
                     ELSE [report EXCEPT ![e.type][mapping[e.type][e.code]] = Stored(e.type, e.value)]
        /\ wire' = IF Sends(e) THEN Append(wire, [tag |-> "Report", gen |-> gen, report |-> report']) ELSE wire
        /\ heard' = IF e.type = "syn" THEN heard ELSE heard \cup {<<e.type, e.code>>}
        /\ frames' = IF e.type = "syn"
                     THEN [frames EXCEPT ![gen] = @ \cup {Masked(e.state, heard)}]
                     ELSE frames
        /\ UNCHANGED <<kernel, info, mapping, virtual, outside, dropped>>

\* An event without an index: 65535 is not negative, and the value is written that far into
\* the report.  What becomes of the server is not followed.
WriteOutside ==
    /\ dev = "held" /\ queue # <<>> /\ ~Indexed(Head(queue))
    /\ outside' = TRUE
    /\ UNCHANGED <<kernel, queue, server, wire, virtual, history>>

\* read fails, whatever was left to read: the device is forgotten and the client told.
ReadLost ==
    /\ dev = "held"
    /\ dev' = "gone" /\ queue' = <<>>
    /\ wire' = Append(wire, [tag |-> "Destroy", gen |-> gen])
    /\ UNCHANGED <<gen, codes, state, synced, events, server, virtual, outside, history>>

-----------------------------------------------------------------------------
(***************************************************************************)
(* The client                                                              *)
(***************************************************************************)
\* device_init: the device with the announced codes, at rest.
device_init(m) == [gen |-> m.gen, info |-> m.info, value |-> Zero]

\* device_handle_report: every value of the report is written, unless the report is of
\* another length than the device's.
device_handle_report(m) ==
    IF virtual = NoDevice \/ \E t \in Type : Len(m.report[t]) # Len(virtual.info[t]) THEN virtual
    ELSE [virtual EXCEPT !.value =
             [t \in Type |-> [c \in Code |->
                 IF \E i \in DOMAIN virtual.info[t] : virtual.info[t][i] = c
                 THEN Felt(t, Emitted(t, m.report[t][CHOOSE i \in DOMAIN virtual.info[t] : virtual.info[t][i] = c]))
                 ELSE @[t][c]]]]

Handle ==
    LET m == Head(wire)
    IN  /\ wire # <<>>
        /\ wire' = Tail(wire)
        /\ virtual' = CASE m.tag = "Info"    -> device_init(m)
                        [] m.tag = "Report"  -> device_handle_report(m)
                        [] m.tag = "Destroy" -> NoDevice
        /\ UNCHANGED <<kernel, queue, server, outside, history>>

Next ==
    /\ ~outside
    /\ \/ \E t \in Type, c \in Code, v \in Value : Happen(t, c, v)
       \/ Sync
       \/ \E cs \in Devices : Open(cs)
       \/ Acquire
       \/ Return
       \/ ReadEvent
       \/ WriteOutside
       \/ ReadLost
       \/ Handle

Spec == Init /\ [][Next]_vars

-----------------------------------------------------------------------------
(***************************************************************************)
(* Properties                                                              *)
(***************************************************************************)
\* The virtual device never shows a mix of packets, nor a value under another code, nor
\* anything of the device, or of the use, before it: it shows the values the physical device
\* had at the end of one packet, of the codes its thread had read an event of by then, and
\* all other codes at rest.  (A relative code counts with its last movement.  A code that
\* moved before the thread got the device is at rest until it moves again.  Of a use in
\* which the kernel dropped events nothing is said.)
WholeFrames ==
    virtual # NoDevice /\ virtual.gen \notin dropped => virtual.value \in frames[virtual.gen]

\* Every event that waits to be read has its place in the report, unless it is of the last
\* code: the index -1 that device_thread looks for is never negative once it is in a
\* uint16_t, so nothing else keeps the write inside.
EventsIndexed ==
    dev = "held" =>
        \A i \in DOMAIN queue : queue[i].type # "syn" /\ queue[i].code < KeyMax => Indexed(queue[i])

\* When everything that happened has been read and replayed, the virtual device is that of
\* the use, has the codes setup_device looked at, and has the values of the physical one in
\* all codes that were read in this use: only the others it may lack.
CaughtUp ==
    dev = "held" /\ gen \notin dropped /\ synced /\ queue = <<>> /\ wire = <<>> =>
        /\ virtual # NoDevice /\ virtual.gen = gen
        /\ virtual.value = Masked(state, heard)
        /\ \A t \in Type : Range(virtual.info[t]) = Looked(codes, t)
==============================================================================
