-------------------------------- MODULE Client --------------------------------
(***************************************************************************)
(* The client (client.c): one thread that polls a fifo and the connection  *)
(* to the server, mirrors the server's devices as virtual uinput devices   *)
(* and connects again when the connection is lost.                         *)
(*                                                                         *)
(* A message is two pieces, so that TCP can cut it: the client parses what *)
(* recv(MSG_PEEK) shows it and throws away what does not parse.  The       *)
(* server is any program that announces a device, reports on it and takes  *)
(* it back, slot by slot (what module Server guarantees as Announced),     *)
(* and may also say things no client understands (Strays).                 *)
(***************************************************************************)
EXTENDS Naturals, Sequences, FiniteSetsExt

CONSTANTS
    Slots,      \* config.slots: 0..slot_count-1
    Shapes,     \* numbers of axes, relative axes and keys of a device
    Strays,     \* messages of a server that are about no slot of this client
    Lines,      \* what is written to the fifo: "state" or "junk"
    Paths,      \* what may be at the path of the fifo when it is opened again
    RequestFits, \* whether the device request can be serialized into 2048 bytes
    Room,       \* pieces that fit into buf[2048]: at least a message
    MaxPipe,    \* bound: pieces on their way
    MaxGen,     \* bound: devices announced
    MaxConn,    \* bound: connections made
    MaxLines    \* bound: lines in the fifo

ASSUME ClientAssumption ==
    /\ Room \in Nat /\ Room >= 2 /\ RequestFits \in BOOLEAN
    /\ \A m \in Strays : m.tag = "Request" \/ m.slot \notin Slots
    /\ Lines \subseteq {"state", "junk"}
    /\ Paths \subseteq {"fifo", "missing", "stuck"}

VARIABLES
    pc,         \* where the client is
    device,     \* devices_info: the announcement a virtual device was made from
    ready,      \* revents: what poll found ready
    sock,       \* the connection: "none", "up" or "closed" (by the server)
    conn,       \* connections made so far
    pipe,       \* pieces the server has written that the client has not taken
    arrived,    \* how many of them the client's kernel has received
    announced,  \* the server's view: the device it announced for each slot
    requested,  \* the server has the device request of this connection
    up,         \* whether the server accepts connections
    gen,        \* devices announced so far
    fifo,       \* lines written and not read, and whether all writers have left
    lost,       \* history: the client threw bytes of this connection away
    replay      \* history: the report replayed in this turn, the device it went to

client  == <<pc, device, ready, replay>>
network == <<sock, conn, pipe, arrived, announced, requested, up, gen, lost>>
vars    == <<client, network, fifo>>

NoDevice == [gen |-> 0]
NoReplay == [report |-> NoDevice, to |-> NoDevice]
Nothing  == [lines |-> <<>>, left |-> FALSE]
Nobody   == [s \in Slots |-> NoDevice]

\* setup_fifo, build_device_request and setup_devices; setup_server then connects.
Init ==
    /\ pc = "connect" /\ ready = {} /\ device = Nobody /\ replay = NoReplay
    /\ sock = "none" /\ conn = 0 /\ pipe = <<>> /\ arrived = 0
    /\ announced = Nobody /\ requested = FALSE /\ up \in BOOLEAN
    /\ gen = 0 /\ lost = FALSE
    /\ fifo = Nothing

Pieces(m) == << [msg |-> m, part |-> 1], [msg |-> m, part |-> 2] >>

-----------------------------------------------------------------------------
(* The server and the network *)

Write(m) ==
    /\ sock = "up" /\ requested
    /\ Len(pipe) + 2 <= MaxPipe
    /\ pipe' = pipe \o Pieces(m)
    /\ UNCHANGED <<client, fifo, sock, conn, arrived, requested, up, lost>>

Announce(s, shape) ==
    /\ announced[s] = NoDevice /\ gen < MaxGen
    /\ gen' = gen + 1
    /\ LET d == [gen |-> gen + 1, conn |-> conn, shape |-> shape]
       IN  /\ announced' = [announced EXCEPT ![s] = d]
           /\ Write([tag |-> "Info", slot |-> s, dev |-> d])

Report(s) ==
    /\ announced[s] # NoDevice
    /\ Write([tag |-> "Report", slot |-> s, dev |-> announced[s]])
    /\ UNCHANGED <<announced, gen>>

Withdraw(s) ==
    /\ announced[s] # NoDevice
    /\ announced' = [announced EXCEPT ![s] = NoDevice]
    /\ Write([tag |-> "Destroy", slot |-> s])
    /\ UNCHANGED gen

Stray(m) == Write(m) /\ UNCHANGED <<announced, gen>>

Arrive ==
    /\ sock = "up" /\ arrived < Len(pipe)
    /\ arrived' = arrived + 1
    /\ UNCHANGED <<client, fifo, sock, conn, pipe, announced, requested, up, gen, lost>>

\* The server ends, or the connection does: what has arrived can still be read, unless
\* the connection was reset.
Break ==
    /\ sock = "up"
    /\ sock' = "closed"
    /\ arrived' \in {0, arrived}
    /\ pipe' = SubSeq(pipe, 1, arrived')
    /\ announced' = Nobody
    /\ requested' = FALSE
    /\ up' \in BOOLEAN
    /\ UNCHANGED <<client, fifo, conn, gen, lost>>

Return ==
    /\ ~up /\ up' = TRUE
    /\ UNCHANGED <<client, fifo, sock, conn, pipe, arrived, announced, requested, gen, lost>>

\* Other programs write to the fifo and close it.
WriteLine(x) ==
    /\ Len(fifo.lines) < MaxLines
    /\ fifo' = [lines |-> Append(fifo.lines, x), left |-> FALSE]
    /\ UNCHANGED <<client, network>>

WriterLeaves ==
    /\ ~fifo.left
    /\ fifo' = [fifo EXCEPT !.left = TRUE]
    /\ UNCHANGED <<client, network>>

-----------------------------------------------------------------------------
(* Virtual devices *)

\* Bug: the devices of a lost connection are kept.
destroy_devices_forgotten == device
destroy_devices == Nobody

device_exists(s) == s \in Slots /\ device[s] # NoDevice

device_destroy(s) == IF s \in Slots THEN [device EXCEPT ![s] = NoDevice] ELSE device

device_init(m) ==
    IF m.slot \in Slots THEN [device EXCEPT ![m.slot] = m.dev] ELSE device

\* device_emit writes the values of a report to the virtual device, in the order of the
\* device's own lists: that the numbers agree is all that is checked.
device_handle_report(m) ==
    IF device_exists(m.slot) /\ device[m.slot].shape = m.dev.shape
    THEN [report |-> m.dev, to |-> device[m.slot]]
    ELSE replay

-----------------------------------------------------------------------------
(* The fifo *)

\* open_fifo finds the fifo, or nothing it can open: then whatever is at the path is
\* replaced by a fifo, and if that does not help ("stuck") panicf ends the client.
\* Bug: the turn ends there, whatever the socket has.
open_fifo_continue ==
    \E path \in Paths :
        /\ fifo' = [fifo EXCEPT !.left = FALSE]
        /\ pc' = IF path = "stuck" THEN "panic" ELSE "poll"
open_fifo ==
    \E path \in Paths :
        /\ fifo' = [fifo EXCEPT !.left = FALSE]
        /\ pc' = IF path = "stuck" THEN "panic" ELSE "socket"

\* send() on a connection the server has closed returns, or SIGPIPE ends the client.
send(next) == pc' \in IF sock = "up" THEN {next} ELSE {next, "killed"}

\* One read() takes all the lines there are, and only the first one is parsed.
FifoTurn ==
    /\ pc = "fifo"
    /\ \/ /\ fifo.lines = <<>>
          /\ open_fifo
       \/ /\ fifo.lines # <<>>
          /\ fifo' = [fifo EXCEPT !.lines = <<>>]
          /\ IF Head(fifo.lines) = "state" THEN send("socket") ELSE pc' = "socket"
    /\ UNCHANGED <<device, ready, replay, network>>

-----------------------------------------------------------------------------
(* The connection *)

\* One turn of the loop of connect_server: the previous connection is closed and its
\* devices go; connect() then fails, and the loop sleeps, or succeeds.
ConnectFails ==
    /\ pc = "connect" /\ ~up
    /\ sock' = "closed"
    /\ device' = IF sock = "none" THEN device ELSE destroy_devices
    /\ pipe' = <<>> /\ arrived' = 0
    /\ UNCHANGED <<pc, ready, replay, fifo, conn, announced, requested, up, gen, lost>>

Connect ==
    /\ pc = "connect" /\ up /\ conn < MaxConn
    /\ device' = IF sock = "none" THEN device ELSE destroy_devices
    /\ sock' = "up" /\ conn' = conn + 1
    /\ pipe' = <<>> /\ arrived' = 0 /\ lost' = FALSE
    /\ pc' = "request"
    /\ UNCHANGED <<ready, replay, fifo, announced, requested, up, gen>>

\* The request is sent once, if it fits; whether it went out is not looked at.
\* Bug: the request is only sent over the first connection.
SendRequestOnce ==
    /\ pc = "request"
    /\ send("poll")
    /\ requested' = (sock = "up" /\ conn = 1)
    /\ UNCHANGED <<device, ready, replay, fifo, sock, conn, pipe, arrived, announced, up, gen, lost>>
SendRequest ==
    /\ pc = "request"
    /\ IF RequestFits THEN send("poll") ELSE pc' = "poll"
    /\ requested' = (RequestFits /\ sock = "up")
    /\ UNCHANGED <<device, ready, replay, fifo, sock, conn, pipe, arrived, announced, up, gen, lost>>

\* The end of a connection makes the socket readable.
Ready ==
    (IF fifo.lines # <<>> \/ fifo.left THEN {"fifo"} ELSE {})
    \cup (IF arrived > 0 \/ sock = "closed" THEN {"socket"} ELSE {})

Poll ==
    /\ pc = "poll" /\ Ready # {}
    /\ ready' = Ready /\ replay' = NoReplay
    /\ pc' = IF "fifo" \in Ready THEN "fifo" ELSE "socket"
    /\ UNCHANGED <<device, network, fifo>>

\* msg_device_deserialize of what recv(MSG_PEEK) returned: the first message has to be
\* there from its start to its end.
Peeked == SubSeq(pipe, 1, IF arrived < Room THEN arrived ELSE Room)
Parses == Len(Peeked) >= 2 /\ Peeked[1].part = 1

\* Bug: what was peeked is taken, not the message that was parsed.
TakenAll == Len(Peeked)
Taken == 2

\* A readable socket: a message is taken and handled, bytes that are no message are
\* thrown away in a second call of recv, or the connection is found to be lost.
SocketTurn ==
    /\ pc = "socket" /\ ready' = {}
    /\ \/ /\ "socket" \notin ready
          /\ pc' = "poll"
          /\ UNCHANGED <<device, replay, pipe, arrived>>
       \/ /\ "socket" \in ready /\ arrived = 0
          /\ pc' = "connect"
          /\ UNCHANGED <<device, replay, pipe, arrived>>
       \/ /\ "socket" \in ready /\ arrived > 0 /\ ~Parses
          /\ pc' = "discard"
          /\ UNCHANGED <<device, replay, pipe, arrived>>
       \/ /\ "socket" \in ready /\ Parses
          /\ pc' = "poll"
          /\ pipe' = SubSeq(pipe, Taken + 1, Len(pipe))
          /\ arrived' = arrived - Taken
          /\ LET m == pipe[1].msg
             IN  /\ device' = CASE m.tag = "Info"    -> device_init(m)
                                [] m.tag = "Destroy" -> device_destroy(m.slot)
                                [] OTHER             -> device
                 /\ replay' = IF m.tag = "Report" THEN device_handle_report(m) ELSE replay
    /\ UNCHANGED <<fifo, sock, conn, announced, requested, up, gen, lost>>

\* recv(2048) takes whatever is there by now.
Discard ==
    /\ pc = "discard" /\ pc' = "poll"
    /\ pipe' = SubSeq(pipe, Len(Peeked) + 1, Len(pipe))
    /\ arrived' = arrived - Len(Peeked)
    /\ lost' = TRUE
    /\ UNCHANGED <<device, ready, replay, fifo, sock, conn, announced, requested, up, gen>>

ClientStep ==
    ConnectFails \/ Connect \/ SendRequest \/ Poll \/ FifoTurn \/ SocketTurn \/ Discard

Running == pc \notin {"killed", "panic"}

Next ==
    /\ Running
    /\ \/ ClientStep
       \/ \E s \in Slots : (\E shape \in Shapes : Announce(s, shape)) \/ Report(s) \/ Withdraw(s)
       \/ \E m \in Strays : Stray(m)
       \/ Arrive \/ Break \/ Return
       \/ \E x \in Lines : WriteLine(x)
       \/ WriterLeaves

\* The client is a thread that runs whenever it can; TCP delivers what was written on a
\* connection that stays; a server that is gone is started again.
Fairness ==
    /\ WF_vars(Running /\ ClientStep)
    /\ WF_vars(Running /\ Arrive)
    /\ WF_vars(Running /\ Return)

Spec == Init /\ [][Next]_vars /\ Fairness

-----------------------------------------------------------------------------
(***************************************************************************)
(* Properties                                                              *)
(***************************************************************************)
\* Whether a message about the device of slot s starts with the piece.
Changes(piece, s) ==
    /\ piece.part = 1
    /\ piece.msg.tag \in {"Info", "Destroy"}
    /\ piece.msg.slot = s

\* The device slot s is for once the first n of the pieces have been handled by a client
\* with devices devs: what the last message about it says, or the one there is.
InForce(pieces, devs, n, s) ==
    LET about == {i \in 1..n : Changes(pieces[i], s)}
        last  == pieces[Max(about)].msg
    IN  IF about = {} THEN devs[s]
        ELSE IF last.tag = "Info" THEN last.dev ELSE NoDevice

\* As long as the client has thrown nothing away, its virtual devices are those the
\* server had announced over this very connection when it wrote what the client has
\* read: what is still on its way takes them to what the server announces now.
Mirrors ==
    sock = "up" /\ ~lost =>
        \A s \in Slots : InForce(pipe, device, Len(pipe), s) = announced[s]

\* Whatever was thrown away, a report is replayed on a device of the connection it came
\* over and of the shape it was made for; if nothing was, on the device it is about.
ReplayedOnItsDevice ==
    LET r == replay.report
        d == replay.to
    IN  replay # NoReplay =>
            /\ d.conn = r.conn /\ d.shape = r.shape
            /\ r.conn = conn /\ ~lost => d.gen = r.gen

\* A connection that was lost is made again and the devices are requested again, if the
\* request fits the buffer, unless the client was ended: by SIGPIPE, or because it could
\* not open its fifo.  (MaxConn ends the model, not the client.)
Reconnects ==
    sock = "closed" /\ RequestFits ~> requested \/ ~Running \/ (pc = "connect" /\ conn = MaxConn)

\* A device that stays announced gets its virtual device, as long as nothing was thrown
\* away and neither the connection nor the client ends.
Appears ==
    \A s \in Slots, g \in 1..MaxGen :
        announced[s].gen = g
            ~> device[s].gen = g \/ announced[s].gen # g \/ lost \/ ~Running
===============================================================================
