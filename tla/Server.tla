-------------------------------- MODULE Server --------------------------------
(***************************************************************************)
(* The server (server.c): connection threads (server_handle_conn), the     *)
(* device threads they start, one per requested slot (device_thread), and  *)
(* the SIGTERM by which a connection thread ends them                      *)
(* (device_thread_exit), on top of the pool of module HidPool.             *)
(*                                                                         *)
(* The pool's pc says where a device thread is in the functions of hid.c,  *)
(* at where it is in server.c.  A slot is a device thread; Requests[c] are *)
(* the slots a client of connection c asks for.                            *)
(*                                                                         *)
(* Events read from a device and the reports sent for them change nothing  *)
(* that is modelled here: a thread stays at "read" until the device or     *)
(* the connection is lost.                                                 *)
(***************************************************************************)
EXTENDS HidPool

CONSTANTS
    Conn,       \* connections that may be open at the same time
    Requests,   \* Requests[c]: the sequence of slots requested over c
    Leavers,    \* connections whose client may disappear
    Sends,      \* the kinds of messages clients send
    MaxInbox,   \* bound: unread messages of a client
    MaxIds      \* bound: connections that are accepted

ASSUME ServerAssumption ==
    /\ Requests \in [Conn -> Seq(Thread)]
    /\ \A t \in Thread : \E c \in Conn : t \in Range(Requests[c])
    /\ \A c, d \in Conn : \A i \in 1..Len(Requests[c]), j \in 1..Len(Requests[d]) :
          Requests[c][i] = Requests[d][j] => c = d /\ i = j
    /\ Leavers \subseteq Conn
    /\ Sends \subseteq {"Request", "ControllerState", "Other"}
    /\ MaxInbox \in Nat
    /\ MaxIds \in Nat

VARIABLES
    conn,       \* connection thread: pc, loop index i, state of its local ctr
    got,        \* got_request
    sock,       \* "none", "up", "lost" (the client is gone), "down" (shutdown)
    inbox,      \* what the client has sent and recv has not returned yet
    at,         \* where each device thread is in server.c
    slot,       \* *args->controller: "null", "block" (allocated) or "freed"
    sig,        \* SIGTERM of each device thread: "none", "pending", "handling"
    relock,     \* interrupted in pthread_cond_wait: takes the mutex when it ends
    handler,    \* what SIGTERM runs, for the whole process
    ids,        \* connections accepted so far
    wire,       \* gen of the device announced for the slot, 0 when none is
    clean       \* history: no thread ended inside a call, none returned a
                \* device it had forgotten or returned before

conns   == <<conn, got, sock, inbox>>
threads == <<at, slot, sig, relock, wire, clean>>
proc    == <<handler, ids>>
svars   == <<conns, threads, proc>>
allvars == <<vars, svars>>

SlotsOf(c) == Range(Requests[c])
ConnOf(t)  == CHOOSE c \in Conn : t \in SlotsOf(c)

\* Messages of a client: the request, a controller state for a slot index (the
\* last one is past the end), and everything that does not parse or is illegal.
Message(c) ==
    [tag : {"Request", "Other"}, index : {0}]
    \cup [tag : {"ControllerState"}, index : 0..Len(Requests[c])]

\* device_threads.len and device_controllers.len outside the creating loop.
SlotCount(c) == IF got[c] THEN Len(Requests[c]) ELSE 0

Idle == [pc |-> "idle", i |-> 0, ctr |-> "none"]

ServerInit ==
    /\ Init
    /\ conn = [c \in Conn |-> Idle]
    /\ got = [c \in Conn |-> FALSE]
    /\ sock = [c \in Conn |-> "none"]
    /\ inbox = [c \in Conn |-> <<>>]
    /\ at = [t \in Thread |-> "idle"]
    /\ slot = [t \in Thread |-> "null"]
    /\ sig = [t \in Thread |-> "none"]
    /\ relock = [t \in Thread |-> FALSE]
    /\ handler = "clean_exit"
    /\ ids = 0
    /\ wire = [t \in Thread |-> 0]
    /\ clean = TRUE

ConnGoto(c, label) == conn' = [conn EXCEPT ![c].pc = label]
At(t, label)       == at' = [at EXCEPT ![t] = label]

\* free() of the Controller of slot t: the pointer a connection thread has just
\* read from the slot dangles.
Dangle(t) ==
    [c \in Conn |-> IF /\ conn[c].pc = "apply"
                       /\ t = Requests[c][conn[c].i + 1]
                       /\ slot[t] = "block"
                    THEN [conn[c] EXCEPT !.ctr = "freed"]
                    ELSE conn[c]]

-----------------------------------------------------------------------------
(* The clients and the network *)

PeerSend(c, m) ==
    /\ Running
    /\ sock[c] = "up"
    /\ Len(inbox[c]) < MaxInbox
    /\ inbox' = [inbox EXCEPT ![c] = Append(@, m)]
    /\ UNCHANGED <<vars, conn, got, sock, threads, proc>>

PeerLeave(c) ==
    /\ Running
    /\ c \in Leavers
    /\ sock[c] = "up"
    /\ sock' = [sock EXCEPT ![c] = "lost"]
    /\ UNCHANGED <<vars, conn, got, inbox, threads, proc>>

\* Whether write on the socket of slot t can succeed, and whether it can fail:
\* after the client is gone it does either.
CanWrite(t)  == sock[ConnOf(t)] \in {"up", "lost"}
CannotWrite(t) == sock[ConnOf(t)] \in {"lost", "down"}

-----------------------------------------------------------------------------
(* server_run and server_handle_conn *)

\* accept, and a thread for the connection.
ConnAccept(c) ==
    /\ Running
    /\ conn[c].pc = "idle"
    /\ ConnGoto(c, "poll")
    /\ sock' = [sock EXCEPT ![c] = "up"]
    /\ ids < MaxIds
    /\ ids' = ids + 1
    /\ UNCHANGED <<vars, got, inbox, threads, handler>>

\* Bug: the connections that have sent a request are closed, and no others.
ConnTimeoutInverted(c) ==
    /\ Running
    /\ conn[c].pc = "poll"
    /\ sock[c] = "up"
    /\ inbox[c] = <<>>
    /\ got[c]
    /\ ConnGoto(c, "shutdown")
    /\ UNCHANGED <<vars, got, sock, inbox, threads, proc>>

\* poll returned 0: no message for request_timeout.  After the request it goes
\* on polling.
ConnTimeout(c) ==
    /\ Running
    /\ conn[c].pc = "poll"
    /\ sock[c] = "up"
    /\ inbox[c] = <<>>
    /\ ~got[c]
    /\ ConnGoto(c, "shutdown")
    /\ UNCHANGED <<vars, got, sock, inbox, threads, proc>>

\* POLLHUP or POLLERR, or recv returned nothing.
ConnLost(c) ==
    /\ Running
    /\ conn[c].pc = "poll"
    /\ sock[c] = "lost"
    /\ ConnGoto(c, "shutdown")
    /\ UNCHANGED <<vars, got, sock, inbox, threads, proc>>

\* A controller state is for a slot that exists and has a controller, or it is
\* dropped; only the first request counts.
Handle(c, m) ==
    \/ /\ m.tag = "ControllerState"
       /\ m.index < SlotCount(c)
       /\ slot[Requests[c][m.index + 1]] # "null"
       /\ conn' = [conn EXCEPT ![c] = [pc |-> "apply", i |-> m.index,
                                      ctr |-> slot[Requests[c][m.index + 1]]]]
       /\ UNCHANGED got
    \/ /\ m.tag = "ControllerState"
       /\ m.index < SlotCount(c) => slot[Requests[c][m.index + 1]] = "null"
       /\ UNCHANGED <<conn, got>>
    \/ /\ m.tag = "Request"
       /\ ~got[c]
       /\ got' = [got EXCEPT ![c] = TRUE]
       /\ conn' = [conn EXCEPT ![c] = [pc |-> "create", i |-> 1, ctr |-> "none"]]
    \/ /\ m.tag = "Other" \/ (m.tag = "Request" /\ got[c])
       /\ UNCHANGED <<conn, got>>

\* recv returns what has come in, which is at least one message and may be
\* several; the first one is handled and the rest of the buffer is dropped.
\* A message that came in pieces does not parse.
ConnRecv(c) ==
    /\ Running
    /\ conn[c].pc = "poll"
    /\ inbox[c] # <<>>
    /\ \E n \in 1..Len(inbox[c]) :
          inbox' = [inbox EXCEPT ![c] = SubSeq(@, n + 1, Len(@))]
    /\ Handle(c, Head(inbox[c])) \/ UNCHANGED <<conn, got>>
    /\ UNCHANGED <<vars, sock, threads, proc>>

\* One turn of the loop over the requested slots: push NULL, pthread_create.
ConnCreate(c) ==
    /\ Running
    /\ conn[c].pc = "create"
    /\ IF conn[c].i > Len(Requests[c])
       THEN /\ ConnGoto(c, "poll")
            /\ UNCHANGED <<pc, ctr, stop, at, slot>>
       ELSE LET t == Requests[c][conn[c].i] IN
            /\ conn' = [conn EXCEPT ![c].i = @ + 1]
            /\ slot' = [slot EXCEPT ![t] = "null"]
            /\ At(t, "new")
            /\ Goto(t, "out")
            /\ stop' = [stop EXCEPT ![t] = FALSE]
            /\ ctr' = [ctr EXCEPT ![t] = NoCtr]
    /\ UNCHANGED <<env, pool, ref_index, hid, fault, got, sock, inbox, sig, relock,
                   wire, clean, proc>>

\* apply_controller_state reads the Controller and writes to its hidraw.
ConnApply(c) ==
    /\ Running
    /\ conn[c].pc = "apply"
    /\ IF conn[c].ctr = "freed"
       THEN fault' = "use after free" /\ UNCHANGED conn
       ELSE ConnGoto(c, "poll") /\ UNCHANGED fault
    /\ UNCHANGED <<env, pool, local, stop, hid, got, sock, inbox, threads, proc>>

ConnShutdown(c) ==
    /\ Running
    /\ conn[c].pc = "shutdown"
    /\ sock' = [sock EXCEPT ![c] = "down"]
    /\ ConnGoto(c, "close")
    /\ UNCHANGED <<vars, got, inbox, threads, proc>>

\* args->closed = true.
ConnClose(c) ==
    /\ Running
    /\ conn[c].pc = "close"
    /\ stop' = [t \in Thread |-> stop[t] \/ t \in SlotsOf(c)]
    /\ conn' = [conn EXCEPT ![c] = [pc |-> "kill", i |-> 1, ctr |-> "none"]]
    /\ UNCHANGED <<env, pool, local, hid, fault, got, sock, inbox, threads, proc>>

\* Bug: the flag closed is taken to be enough.
ConnKillNothing(c) ==
    /\ Running
    /\ conn[c].pc = "kill"
    /\ conn[c].i <= SlotCount(c)
    /\ ConnGoto(c, "join")
    /\ UNCHANGED <<vars, got, sock, inbox, threads, proc>>

\* pthread_kill(SIGTERM) of the next device thread, then pthread_join.
ConnKill(c) ==
    /\ Running
    /\ conn[c].pc = "kill"
    /\ conn[c].i <= SlotCount(c)
    /\ sig' = [sig EXCEPT ![Requests[c][conn[c].i]] = "pending"]
    /\ ConnGoto(c, "join")
    /\ UNCHANGED <<vars, got, sock, inbox, at, slot, relock, wire, clean, proc>>

\* Bug: pthread_join is left out.
ConnJoinNothing(c) ==
    /\ Running
    /\ conn[c].pc = "join"
    /\ conn' = [conn EXCEPT ![c] = [pc |-> "kill", i |-> @.i + 1, ctr |-> "none"]]
    /\ UNCHANGED <<vars, got, sock, inbox, threads, proc>>

ConnJoin(c) ==
    /\ Running
    /\ conn[c].pc = "join"
    /\ at[Requests[c][conn[c].i]] = "dead"
    /\ conn' = [conn EXCEPT ![c] = [pc |-> "kill", i |-> @.i + 1, ctr |-> "none"]]
    /\ UNCHANGED <<vars, got, sock, inbox, threads, proc>>

\* free(args) and the two vectors; the descriptor of the socket is not closed.
ConnFree(c) ==
    /\ Running
    /\ conn[c].pc = "kill"
    /\ conn[c].i > SlotCount(c)
    /\ conn' = [conn EXCEPT ![c] = Idle]
    /\ got' = [got EXCEPT ![c] = FALSE]
    /\ sock' = [sock EXCEPT ![c] = "none"]
    /\ inbox' = [inbox EXCEPT ![c] = <<>>]
    /\ at' = [t \in Thread |->
                IF t \in SlotsOf(c) /\ at[t] = "dead" THEN "idle" ELSE at[t]]
    /\ sig' = [t \in Thread |-> IF t \in SlotsOf(c) THEN "none" ELSE sig[t]]
    /\ relock' = [t \in Thread |-> relock[t] /\ t \notin SlotsOf(c)]
    /\ wire' = [t \in Thread |-> IF t \in SlotsOf(c) THEN 0 ELSE wire[t]]
    /\ UNCHANGED <<vars, slot, clean, proc>>

-----------------------------------------------------------------------------
(* device_thread *)

\* pthread_setspecific.
SetArgs(t) ==
    /\ Running
    /\ at[t] = "new"
    /\ At(t, "trap")
    /\ UNCHANGED <<vars, conns, slot, sig, relock, wire, clean, proc>>

\* TRAP(SIGTERM, device_thread_exit), which is for all threads of the process.
Trap(t) ==
    /\ Running
    /\ at[t] = "trap"
    /\ handler' = "device_thread_exit"
    /\ At(t, "top")
    /\ UNCHANGED <<vars, conns, slot, sig, relock, wire, clean, ids>>

\* Top of the loop: free the last controller, allocate one, call get_device.
Top(t) ==
    /\ Running
    /\ at[t] = "top"
    /\ conn' = Dangle(t)
    /\ slot' = [slot EXCEPT ![t] = "null"]
    /\ At(t, "get")
    /\ Goto(t, "glock")
    /\ ctr' = [ctr EXCEPT ![t] = NoCtr]
    /\ UNCHANGED <<env, pool, ref_index, stop, hid, fault, got, sock, inbox, sig,
                   relock, wire, clean, proc>>

\* A step of get_device, return_device or forget_device.
InPool(t) ==
    /\ at[t] \in {"get", "forget", "return"}
    /\ PoolCall(t) \/ GetSpurious(t)
    /\ UNCHANGED svars

\* *args->controller = ctr.
Store(t) ==
    /\ Running
    /\ at[t] = "get"
    /\ pc[t] = "got"
    /\ slot' = [slot EXCEPT ![t] = "block"]
    /\ At(t, "info")
    /\ UNCHANGED <<vars, conns, sig, relock, wire, clean, proc>>

\* get_device returned false.
GotNone(t) ==
    /\ Running
    /\ at[t] = "get"
    /\ pc[t] = "none"
    /\ At(t, "exit")
    /\ UNCHANGED <<vars, conns, slot, sig, relock, wire, clean, proc>>

\* Send the device info.
SendInfo(t) ==
    /\ Running
    /\ at[t] = "info"
    /\ \/ /\ CanWrite(t)
          /\ wire' = [wire EXCEPT ![t] = ctr[t].gen]
          /\ At(t, "read")
       \/ /\ CannotWrite(t)
          /\ At(t, "exit")
          /\ UNCHANGED wire
    /\ UNCHANGED <<vars, conns, slot, sig, relock, clean, proc>>

\* Bug: the device is lost, and the client told, but it is not forgotten.
ReadNoForget(t) ==
    /\ Running
    /\ at[t] = "read"
    /\ Gone(ctr[t])
    /\ At(t, "destroy")
    /\ UNCHANGED <<vars, conns, slot, sig, relock, wire, clean, proc>>

\* read fails: the device is lost, forget it.
ReadLost(t) ==
    /\ Running
    /\ at[t] = "read"
    /\ Gone(ctr[t])
    /\ At(t, "forget")
    /\ Goto(t, "flock")
    /\ UNCHANGED <<env, pool, ctr, ref_index, stop, hid, fault, conns, slot, sig,
                   relock, wire, clean, proc>>

Forgot(t) ==
    /\ Running
    /\ at[t] = "forget"
    /\ pc[t] = "forgot"
    /\ At(t, "destroy")
    /\ UNCHANGED <<vars, conns, slot, sig, relock, wire, clean, proc>>

\* Bug: the destroy message is only for a device that is still there.
SendNoDestroy(t) ==
    /\ Running
    /\ at[t] = "destroy"
    /\ At(t, "top")
    /\ UNCHANGED <<vars, conns, slot, sig, relock, wire, clean, proc>>

\* Send the destroy message.
SendDestroy(t) ==
    /\ Running
    /\ at[t] = "destroy"
    /\ \/ /\ CanWrite(t)
          /\ wire' = [wire EXCEPT ![t] = 0]
          /\ At(t, "top")
       \/ /\ CannotWrite(t)
          /\ At(t, "exit")
          /\ UNCHANGED wire
    /\ UNCHANGED <<vars, conns, slot, sig, relock, clean, proc>>

-----------------------------------------------------------------------------
(* device_thread_exit, called by the thread or as the handler of SIGTERM *)

\* Bug: the controller is freed but not returned.
ExitNoReturn(t) ==
    /\ Running
    /\ at[t] = "exit"
    /\ slot[t] = "block"
    /\ At(t, "unwind")
    /\ UNCHANGED <<vars, conns, slot, sig, relock, wire, clean, proc>>

\* The controller of the slot is returned, whatever became of it.
ExitReturn(t) ==
    /\ Running
    /\ at[t] = "exit"
    /\ slot[t] = "block"
    /\ At(t, "return")
    /\ Goto(t, "rlock")
    /\ clean' = (clean /\ pc[t] \in {"got", "rlock"})
    /\ UNCHANGED <<env, pool, ctr, ref_index, stop, hid, fault, conns, slot, sig,
                   relock, wire, proc>>

\* free(ctr), the tags and args.
ExitFree(t) ==
    /\ Running
    /\ \/ at[t] = "exit" /\ slot[t] = "null"
       \/ at[t] = "return" /\ pc[t] = "returned"
    /\ conn' = Dangle(t)
    /\ slot' = [slot EXCEPT ![t] = IF @ = "block" THEN "freed" ELSE @]
    /\ At(t, "unwind")
    /\ UNCHANGED <<vars, got, sock, inbox, sig, relock, wire, clean, proc>>

\* pthread_exit.  A thread that was interrupted in pthread_cond_wait runs the
\* cleanup of that call, which takes the mutex again and never lets go of it.
Unwind(t) ==
    /\ Running
    /\ at[t] = "unwind"
    /\ IF relock[t]
       THEN devices_mutex = NoOwner /\ devices_mutex' = t
       ELSE UNCHANGED devices_mutex
    /\ At(t, "dead")
    /\ UNCHANGED <<env, known, available, cloneable, known_mutex, open, local, stop,
                   hid, fault, conns, slot, sig, relock, wire, clean, proc>>

\* What the thread was doing can be cut short: it holds no mutex, does not wait
\* for one to be handed back, has no controller that *args->controller does not
\* name, and is not forgetting the one it names.
Interruptible(t) ==
    /\ devices_mutex # t
    /\ known_mutex # t
    /\ pc[t] # "gwait"
    /\ at[t] = "get" => pc[t] # "got"
    /\ at[t] # "forget"

\* SIGTERM is delivered: what the thread was doing ends here.  (A handler that
\* already runs is not interrupted by the same signal.)
Signal(t) ==
    /\ Running
    /\ sig[t] = "pending"
    /\ at[t] \notin {"idle", "dead"}
    /\ sig' = [sig EXCEPT ![t] = "handling"]
    /\ \/ /\ handler = "clean_exit"
          /\ fault' = "exit(0)"
          /\ UNCHANGED <<at, relock, pc, clean>>
       \/ /\ handler = "device_thread_exit"
          /\ at[t] = "new"
          /\ fault' = "NULL args"
          /\ UNCHANGED <<at, relock, pc, clean>>
       \/ /\ handler = "device_thread_exit"
          /\ at[t] = "unwind"
          /\ fault' = "use after free"
          /\ UNCHANGED <<at, relock, pc, clean>>
       \/ /\ handler = "device_thread_exit"
          /\ at[t] \notin {"new", "unwind"}
          /\ At(t, "exit")
          /\ relock' = [relock EXCEPT ![t] = pc[t] = "gwait"]
          /\ Goto(t, IF slot[t] = "null" /\ pc[t] # "none" THEN "out" ELSE pc[t])
          /\ clean' = (clean /\ Interruptible(t))
          /\ UNCHANGED fault
    /\ UNCHANGED <<env, pool, ctr, ref_index, stop, hid, conns, slot, wire, proc>>

-----------------------------------------------------------------------------
Peer(c) ==
    \/ PeerLeave(c)
    \/ \E m \in Message(c) : m.tag \in Sends /\ PeerSend(c, m)

ConnStep(c) ==
    \/ ConnTimeout(c) \/ ConnLost(c) \/ ConnRecv(c) \/ ConnCreate(c) \/ ConnApply(c)
    \/ ConnShutdown(c) \/ ConnClose(c) \/ ConnKill(c) \/ ConnJoin(c) \/ ConnFree(c)

ThreadStep(t) ==
    \/ SetArgs(t) \/ Trap(t) \/ Top(t) \/ Store(t) \/ GotNone(t)
    \/ SendInfo(t) \/ ReadLost(t) \/ Forgot(t) \/ SendDestroy(t)
    \/ ExitReturn(t) \/ ExitFree(t) \/ Unwind(t)

Stopped == ~Running /\ UNCHANGED allvars

ServerNext ==
    \/ (Kernel \/ PollStep) /\ UNCHANGED svars
    \/ \E c \in Conn : Peer(c) \/ ConnAccept(c) \/ ConnStep(c)
    \/ \E t \in Thread : InPool(t) \/ ThreadStep(t) \/ Signal(t)
    \/ Stopped

ServerSpec == ServerInit /\ [][ServerNext]_allvars

(***************************************************************************)
(* Fairness: every thread runs, a mutex that keeps being free is got in    *)
(* the end (strong fairness of the steps that lock), a pending signal is   *)
(* delivered, and poll times out when nothing comes in.  Nothing is        *)
(* assumed of devices and clients, nor that a spurious wake-up happens.    *)
(***************************************************************************)
LockStep(t) == at[t] \in {"get", "forget", "return"} /\ PoolCall(t) /\ UNCHANGED svars

FairServerSpec ==
    /\ ServerSpec
    /\ SF_allvars(PollStep /\ UNCHANGED svars)
    /\ \A c \in Conn : WF_allvars(ConnStep(c))
    /\ \A t \in Thread :
          SF_allvars(LockStep(t)) /\ SF_allvars(ThreadStep(t)) /\ WF_allvars(Signal(t))

-----------------------------------------------------------------------------
(* Properties *)

ConnPC == {"idle", "poll", "create", "apply", "shutdown", "close", "kill", "join"}
AtPC   == {"idle", "new", "trap", "top", "get", "info", "read", "forget", "destroy",
           "exit", "return", "unwind", "dead"}

ConnTypeOK ==
    /\ conn \in [Conn -> [pc : ConnPC, i : Nat,
                          ctr : {"none", "null", "block", "freed"}]]
    /\ got \in [Conn -> BOOLEAN]
    /\ sock \in [Conn -> {"none", "up", "lost", "down"}]
    /\ DOMAIN inbox = Conn
    /\ \A c \in Conn : inbox[c] \in Seq(Message(c)) /\ Len(inbox[c]) <= MaxInbox

SlotTypeOK ==
    /\ at \in [Thread -> AtPC]
    /\ slot \in [Thread -> {"null", "block", "freed"}]
    /\ sig \in [Thread -> {"none", "pending", "handling"}]
    /\ relock \in [Thread -> BOOLEAN]
    /\ wire \in [Thread -> 0..MaxPlug]
    /\ clean \in BOOLEAN

\* Types of the variables of server.c; those of hid.c as in HidPool, with the
\* faults only server.c has.
ServerTypeOK ==
    /\ PoolTypeOK /\ ThreadTypeOK /\ HidTypeOK
    /\ ConnTypeOK /\ SlotTypeOK
    /\ fault \in Faults \cup {"exit(0)", "NULL args", "use after free"}
    /\ handler \in {"clean_exit", "device_thread_exit"}
    /\ ids \in 0..MaxIds

\* As long as clean holds, the device threads use the pool as HidPool's callers
\* do: each step of the server is a step of the pool or leaves it alone, also
\* while connections come and go.
CleanContract == Init /\ [][clean' /\ Running' => Next]_vars

\* server_handle_conn frees the connection its device threads point to only
\* when all of them have ended.
JoinedBeforeFree ==
    \A c \in Conn : conn[c].pc = "idle" => \A t \in SlotsOf(c) : at[t] = "idle"

\* A client can tell which device the reports of a slot are from: a thread reads
\* a device only while that device is announced for its slot, and a slot has no
\* device announced while its thread looks for one or is about to announce one.
Announced ==
    \A t \in Thread :
       /\ at[t] = "read" => wire[t] = ctr[t].gen
       /\ at[t] \in {"new", "trap", "top", "get", "info"} => wire[t] = 0

Closing(c) == conn[c].pc \in {"shutdown", "close", "kill", "join"}
Silent(c)  == conn[c].pc = "poll" /\ ~got[c] /\ inbox[c] = <<>>

\* No connection is kept for nothing: neither one whose client connects and then stays
\* silent ("Number of seconds to wait for a client's request before closing the connection",
\* README.md), nor one that is closing, whose device threads have to end first, wherever
\* SIGTERM finds them, unless it ended a thread inside a call (~clean).
ConnectionsEnd ==
    \A c \in Conn : ~<>[](Running /\ (Silent(c) \/ (clean /\ Closing(c))))

\* The slot of t has no use of a device that suits it and that nobody else has,
\* though its client is there.
Unserved(t) ==
    /\ Running
    /\ clean
    /\ sock[ConnOf(t)] = "up"
    /\ at[t] # "idle"
    /\ \E e \in Event :
          /\ plugged[e] # NoDev
          /\ plugged[e].cfg # 0
          /\ \E i \in 1..Len(Tags[t]) : Tags[t][i] = Config[plugged[e].cfg].tag
          /\ wire[t] # plugged[e].gen
          /\ \A u \in Thread \ {t} : Holds(u) => ctr[u].gen # plugged[e].gen

\* "picking up any device with the vendor id ..., and forwarding it to the client
\* when it connects" (README.md): no requested slot stays empty while a device
\* that suits it is plugged in and in no other slot, also after the slot has lost a
\* device and for a client that connects again, unless a thread was ended inside a
\* call (~clean).
Forwarded == \A t \in Thread : ~<>[]Unserved(t)

\* get_device "is thread safe" (hid.c): no thread that has ended owns a mutex.
MutexesReleased ==
    \A t \in Thread : at[t] = "dead" => devices_mutex # t /\ known_mutex # t
==============================================================================
