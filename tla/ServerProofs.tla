---------------------------- MODULE ServerProofs ----------------------------
(***************************************************************************)
(* Proofs about the server: connection threads, device threads and the     *)
(* SIGTERM by which they end, for every number of connections, slots and   *)
(* devices.                                                                *)
(***************************************************************************)
EXTENDS Server, HidPoolProofs, SequenceTheorems

-----------------------------------------------------------------------------
(* The inductive invariant *)

\* The kernel's part of the types, which ServerTypeOK leaves out.
EnvTypeOK ==
    /\ plugged \in [Event -> Device \cup {NoDev}]
    /\ plugs \in 0..MaxPlug

\* A thread that has a controller in hid.c or in its slot has all of it.
CompleteSlots ==
    Complete /\ \A t \in Thread : slot[t] = "block" => ctr[t] \in Controller

\* Where a device thread can be in hid.c for each place in server.c, and what its slot
\* holds there.  Only device_thread_exit may find any of them.
Where(t) ==
    /\ at[t] \in {"new", "trap"} => pc[t] = "out" /\ slot[t] = "null"
    /\ at[t] = "top" => \/ pc[t] = "out" /\ slot[t] = "null"
                        \/ pc[t] = "forgot" /\ slot[t] = "block"
    /\ at[t] = "get" =>
          /\ pc[t] \in {"glock", "gscan", "gwait", "gunlock", "gstop", "got", "none"}
          /\ slot[t] = "null"
    /\ at[t] \in {"info", "read"} => pc[t] = "got" /\ slot[t] = "block"
    /\ at[t] = "forget" => /\ pc[t] \in {"flock", "fclose", "fremove", "forgot"}
                           /\ slot[t] = "block"
    /\ at[t] = "destroy" => pc[t] = "forgot" /\ slot[t] = "block"
    /\ at[t] = "exit" => \/ slot[t] = "block"
                         \/ slot[t] = "null" /\ pc[t] \in {"out", "none"}
    /\ at[t] = "return" => pc[t] \in {"rlock", "rpush", "returned"} /\ slot[t] = "block"
    /\ at[t] \in {"idle", "unwind", "dead"} => pc[t] \in {"out", "none", "returned"}

\* A connection's device threads exist from their turn of the creating loop to the end of
\* the connection, and those it has joined are dead.
Phase(c) ==
    /\ conn[c].pc = "idle" => ~got[c]
    /\ ~got[c] => \A j \in 1..Len(Requests[c]) : at[Requests[c][j]] = "idle"
    /\ conn[c].pc = "create" =>
          /\ got[c] /\ conn[c].i >= 1
          /\ \A j \in 1..Len(Requests[c]) : j < conn[c].i <=> at[Requests[c][j]] # "idle"
    /\ got[c] /\ conn[c].pc # "create" =>
          \A j \in 1..Len(Requests[c]) : at[Requests[c][j]] # "idle"
    /\ conn[c].pc \in {"kill", "join"} =>
          /\ conn[c].i >= 1
          /\ \A j \in 1..Len(Requests[c]) : stop[Requests[c][j]]
          /\ got[c] => \A j \in 1..Len(Requests[c]) :
                          j < conn[c].i => at[Requests[c][j]] = "dead"
    /\ conn[c].pc = "join" => got[c] /\ conn[c].i <= Len(Requests[c])

\* A signal is sent only to a thread whose connection has closed; a slot without a thread
\* has neither a signal nor a device announced, and was never used or was stopped; a thread
\* interrupted in pthread_cond_wait is not clean.
Flags(t) ==
    /\ sig[t] # "none" => stop[t]
    /\ at[t] = "idle" =>
          /\ sig[t] = "none" /\ wire[t] = 0
          /\ stop[t] \/ (pc[t] = "out" /\ ctr[t] = NoCtr)
    /\ clean => ~relock[t]

SInv ==
    /\ ServerTypeOK /\ EnvTypeOK /\ CompleteSlots
    /\ \A t \in Thread : Where(t) /\ Flags(t)
    /\ \A c \in Conn : Phase(c)
    /\ Announced
    /\ clean /\ Running => DInv

-----------------------------------------------------------------------------
(* Types *)

\* The types of the pool's variables, without the faults.
HidTypes == PoolTypeOK /\ ThreadTypeOK /\ HidTypeOK /\ EnvTypeOK

\* The actions that change no variable of hid.c.
ConnOnly(c) ==
    \/ Peer(c) \/ ConnAccept(c) \/ ConnTimeout(c) \/ ConnLost(c) \/ ConnRecv(c)
    \/ ConnShutdown(c) \/ ConnKill(c) \/ ConnJoin(c) \/ ConnFree(c)
ThreadOnly(t) ==
    \/ SetArgs(t) \/ Trap(t) \/ Store(t) \/ GotNone(t) \/ SendInfo(t) \/ Forgot(t)
    \/ SendDestroy(t) \/ ExitFree(t)

\* Those actions leave the pool alone.
LEMMA OutsidePool ==
    /\ \A c \in Conn : ConnOnly(c) => UNCHANGED vars
    /\ \A t \in Thread : ThreadOnly(t) => UNCHANGED vars
<1>1. ASSUME NEW c \in Conn, ConnOnly(c) PROVE UNCHANGED vars
  BY <1>1 DEF ConnOnly, Peer, PeerSend, PeerLeave, ConnAccept, ConnTimeout, ConnLost, ConnRecv,
              ConnShutdown, ConnKill, ConnJoin, ConnFree
<1>2. ASSUME NEW t \in Thread, ThreadOnly(t) PROVE UNCHANGED vars
  BY <1>2 DEF ThreadOnly, SetArgs, Trap, Store, GotNone, SendInfo, Forgot, SendDestroy, ExitFree
<1> QED BY <1>1, <1>2

\* recv takes messages from the front of what has come in.
LEMMA TakesFront ==
    ASSUME NEW S, NEW s \in Seq(S), NEW n \in 1..Len(s)
    PROVE  /\ SubSeq(s, n + 1, Len(s)) \in Seq(S)
           /\ Len(SubSeq(s, n + 1, Len(s))) <= Len(s)
<1>1. \A i \in (n + 1)..Len(s) : s[i] \in S
  OBVIOUS
<1>2. n + 1 \in Int /\ Len(s) \in Int
  OBVIOUS
<1>3. /\ SubSeq(s, n + 1, Len(s)) \in Seq(S)
      /\ Len(SubSeq(s, n + 1, Len(s))) = IF n + 1 <= Len(s) THEN Len(s) - (n + 1) + 1 ELSE 0
  BY <1>1, <1>2, SubSeqProperties
<1> QED BY <1>3

\* A connection whose controller is freed while it uses it keeps its type.
LEMMA DangleType ==
    ASSUME ConnTypeOK, NEW t \in Thread, conn' = Dangle(t), UNCHANGED <<got, sock, inbox>>
    PROVE  ConnTypeOK'
BY ZenonT(60) DEF ConnTypeOK, Dangle

ConnState ==
    [pc : ConnPC, i : Nat, ctr : {"none", "null", "block", "freed"}]

\* The ways a connection thread's own state changes.
LEMMA ConnMoves ==
    ASSUME conn \in [Conn -> ConnState], NEW c \in Conn,
           \/ UNCHANGED conn
           \/ \E l \in ConnPC : ConnGoto(c, l)
           \/ conn' = [conn EXCEPT ![c].i = @ + 1]
           \/ \E s \in ConnState : conn' = [conn EXCEPT ![c] = s]
    PROVE  conn' \in [Conn -> ConnState]
<1>1. ASSUME NEW l \in ConnPC, ConnGoto(c, l) PROVE conn' \in [Conn -> ConnState]
  <2>1. [conn[c] EXCEPT !.pc = l] \in ConnState
    BY DEF ConnState
  <2>2. conn' = [conn EXCEPT ![c] = [conn[c] EXCEPT !.pc = l]]
    BY <1>1 DEF ConnGoto
  <2> QED BY <2>1, <2>2
<1>2. ASSUME conn' = [conn EXCEPT ![c].i = @ + 1] PROVE conn' \in [Conn -> ConnState]
  <2>1. [conn[c] EXCEPT !.i = @ + 1] \in ConnState
    BY DEF ConnState
  <2>2. conn' = [conn EXCEPT ![c] = [conn[c] EXCEPT !.i = @ + 1]]
    BY <1>2
  <2> QED BY <2>1, <2>2
<1> QED BY <1>1, <1>2

\* The types of what the clients send.
Inboxes ==
    /\ DOMAIN inbox = Conn
    /\ \A c \in Conn : inbox[c] \in Seq(Message(c)) /\ Len(inbox[c]) <= MaxInbox

\* A message is handled: the connection thread looks at a slot that exists.
LEMMA HandleMoves ==
    ASSUME conn \in [Conn -> ConnState], got \in [Conn -> BOOLEAN],
           slot \in [Thread -> {"null", "block", "freed"}],
           NEW c \in Conn, NEW m \in Message(c), Handle(c, m)
    PROVE  got' \in [Conn -> BOOLEAN] /\ conn' \in [Conn -> ConnState]
<1>1. CASE m.tag = "ControllerState" /\ m.index < SlotCount(c)
  <2>1. m.index \in Nat /\ m.index + 1 \in 1..Len(Requests[c])
    <3>1. Len(Requests[c]) \in Nat
      BY ServerAssumption
    <3> QED BY <1>1, <3>1 DEF SlotCount, Message
  <2>2. slot[Requests[c][m.index + 1]] \in {"null", "block", "freed"}
    BY <2>1, ServerAssumption
  <2>3. [pc |-> "apply", i |-> m.index, ctr |-> slot[Requests[c][m.index + 1]]] \in ConnState
    BY <2>1, <2>2 DEF ConnState, ConnPC
  <2> QED BY <1>1, <2>3, ConnMoves DEF Handle
<1>2. CASE ~(m.tag = "ControllerState" /\ m.index < SlotCount(c))
  <2>1. [pc |-> "create", i |-> 1, ctr |-> "none"] \in ConnState
    BY DEF ConnState, ConnPC
  <2> QED BY <1>2, <2>1, ConnMoves DEF Handle
<1> QED BY <1>1, <1>2

\* What the connection threads and the clients do to conn, got, sock and inbox.
LEMMA ConnTypes ==
    ASSUME ConnTypeOK, slot \in [Thread -> {"null", "block", "freed"}], NEW c \in Conn,
           Peer(c) \/ ConnAccept(c) \/ ConnStep(c)
    PROVE  ConnTypeOK'
<1>0. /\ conn \in [Conn -> ConnState] /\ got \in [Conn -> BOOLEAN] /\ Inboxes
      /\ sock \in [Conn -> {"none", "up", "lost", "down"}]
  BY DEF ConnTypeOK, ConnState, Inboxes
<1> SUFFICES /\ conn' \in [Conn -> ConnState] /\ got' \in [Conn -> BOOLEAN] /\ Inboxes'
             /\ sock' \in [Conn -> {"none", "up", "lost", "down"}]
  BY DEF ConnTypeOK, ConnState, Inboxes
<1>1. CASE \E m \in Message(c) : PeerSend(c, m)
  <2>1. PICK m \in Message(c) : PeerSend(c, m)
    BY <1>1
  <2>2. /\ Append(inbox[c], m) \in Seq(Message(c))
        /\ Len(Append(inbox[c], m)) <= MaxInbox
    BY <1>0, <2>1, ServerAssumption DEF PeerSend, Inboxes
  <2>3. Inboxes'
    BY <1>0, <2>1, <2>2 DEF PeerSend, Inboxes
  <2> QED BY <1>0, <2>1, <2>3 DEF PeerSend
<1>2. CASE PeerLeave(c) \/ ConnAccept(c)
  BY <1>0, <1>2, ConnMoves DEF PeerLeave, ConnAccept, Inboxes, ConnPC
<1>3. CASE ConnTimeout(c) \/ ConnLost(c) \/ ConnShutdown(c) \/ ConnKill(c)
  BY <1>0, <1>3, ConnMoves DEF ConnTimeout, ConnLost, ConnShutdown, ConnKill, Inboxes, ConnPC
<1>4. CASE ConnApply(c)
  BY <1>0, <1>4, ConnMoves DEF ConnApply, Inboxes, ConnPC
<1>5. CASE ConnRecv(c)
  <2>1. PICK n \in 1..Len(inbox[c]) :
               inbox' = [inbox EXCEPT ![c] = SubSeq(inbox[c], n + 1, Len(inbox[c]))]
    BY <1>5 DEF ConnRecv
  <2> DEFINE rest == SubSeq(inbox[c], n + 1, Len(inbox[c]))
  <2>2. rest \in Seq(Message(c)) /\ Len(rest) <= Len(inbox[c])
    BY <1>0, TakesFront DEF Inboxes
  <2>3. Len(rest) <= MaxInbox
    BY <1>0, <2>2, ServerAssumption DEF Inboxes
  <2>4. inbox' = [inbox EXCEPT ![c] = rest]
    BY <2>1
  <2> HIDE DEF rest
  <2>5. Inboxes'
    BY <1>0, <2>2, <2>3, <2>4 DEF Inboxes
  <2>6. Head(inbox[c]) \in Message(c)
    BY <1>0, <1>5 DEF ConnRecv, Inboxes
  <2> QED BY <1>0, <1>5, <2>5, <2>6, HandleMoves DEF ConnRecv
<1>6. CASE ConnCreate(c)
  BY <1>0, <1>6, ConnMoves DEF ConnCreate, Inboxes, ConnPC
<1>7. CASE ConnClose(c) \/ ConnJoin(c)
  <2>1. conn[c].i \in Nat
    BY <1>0 DEF ConnState
  <2>2. \A n \in Nat : [pc |-> "kill", i |-> n, ctr |-> "none"] \in ConnState
    BY DEF ConnState, ConnPC
  <2>3. \E n \in Nat : conn' = [conn EXCEPT ![c] = [pc |-> "kill", i |-> n, ctr |-> "none"]]
    <3>1. conn[c].i + 1 \in Nat /\ 1 \in Nat
      BY <2>1
    <3> QED BY <1>7, <3>1 DEF ConnClose, ConnJoin
  <2>4. conn' \in [Conn -> ConnState]
    BY <1>0, <2>2, <2>3, ConnMoves
  <2> QED BY <1>0, <1>7, <2>4 DEF ConnClose, ConnJoin, Inboxes
<1>8. CASE ConnFree(c)
  <2>1. Idle \in ConnState
    BY DEF Idle, ConnState, ConnPC
  <2>2. <<>> \in Seq(Message(c)) /\ Len(<<>>) <= MaxInbox
    BY ServerAssumption
  <2>3. Inboxes'
    BY <1>0, <1>8, <2>2 DEF ConnFree, Inboxes
  <2> QED BY <1>0, <1>8, <2>1, <2>3, ConnMoves DEF ConnFree
<1> QED BY <1>1, <1>2, <1>3, <1>4, <1>5, <1>6, <1>7, <1>8 DEF Peer, ConnStep

\* A step of hid.c, by the hid thread or by a device thread.
HidStep == Kernel \/ PollStep \/ \E t \in Thread : PoolCall(t) \/ GetSpurious(t)

\* The pool's own actions keep the types of its variables.
LEMMA HidStepTypes ==
    ASSUME HidTypes, Complete, HidStep
    PROVE  /\ HidTypes' /\ fault' \in Faults /\ Complete'
           /\ \A t \in Thread : ctr'[t] = ctr[t] \/ ctr'[t] \in Controller
<1> DEFINE Done == Complete' /\ \A t \in Thread : ctr'[t] = ctr[t] \/ ctr'[t] \in Controller
<1>1. Running
  BY DEF HidStep, Kernel, Plug, Unplug, PollStep, PollStart, PollEnd, PollOpen, PollFilter,
         PollCheckKnown, PollHidraw, PollPushKnown, PollPublish, PoolCall, GetLock, GetScan,
         GetUnlock, ReturnLock, ReturnPush, ForgetLock, ForgetClose, ForgetRemove, GetSpurious
<1>2. TypeOK
  BY <1>1 DEF HidTypes, EnvTypeOK, TypeOK, Running, Faults
<1>3. Next
  BY DEF HidStep, Next
<1>4. TypeOK'
  BY <1>2, <1>3, TypeStep
<1> USE <1>2, <1>4 DEF TypeOK, ThreadTypeOK
<1>5. ASSUME UNCHANGED ctr, \A t \in Thread : HasId(t)' => HasId(t) PROVE Done
  BY <1>5 DEF Complete
<1> HIDE DEF Done
<1>6. CASE Kernel \/ PollStep
  <2>1. UNCHANGED ctr /\ pc' \in {pc, Woken}
    BY <1>6 DEF Kernel, Plug, Unplug, PollStep, PollStart, PollEnd, PollOpen, PollFilter,
                PollCheckKnown, PollHidraw, PollPushKnown, PollPublish, local
  <2>2. \A t \in Thread : HasId(t)' => HasId(t)
    BY <2>1 DEF Woken, HasId, Holds, HoldPC
  <2> QED BY <1>4, <1>5, <2>1, <2>2 DEF HidTypes, EnvTypeOK, Done
<1>7. ASSUME NEW t \in Thread, PoolCall(t) \/ GetSpurious(t) PROVE Done
  <2> USE DEF Goto, HasId, Holds, HoldPC
  <2>1. CASE GetLock(t) \/ GetUnlock(t) \/ GetSpurious(t) \/ ReturnLock(t)
    BY <1>5, <2>1 DEF GetLock, GetUnlock, GetSpurious, ReturnLock
  <2>2. CASE ReturnPush(t)
    BY <1>5, <2>2 DEF ReturnPush, Woken
  <2>3. CASE ForgetLock(t) \/ ForgetClose(t) \/ ForgetRemove(t)
    BY <1>5, <2>3 DEF ForgetLock, ForgetClose, ForgetRemove
  <2>4. CASE GetScan(t)
    <3>0. available \in Seq(Controller) /\ cloneable \in Seq(Controller)
      BY DEF PoolTypeOK
    <3>1. CASE stop[t] \/ (Suitable(available, t) = {} /\ Suitable(cloneable, t) = {})
      BY <1>5, <2>4, <3>1 DEF GetScan
    <3>2. ASSUME NEW c \in Controller, Hand(t, c) PROVE Done
      BY <3>2 DEF Hand, Complete, Done
    <3>3. ASSUME NEW v \in Seq(Controller), Suitable(v, t) # {}
          PROVE  v[Min(Suitable(v, t))] \in Controller
      <4>1. Min(Suitable(v, t)) \in 1..Len(v)
        BY <3>3, FirstSuitable
      <4> QED BY <4>1
    <3>4. CASE ~stop[t] /\ Suitable(available, t) # {}
      <4>1. Hand(t, available[Min(Suitable(available, t))])
        BY <2>4, <3>4 DEF GetScan
      <4> QED BY <3>0, <3>2, <3>3, <3>4, <4>1
    <3>5. CASE ~stop[t] /\ Suitable(available, t) = {} /\ Suitable(cloneable, t) # {}
      <4>1. Hand(t, cloneable[Min(Suitable(cloneable, t))])
        BY <2>4, <3>5 DEF GetScan
      <4> QED BY <3>0, <3>2, <3>3, <3>5, <4>1
    <3> QED BY <3>1, <3>4, <3>5
  <2> QED BY <1>7, <2>1, <2>2, <2>3, <2>4 DEF PoolCall
<1> QED BY <1>4, <1>6, <1>7 DEF HidStep, HidTypes, EnvTypeOK, Done

STypes == ServerTypeOK /\ EnvTypeOK /\ CompleteSlots

\* Every step keeps the types.
LEMMA STypesStep ==
    ASSUME STypes, \A t \in Thread : Where(t), [ServerNext]_allvars
    PROVE  STypes'
<1>0. /\ HidTypes /\ ConnTypeOK /\ SlotTypeOK /\ CompleteSlots
      /\ fault \in Faults \cup {"exit(0)", "NULL args", "use after free"}
      /\ handler \in {"clean_exit", "device_thread_exit"}
      /\ ids \in 0..MaxIds
  BY DEF STypes, ServerTypeOK, HidTypes
<1> SUFFICES /\ HidTypes' /\ ConnTypeOK' /\ SlotTypeOK' /\ CompleteSlots'
             /\ fault' \in Faults \cup {"exit(0)", "NULL args", "use after free"}
             /\ handler' \in {"clean_exit", "device_thread_exit"}
             /\ ids' \in 0..MaxIds
  BY DEF STypes, ServerTypeOK, HidTypes
<1>a. 0 \in 0..MaxPlug
  BY PoolAssumption
<1>1. ASSUME UNCHANGED vars PROVE HidTypes' /\ Complete' /\ UNCHANGED <<fault, ctr, pc>>
  BY <1>0, <1>1 DEF HidTypes, PoolTypeOK, ThreadTypeOK, HidTypeOK, EnvTypeOK, CompleteSlots,
                    Complete, HasId, Holds, vars
<1>2. ASSUME UNCHANGED conns PROVE ConnTypeOK'
  BY <1>0, <1>2 DEF conns, ConnTypeOK
<1>3. ASSUME UNCHANGED threads PROVE SlotTypeOK'
  BY <1>0, <1>3 DEF threads, SlotTypeOK
<1>4. ASSUME UNCHANGED proc
      PROVE  handler' \in {"clean_exit", "device_thread_exit"} /\ ids' \in 0..MaxIds
  BY <1>0, <1>4 DEF proc
<1>5. CASE HidStep /\ UNCHANGED svars
  <2>1. /\ HidTypes' /\ fault' \in Faults /\ Complete'
        /\ \A t \in Thread : ctr'[t] = ctr[t] \/ ctr'[t] \in Controller
    BY <1>0, <1>5, HidStepTypes DEF CompleteSlots
  <2>2. CompleteSlots'
    BY <1>0, <1>5, <2>1 DEF CompleteSlots, svars, threads
  <2> QED BY <1>2, <1>3, <1>4, <1>5, <2>1, <2>2 DEF svars
<1>6. ASSUME NEW c \in Conn, Peer(c) \/ ConnAccept(c) \/ ConnStep(c)
      PROVE ConnTypeOK'
  BY <1>0, <1>6, ConnTypes DEF SlotTypeOK
<1>7. ASSUME NEW c \in Conn, ConnOnly(c)
      PROVE  /\ HidTypes' /\ SlotTypeOK' /\ CompleteSlots' /\ UNCHANGED <<fault, handler>>
             /\ ids' \in 0..MaxIds
  <2>1. UNCHANGED vars
    BY <1>7, OutsidePool
  <2>2. UNCHANGED <<slot, handler>>
    BY <1>7 DEF ConnOnly, Peer, PeerSend, PeerLeave, ConnAccept, ConnTimeout, ConnLost,
                ConnRecv, ConnShutdown, ConnKill, ConnJoin, ConnFree, threads, proc
  <2>3. CompleteSlots'
    BY <1>0, <1>1, <2>1, <2>2 DEF CompleteSlots
  <2>4. SlotTypeOK'
    <3>1. CASE ConnKill(c)
      BY <1>0, <3>1 DEF ConnKill, SlotTypeOK
    <3>2. CASE ConnFree(c)
      <4>1. sig' \in [Thread -> {"none", "pending", "handling"}] /\ at' \in [Thread -> AtPC]
        BY <1>0, <3>2 DEF ConnFree, SlotTypeOK, AtPC
      <4>2. wire' \in [Thread -> 0..MaxPlug] /\ relock' \in [Thread -> BOOLEAN]
        BY <1>0, <1>a, <3>2 DEF ConnFree, SlotTypeOK
      <4> QED BY <1>0, <3>2, <4>1, <4>2 DEF ConnFree, SlotTypeOK
    <3>3. CASE ~ConnKill(c) /\ ~ConnFree(c)
      BY <1>3, <1>7, <3>3 DEF ConnOnly, Peer, PeerSend, PeerLeave, ConnAccept, ConnTimeout,
                              ConnLost, ConnRecv, ConnShutdown, ConnJoin
    <3> QED BY <3>1, <3>2, <3>3
  <2>5. ids' \in 0..MaxIds
    <3>1. CASE ConnAccept(c)
      <4>1. ids \in 0..MaxIds /\ MaxIds \in Nat /\ ids < MaxIds /\ ids' = ids + 1
        BY <1>0, <3>1, ServerAssumption DEF ConnAccept
      <4> QED BY <4>1
    <3>2. CASE ~ConnAccept(c)
      BY <1>0, <1>7, <3>2 DEF ConnOnly, Peer, PeerSend, PeerLeave, ConnTimeout, ConnLost,
                ConnRecv, ConnShutdown, ConnKill, ConnJoin, ConnFree, proc
    <3> QED BY <3>1, <3>2
  <2> QED BY <1>1, <2>1, <2>2, <2>3, <2>4, <2>5
<1>8. ASSUME NEW c \in Conn, ConnCreate(c) \/ ConnApply(c) \/ ConnClose(c)
      PROVE  /\ HidTypes' /\ SlotTypeOK' /\ CompleteSlots' /\ UNCHANGED proc
             /\ fault' \in Faults \cup {"exit(0)", "NULL args", "use after free"}
  <2> USE <1>0 DEF HidTypes, PoolTypeOK, ThreadTypeOK, HidTypeOK, EnvTypeOK, pool, env, local
  <2>1. CASE ConnCreate(c)
    <3>1. HidTypes'
      BY <2>1 DEF ConnCreate, Goto, AllPC
    <3>2. SlotTypeOK'
      BY <2>1 DEF ConnCreate, At, SlotTypeOK, AtPC
    <3>3. CompleteSlots'
      BY <2>1, ZenonT(60) DEF ConnCreate, Goto, SlotTypeOK, CompleteSlots, Complete, HasId, Holds, HoldPC
    <3> QED BY <2>1, <3>1, <3>2, <3>3 DEF ConnCreate
  <2>2. CASE ConnApply(c)
    BY <1>3, <2>2 DEF ConnApply, threads, CompleteSlots, Complete, HasId, Holds
  <2>3. CASE ConnClose(c)
    <3>1. stop' \in [Thread -> BOOLEAN]
      BY <2>3 DEF ConnClose
    <3> QED BY <1>3, <2>3, <3>1 DEF ConnClose, threads, CompleteSlots, Complete, HasId, Holds
  <2> QED BY <1>8, <2>1, <2>2, <2>3
<1>9. ASSUME NEW t \in Thread, ThreadOnly(t)
      PROVE  /\ HidTypes' /\ ConnTypeOK' /\ SlotTypeOK' /\ CompleteSlots' /\ UNCHANGED <<fault, ids>>
             /\ handler' \in {"clean_exit", "device_thread_exit"}
  <2>1. UNCHANGED vars
    BY <1>9, OutsidePool
  <2>2. ConnTypeOK'
    <3>1. CASE ExitFree(t)
      BY <1>0, <3>1, DangleType DEF ExitFree
    <3>2. CASE ~ExitFree(t)
      BY <1>2, <1>9, <3>2 DEF ThreadOnly, SetArgs, Trap, Store, GotNone, SendInfo, Forgot, SendDestroy
    <3> QED BY <3>1, <3>2
  <2>3. UNCHANGED ids /\ handler' \in {"clean_exit", "device_thread_exit"}
    BY <1>0, <1>9 DEF ThreadOnly, SetArgs, Trap, Store, GotNone, SendInfo, Forgot, SendDestroy,
                      ExitFree, proc
  <2>4. SlotTypeOK'
    <3>1. CASE SendInfo(t)
      <4>1. ctr[t].gen \in 0..MaxPlug
        <5>1. ctr[t] \in Controller
          BY <1>0, <3>1 DEF SendInfo, Where, CompleteSlots
        <5> QED BY <5>1, PoolAssumption DEF Controller
      <4> QED BY <1>0, <3>1, <4>1 DEF SendInfo, At, SlotTypeOK, AtPC
    <3>2. CASE SendDestroy(t)
      BY <1>0, <1>a, <3>2 DEF SendDestroy, At, SlotTypeOK, AtPC
    <3>3. CASE ~SendInfo(t) /\ ~SendDestroy(t)
      BY <1>0, <1>9, <3>3 DEF ThreadOnly, SetArgs, Trap, Store, GotNone, Forgot, ExitFree, At,
                              SlotTypeOK, AtPC
    <3> QED BY <3>1, <3>2, <3>3
  <2>5. CompleteSlots'
    <3>1. CASE Store(t)
      <4>1. ctr[t] \in Controller
        BY <1>0, <3>1 DEF Store, CompleteSlots, Complete, HasId, Holds, HoldPC
      <4> QED BY <1>0, <1>1, <2>1, <3>1, <4>1 DEF Store, CompleteSlots, SlotTypeOK
    <3>2. CASE ~Store(t)
      <4>1. \A u \in Thread : slot'[u] = "block" => slot[u] = "block"
        BY <1>0, <1>9, <3>2 DEF ThreadOnly, SetArgs, Trap, GotNone, SendInfo, Forgot,
                                SendDestroy, ExitFree, SlotTypeOK
      <4> QED BY <1>0, <1>1, <2>1, <4>1 DEF CompleteSlots
    <3> QED BY <3>1, <3>2
  <2> QED BY <1>1, <2>1, <2>2, <2>3, <2>4, <2>5
<1>10. ASSUME NEW t \in Thread,
              Top(t) \/ ReadLost(t) \/ ExitReturn(t) \/ Unwind(t) \/ Signal(t)
       PROVE  /\ HidTypes' /\ ConnTypeOK' /\ SlotTypeOK' /\ CompleteSlots' /\ UNCHANGED proc
              /\ fault' \in Faults \cup {"exit(0)", "NULL args", "use after free"}
  <2>1. ConnTypeOK' /\ UNCHANGED proc
    <3>1. CASE Top(t)
      BY <1>0, <3>1, DangleType DEF Top
    <3>2. CASE ~Top(t)
      BY <1>2, <1>10, <3>2 DEF ReadLost, ExitReturn, Unwind, Signal
    <3> QED BY <3>1, <3>2
  <2>2. SlotTypeOK'
    BY <1>0, <1>10 DEF Top, ReadLost, ExitReturn, Unwind, Signal, At, SlotTypeOK, AtPC
  <2>3. /\ UNCHANGED <<env, hid, known, available, cloneable, known_mutex, open, ref_index, stop>>
        /\ devices_mutex' \in {devices_mutex, t}
        /\ ctr' \in {ctr, [ctr EXCEPT ![t] = NoCtr]}
        /\ pc' = pc \/ \E l \in {"glock", "flock", "rlock", "out"} : pc' = [pc EXCEPT ![t] = l]
        /\ fault' \in {fault, "exit(0)", "NULL args", "use after free"}
    <3>1. CASE Top(t) \/ ReadLost(t) \/ ExitReturn(t)
      BY <3>1 DEF Top, ReadLost, ExitReturn, Goto, pool
    <3>2. CASE Unwind(t)
      BY <3>2 DEF Unwind, local
    <3>3. CASE Signal(t)
      <4>1. pc = [pc EXCEPT ![t] = pc[t]]
        BY <1>0 DEF HidTypes, ThreadTypeOK
      <4>2. pc' = pc \/ pc' = [pc EXCEPT ![t] = "out"]
        BY <3>3, <4>1 DEF Signal, Goto
      <4> QED BY <3>3, <4>2 DEF Signal, pool
    <3> QED BY <1>10, <3>1, <3>2, <3>3
  <2>4. HidTypes'
    BY <1>0, <2>3, ZenonT(60) DEF HidTypes, PoolTypeOK, ThreadTypeOK, HidTypeOK, EnvTypeOK, env, AllPC, HoldPC
  <2>5. CompleteSlots'
    <3> USE <1>0 DEF HidTypes, ThreadTypeOK, SlotTypeOK, CompleteSlots, Complete, HasId, Holds, HoldPC
    <3>1. CASE Top(t)
      BY <3>1 DEF Top, Goto
    <3>2. CASE ReadLost(t) \/ ExitReturn(t)
      <4>1. ctr[t] \in Controller
        BY <3>2 DEF ReadLost, ExitReturn, Where
      <4> QED BY <3>2, <4>1 DEF ReadLost, ExitReturn, Goto
    <3>3. CASE Unwind(t)
      BY <3>3 DEF Unwind, local
    <3>4. CASE Signal(t)
      BY <3>4 DEF Signal, Goto
    <3> QED BY <1>10, <3>1, <3>2, <3>3, <3>4
  <2> QED BY <1>0, <2>1, <2>2, <2>3, <2>4, <2>5
<1>11. CASE UNCHANGED allvars
  BY <1>0, <1>1, <1>2, <1>3, <1>4, <1>11 DEF allvars, svars, CompleteSlots, threads
<1>12. ASSUME NEW c \in Conn, Peer(c) \/ ConnAccept(c) \/ ConnStep(c)
       PROVE  ConnOnly(c) \/ ConnCreate(c) \/ ConnApply(c) \/ ConnClose(c)
  BY <1>12 DEF ConnStep, ConnOnly
<1>13. ASSUME NEW t \in Thread, ThreadStep(t) \/ Signal(t)
       PROVE  ThreadOnly(t) \/ Top(t) \/ ReadLost(t) \/ ExitReturn(t) \/ Unwind(t) \/ Signal(t)
  BY <1>13 DEF ThreadStep, ThreadOnly
<1> QED BY <1>0, <1>4, <1>5, <1>6, <1>7, <1>8, <1>9, <1>10, <1>11, <1>12, <1>13
        DEF ServerNext, HidStep, InPool, Stopped

-----------------------------------------------------------------------------
(* Where the device threads are *)

\* All that another thread's step may do to where a thread is: wake it.
Woke(u) == pc'[u] = pc[u] \/ (pc[u] = "gwait" /\ pc'[u] = "glock")

GetPC    == {"glock", "gscan", "gwait", "gunlock", "gstop"}
ForgetPC == {"flock", "fclose", "fremove"}

\* A call of the pool goes on, or ends with one of its own results.
LEMMA CallMoves ==
    ASSUME ThreadTypeOK, NEW t \in Thread, PoolCall(t) \/ GetSpurious(t)
    PROVE  /\ \A u \in Thread \ {t} : Woke(u)
           /\ \/ pc[t] \in GetPC /\ pc'[t] \in GetPC \cup {"got", "none"}
              \/ pc[t] \in {"rlock", "rpush"} /\ pc'[t] \in {"rpush", "returned"}
              \/ pc[t] \in ForgetPC /\ pc'[t] \in ForgetPC \cup {"forgot"}
           /\ \A u \in Thread \ {t} : ctr'[u] = ctr[u]
           /\ ctr'[t] = ctr[t] \/ pc[t] = "gscan"
           /\ UNCHANGED stop
<1> USE DEF ThreadTypeOK, GetPC, ForgetPC, Goto, Woke
<1>1. CASE GetLock(t) \/ GetUnlock(t) \/ GetSpurious(t)
  BY <1>1 DEF GetLock, GetUnlock, GetSpurious
<1>2. CASE GetScan(t)
  BY <1>2 DEF GetScan, Hand
<1>3. CASE ReturnLock(t)
  BY <1>3 DEF ReturnLock
<1>4. CASE ReturnPush(t)
  BY <1>4 DEF ReturnPush, Woken
<1>5. CASE ForgetLock(t) \/ ForgetRemove(t)
  BY <1>5 DEF ForgetLock, ForgetRemove
<1>6. CASE ForgetClose(t)
  BY <1>6 DEF ForgetClose
<1> QED BY <1>1, <1>2, <1>3, <1>4, <1>5, <1>6 DEF PoolCall

\* The kernel and the hid thread at most wake threads.
LEMMA HidWakes ==
    ASSUME ThreadTypeOK, Kernel \/ PollStep
    PROVE  UNCHANGED <<ctr, stop>> /\ \A u \in Thread : Woke(u)
<1>1. UNCHANGED <<ctr, stop>> /\ pc' \in {pc, Woken}
  BY DEF Kernel, Plug, Unplug, PollStep, PollStart, PollEnd, PollOpen, PollFilter,
         PollCheckKnown, PollHidraw, PollPushKnown, PollPublish, local
<1> QED BY <1>1 DEF ThreadTypeOK, Woken, Woke

\* A thread that does not move is where it was.
LEMMA WhereKept ==
    ASSUME NEW u \in Thread, Where(u), at'[u] = at[u], slot'[u] = slot[u], Woke(u)
    PROVE  Where(u)'
BY DEF Where, Woke

\* The signal ends the process, or the thread goes on in device_thread_exit.
Interrupted(t) ==
    /\ at[t] \notin {"idle", "dead", "new", "unwind"}
    /\ at' = [at EXCEPT ![t] = "exit"]
    /\ relock' = [relock EXCEPT ![t] = pc[t] = "gwait"]
    /\ pc' = [pc EXCEPT ![t] = IF slot[t] = "null" /\ pc[t] # "none" THEN "out" ELSE pc[t]]
    /\ clean' = (clean /\ Interruptible(t))
    /\ UNCHANGED fault

\* What the delivery of SIGTERM does to the thread it interrupts.
LEMMA SignalCases ==
    ASSUME NEW t \in Thread, Signal(t)
    PROVE  /\ (UNCHANGED <<at, relock, pc, clean>> /\ ~Running') \/ Interrupted(t)
           /\ UNCHANGED <<env, pool, ctr, ref_index, stop, hid, conns, slot, wire, proc>>
           /\ Running /\ sig[t] = "pending" /\ sig' = [sig EXCEPT ![t] = "handling"]
BY DEF Signal, Interrupted, At, Goto, Running

\* Every step leaves each thread where it can be.
LEMMA WhereStep ==
    ASSUME STypes, \A t \in Thread : Where(t), [ServerNext]_allvars
    PROVE  \A u \in Thread : Where(u)'
<1> SUFFICES ASSUME NEW u \in Thread PROVE Where(u)'
  OBVIOUS
<1>0. Where(u) /\ ThreadTypeOK /\ SlotTypeOK
  BY DEF STypes, ServerTypeOK
<1>1. ASSUME UNCHANGED <<at, slot, pc>> PROVE Where(u)'
  BY <1>0, <1>1 DEF Where
<1>2. CASE (Kernel \/ PollStep) /\ UNCHANGED svars
  <2>1. at'[u] = at[u] /\ slot'[u] = slot[u]
    BY <1>2 DEF svars, threads
  <2> QED BY <1>0, <1>2, <2>1, HidWakes, WhereKept
<1>3. ASSUME NEW t \in Thread, InPool(t) PROVE Where(u)'
  <2>1. UNCHANGED <<at, slot>> /\ at[t] \in {"get", "forget", "return"} /\ Where(t)
    BY <1>3 DEF InPool, svars, threads
  <2>2. CASE u # t
    BY <1>0, <1>3, <2>1, <2>2, CallMoves, WhereKept DEF InPool
  <2>3. CASE u = t
    <3>1. \/ pc[t] \in GetPC /\ pc'[t] \in GetPC \cup {"got", "none"}
          \/ pc[t] \in {"rlock", "rpush"} /\ pc'[t] \in {"rpush", "returned"}
          \/ pc[t] \in ForgetPC /\ pc'[t] \in ForgetPC \cup {"forgot"}
      BY <1>0, <1>3, CallMoves DEF InPool
    <3> QED BY <2>1, <2>3, <3>1 DEF Where, GetPC, ForgetPC
  <2> QED BY <2>2, <2>3
<1>4. ASSUME NEW c \in Conn, Peer(c) \/ ConnAccept(c) \/ ConnStep(c) PROVE Where(u)'
  <2>1. CASE ConnCreate(c)
    BY <1>0, <2>1 DEF ConnCreate, At, Goto, Where, ThreadTypeOK, SlotTypeOK
  <2>2. CASE ConnFree(c)
    BY <1>0, <2>2 DEF ConnFree, vars, Where, SlotTypeOK
  <2>3. CASE ~ConnCreate(c) /\ ~ConnFree(c)
    BY <1>1, <1>4, <2>3 DEF Peer, PeerSend, PeerLeave, ConnAccept, ConnStep, ConnTimeout, ConnLost,
          ConnRecv, ConnApply, ConnShutdown, ConnClose, ConnKill, ConnJoin, vars, local, threads
  <2> QED BY <2>1, <2>2, <2>3
<1>5. ASSUME NEW t \in Thread, ThreadStep(t) PROVE Where(u)'
  <2> USE <1>0 DEF At, Goto, Where, ThreadTypeOK, SlotTypeOK, vars, local
  <2>1. CASE SetArgs(t) \/ Trap(t) \/ Top(t)
    BY <2>1 DEF SetArgs, Trap, Top
  <2>2. CASE Store(t) \/ GotNone(t)
    BY <2>2 DEF Store, GotNone
  <2>3. CASE SendInfo(t) \/ SendDestroy(t)
    BY <2>3 DEF SendInfo, SendDestroy
  <2>4. CASE ReadLost(t) \/ Forgot(t)
    BY <2>4 DEF ReadLost, Forgot
  <2>5. CASE ExitReturn(t) \/ ExitFree(t) \/ Unwind(t)
    BY <2>5 DEF ExitReturn, ExitFree, Unwind
  <2> QED BY <1>5, <2>1, <2>2, <2>3, <2>4, <2>5 DEF ThreadStep
<1>6. ASSUME NEW t \in Thread, Signal(t) PROVE Where(u)'
  <2>1. CASE UNCHANGED <<at, slot, pc>>
    BY <1>1, <2>1
  <2>2. CASE Interrupted(t) /\ UNCHANGED slot
    <3>1. CASE u # t
      BY <1>0, <2>2, <3>1 DEF Interrupted, Where, ThreadTypeOK, SlotTypeOK
    <3>2. CASE u = t
      <4>1. slot[t] \in {"null", "block"}
        BY <1>0, <2>2, <3>2 DEF Interrupted, Where, SlotTypeOK, AtPC
      <4> QED BY <1>0, <2>2, <3>2, <4>1 DEF Interrupted, Where, ThreadTypeOK, SlotTypeOK
    <3> QED BY <3>1, <3>2
  <2> QED BY <1>6, <2>1, <2>2, SignalCases
<1>7. CASE UNCHANGED allvars
  BY <1>1, <1>7 DEF allvars, vars, svars, threads
<1> QED BY <1>2, <1>3, <1>4, <1>5, <1>6, <1>7 DEF ServerNext, Stopped

-----------------------------------------------------------------------------
(* Connections *)

\* What a device thread's own step leaves alone.
LEMMA ThreadFrame ==
    ASSUME STypes, NEW t \in Thread, ThreadStep(t) \/ Signal(t) \/ InPool(t)
    PROVE  /\ at[t] \notin {"idle", "dead"} /\ at'[t] # "idle"
           /\ \A u \in Thread \ {t} : /\ at'[u] = at[u] /\ wire'[u] = wire[u]
                                      /\ sig'[u] = sig[u] /\ ctr'[u] = ctr[u]
           /\ UNCHANGED <<stop, got>>
           /\ \A c \in Conn : conn'[c].pc = conn[c].pc /\ conn'[c].i = conn[c].i
           /\ sig'[t] = sig[t] \/ Signal(t)
<1>0. ThreadTypeOK /\ SlotTypeOK /\ ConnTypeOK
  BY DEF STypes, ServerTypeOK
<1>1. ASSUME conn' = Dangle(t)
      PROVE  \A c \in Conn : conn'[c].pc = conn[c].pc /\ conn'[c].i = conn[c].i
  BY <1>0, <1>1 DEF Dangle, ConnTypeOK
<1> USE <1>0 DEF At, Goto, SlotTypeOK, ThreadTypeOK, vars, local, conns
<1>2. CASE SetArgs(t) \/ Trap(t) \/ Store(t) \/ GotNone(t) \/ Forgot(t)
  BY <1>2 DEF SetArgs, Trap, Store, GotNone, Forgot
<1>3. CASE SendInfo(t) \/ SendDestroy(t)
  BY <1>3 DEF SendInfo, SendDestroy
<1>4. CASE ReadLost(t) \/ ExitReturn(t) \/ Unwind(t)
  BY <1>4 DEF ReadLost, ExitReturn, Unwind
<1>5. CASE Top(t)
  BY <1>1, <1>5 DEF Top
<1>6. CASE ExitFree(t)
  BY <1>1, <1>6 DEF ExitFree
<1>7. CASE Signal(t)
  BY <1>7, SignalCases DEF Interrupted, Signal
<1>8. CASE InPool(t)
  <2>1. UNCHANGED <<at, wire, sig, conn, got>> /\ at[t] \in {"get", "forget", "return"}
    BY <1>8 DEF InPool, svars, threads
  <2> QED BY <1>8, <2>1, CallMoves DEF InPool
<1> QED BY <1>2, <1>3, <1>4, <1>5, <1>6, <1>7, <1>8 DEF ThreadStep

\* Each slot is a thread of its own.
LEMMA OwnSlots ==
    ASSUME NEW c \in Conn, NEW i \in 1..Len(Requests[c])
    PROVE  /\ Requests[c][i] \in Thread /\ Requests[c][i] \in SlotsOf(c)
           /\ \A d \in Conn : d # c => Requests[c][i] \notin SlotsOf(d)
           /\ \A j \in 1..Len(Requests[c]) : j # i => Requests[c][j] # Requests[c][i]
<1>1. \A d \in Conn : Requests[d] \in Seq(Thread)
  BY ServerAssumption
<1>2. Requests[c][i] \in Thread /\ Requests[c][i] \in SlotsOf(c)
  BY <1>1 DEF SlotsOf, Range
<1>3. \A j \in 1..Len(Requests[c]) : j # i => Requests[c][j] # Requests[c][i]
  BY ServerAssumption
<1>4. ASSUME NEW d \in Conn, d # c, Requests[c][i] \in SlotsOf(d) PROVE FALSE
  <2>1. PICK j \in 1..Len(Requests[d]) : Requests[d][j] = Requests[c][i]
    BY <1>1, <1>4 DEF SlotsOf, Range
  <2> QED BY <1>4, <2>1, ServerAssumption
<1> QED BY <1>2, <1>3, <1>4

\* A step that neither moves a connection thread nor starts or ends one of its threads.
LEMMA PhaseKept ==
    ASSUME NEW c \in Conn, Phase(c),
           conn'[c].pc = conn[c].pc, conn'[c].i = conn[c].i, got'[c] = got[c],
           \A j \in 1..Len(Requests[c]) :
              /\ at'[Requests[c][j]] = "idle" <=> at[Requests[c][j]] = "idle"
              /\ at[Requests[c][j]] = "dead" => at'[Requests[c][j]] = "dead"
              /\ stop[Requests[c][j]] => stop'[Requests[c][j]]
    PROVE  Phase(c)'
BY DEF Phase

\* What a connection thread does to another one, and to its threads: nothing.
LEMMA OthersKept ==
    ASSUME STypes, NEW d \in Conn, Phase(d), Peer(d) \/ ConnAccept(d) \/ ConnStep(d),
           NEW c \in Conn, c # d
    PROVE  /\ conn'[c] = conn[c] /\ got'[c] = got[c]
           /\ \A j \in 1..Len(Requests[c]) :
                 /\ at'[Requests[c][j]] = at[Requests[c][j]]
                 /\ stop'[Requests[c][j]] = stop[Requests[c][j]]
<1>0. ThreadTypeOK /\ SlotTypeOK /\ ConnTypeOK
  BY DEF STypes, ServerTypeOK
<1>1. conn'[c] = conn[c] /\ got'[c] = got[c]
  <2> USE <1>0 DEF ConnTypeOK, ConnGoto
  <2>1. CASE ConnRecv(d)
    <3>1. (\E m : Handle(d, m)) \/ UNCHANGED <<conn, got>>
      BY <2>1 DEF ConnRecv
    <3> QED BY <3>1 DEF Handle
  <2>2. CASE Peer(d) \/ ConnAccept(d) \/ ConnTimeout(d) \/ ConnLost(d)
    BY <2>2 DEF Peer, PeerSend, PeerLeave, ConnAccept, ConnTimeout, ConnLost
  <2>3. CASE ConnCreate(d) \/ ConnApply(d) \/ ConnShutdown(d) \/ ConnClose(d)
    BY <2>3 DEF ConnCreate, ConnApply, ConnShutdown, ConnClose
  <2>4. CASE ConnKill(d) \/ ConnJoin(d) \/ ConnFree(d)
    BY <2>4 DEF ConnKill, ConnJoin, ConnFree
  <2> QED BY <2>1, <2>2, <2>3, <2>4 DEF ConnStep
<1>2. ASSUME NEW j \in 1..Len(Requests[c])
      PROVE  /\ at'[Requests[c][j]] = at[Requests[c][j]]
             /\ stop'[Requests[c][j]] = stop[Requests[c][j]]
  <2>1. Requests[c][j] \in Thread /\ Requests[c][j] \notin SlotsOf(d)
    BY OwnSlots
  <2> USE <1>0 DEF ThreadTypeOK, SlotTypeOK
  <2>2. CASE ConnCreate(d)
    <3>1. CASE conn[d].i > Len(Requests[d])
      BY <2>2, <3>1 DEF ConnCreate
    <3>2. CASE ~(conn[d].i > Len(Requests[d]))
      <4>1. conn[d].i \in 1..Len(Requests[d])
        <5>1. conn[d].i \in Nat /\ conn[d].i >= 1
          BY <2>2 DEF ConnCreate, Phase, ConnTypeOK
        <5>2. Len(Requests[d]) \in Nat
          BY ServerAssumption
        <5> QED BY <3>2, <5>1, <5>2
      <4>2. Requests[d][conn[d].i] # Requests[c][j]
        BY <2>1, <4>1, OwnSlots
      <4> QED BY <2>1, <2>2, <3>2, <4>2 DEF ConnCreate, At
    <3> QED BY <3>1, <3>2
  <2>3. CASE ConnFree(d)
    BY <2>1, <2>3 DEF ConnFree, vars
  <2>4. CASE ConnClose(d)
    BY <2>1, <2>4 DEF ConnClose, threads
  <2>5. CASE ~ConnCreate(d) /\ ~ConnFree(d) /\ ~ConnClose(d)
    BY <2>5 DEF Peer, PeerSend, PeerLeave, ConnAccept, ConnStep, ConnTimeout, ConnLost, ConnRecv,
                ConnApply, ConnShutdown, ConnKill, ConnJoin, vars, threads
  <2> QED BY <2>2, <2>3, <2>4, <2>5
<1> QED BY <1>1, <1>2

\* The connection thread's own way through server_handle_conn.
LEMMA OwnPhase ==
    ASSUME STypes, NEW c \in Conn, Phase(c), Peer(c) \/ ConnAccept(c) \/ ConnStep(c)
    PROVE  Phase(c)'
<1>0. ThreadTypeOK /\ SlotTypeOK /\ ConnTypeOK
  BY DEF STypes, ServerTypeOK
<1>1. Len(Requests[c]) \in Nat /\ conn[c].i \in Nat /\ SlotCount(c) \in {0, Len(Requests[c])}
  BY <1>0, ServerAssumption DEF ConnTypeOK, SlotCount
<1>2. CASE UNCHANGED <<conn, got, at, stop>>
  BY <1>2 DEF Phase
<1>3. ASSUME UNCHANGED <<at, stop>>, got'[c] = got[c],
             conn[c].pc \in {"idle", "poll", "apply", "shutdown"},
             conn'[c].pc \in {"poll", "apply", "shutdown", "close"}
      PROVE  Phase(c)'
  BY <1>3 DEF Phase
<1>4. CASE Peer(c)
  BY <1>2, <1>4 DEF Peer, PeerSend, PeerLeave, vars, threads
<1>5. CASE ConnAccept(c) \/ ConnTimeout(c) \/ ConnLost(c) \/ ConnShutdown(c)
  <2>1. UNCHANGED <<at, stop, got>>
    BY <1>5 DEF ConnAccept, ConnTimeout, ConnLost, ConnShutdown, vars, threads
  <2>2. /\ conn[c].pc \in {"idle", "poll", "apply", "shutdown"}
        /\ conn'[c].pc \in {"poll", "apply", "shutdown", "close"}
    BY <1>0, <1>5 DEF ConnAccept, ConnTimeout, ConnLost, ConnShutdown, ConnGoto, ConnTypeOK
  <2> QED BY <1>3, <2>1, <2>2
<1>6. CASE ConnApply(c)
  <2>1. UNCHANGED <<at, stop, got>> /\ conn[c].pc = "apply"
    BY <1>6 DEF ConnApply, threads
  <2>2. UNCHANGED conn \/ conn'[c].pc = "poll"
    BY <1>0, <1>6 DEF ConnApply, ConnGoto, ConnTypeOK
  <2> QED BY <1>2, <1>3, <2>1, <2>2
<1>7. CASE ConnRecv(c)
  <2>1. UNCHANGED <<at, stop>> /\ conn[c].pc = "poll"
    BY <1>7 DEF ConnRecv, vars, threads
  <2>2. CASE UNCHANGED <<conn, got>>
    BY <1>2, <2>1, <2>2
  <2>3. CASE \E m : Handle(c, m)
    <3>1. CASE got'[c] = got[c] /\ conn'[c].pc = "apply"
      BY <1>3, <2>1, <3>1
    <3>2. CASE ~got[c] /\ got'[c] /\ conn'[c].pc = "create" /\ conn'[c].i = 1
      BY <2>1, <3>2 DEF Phase
    <3> QED BY <1>0, <1>2, <2>1, <2>3, <3>1, <3>2 DEF Handle, ConnTypeOK
  <2> QED BY <1>7, <2>2, <2>3 DEF ConnRecv
<1>8. CASE ConnCreate(c)
  <2>1. conn[c].pc = "create" /\ got[c] /\ conn[c].i >= 1 /\ UNCHANGED got
    BY <1>8 DEF ConnCreate, Phase
  <2>2. CASE conn[c].i > Len(Requests[c])
    <3>1. conn'[c].pc = "poll" /\ UNCHANGED at
      BY <1>0, <1>8, <2>2 DEF ConnCreate, ConnGoto, ConnTypeOK
    <3>2. \A j \in 1..Len(Requests[c]) : j < conn[c].i
      BY <1>1, <2>2
    <3> QED BY <2>1, <3>1, <3>2 DEF Phase
  <2>3. CASE ~(conn[c].i > Len(Requests[c]))
    <3>1. conn[c].i \in 1..Len(Requests[c])
      BY <1>1, <2>1, <2>3
    <3>2. conn'[c].pc = "create" /\ conn'[c].i = conn[c].i + 1
      BY <1>0, <1>8, <2>1, <2>3 DEF ConnCreate, ConnTypeOK
    <3>3. at' = [at EXCEPT ![Requests[c][conn[c].i]] = "new"]
      BY <1>8, <2>3 DEF ConnCreate, At
    <3>4. ASSUME NEW j \in 1..Len(Requests[c])
          PROVE  j < conn'[c].i <=> at'[Requests[c][j]] # "idle"
      <4>1. Requests[c][j] \in Thread /\ Requests[c][conn[c].i] \in Thread
        BY <3>1, OwnSlots
      <4>2. CASE j = conn[c].i
        BY <1>0, <1>1, <3>2, <3>3, <4>1, <4>2 DEF SlotTypeOK
      <4>3. CASE j # conn[c].i
        <5>1. Requests[c][j] # Requests[c][conn[c].i]
          BY <3>1, <4>3, OwnSlots
        <5>2. at'[Requests[c][j]] = at[Requests[c][j]]
          BY <1>0, <3>3, <4>1, <5>1 DEF SlotTypeOK
        <5>3. j < conn'[c].i <=> j < conn[c].i
          BY <1>1, <3>2, <4>3
        <5> QED BY <2>1, <5>2, <5>3 DEF Phase
      <4> QED BY <4>2, <4>3
    <3>5. conn'[c].i >= 1
      BY <1>1, <3>2
    <3> QED BY <2>1, <3>2, <3>4, <3>5 DEF Phase
  <2> QED BY <2>2, <2>3
<1>9. CASE ConnClose(c)
  <2>1. /\ conn[c].pc = "close" /\ UNCHANGED <<at, got>>
        /\ conn'[c].pc = "kill" /\ conn'[c].i = 1
    BY <1>0, <1>9 DEF ConnClose, ConnTypeOK, threads
  <2>2. \A j \in 1..Len(Requests[c]) : stop'[Requests[c][j]]
    BY <1>0, <1>9, OwnSlots DEF ConnClose, ThreadTypeOK
  <2> QED BY <2>1, <2>2 DEF Phase
<1>10. CASE ConnKill(c)
  <2>1. /\ conn[c].pc = "kill" /\ UNCHANGED <<at, got, stop>>
        /\ conn'[c].pc = "join" /\ conn'[c].i = conn[c].i
    BY <1>0, <1>10 DEF ConnKill, ConnGoto, ConnTypeOK, vars
  <2>2. got[c] /\ conn[c].i <= Len(Requests[c])
    BY <1>1, <1>10, <2>1 DEF ConnKill, SlotCount, Phase
  <2> QED BY <2>1, <2>2 DEF Phase
<1>11. CASE ConnJoin(c)
  <2>1. /\ conn[c].pc = "join" /\ UNCHANGED <<at, got, stop>>
        /\ conn'[c].pc = "kill" /\ conn'[c].i = conn[c].i + 1
        /\ at[Requests[c][conn[c].i]] = "dead"
    BY <1>0, <1>11 DEF ConnJoin, ConnTypeOK, vars, threads
  <2>2. \A j \in 1..Len(Requests[c]) : j < conn'[c].i => j < conn[c].i \/ j = conn[c].i
    BY <1>1, <2>1
  <2>3. conn'[c].i >= 1
    BY <1>1, <2>1
  <2> QED BY <2>1, <2>2, <2>3 DEF Phase
<1>12. CASE ConnFree(c)
  <2>1. /\ conn[c].pc = "kill" /\ conn'[c].pc = "idle" /\ ~got'[c] /\ conn[c].i > SlotCount(c)
    BY <1>0, <1>12 DEF ConnFree, ConnTypeOK, Idle
  <2>2. ASSUME NEW j \in 1..Len(Requests[c]) PROVE at'[Requests[c][j]] = "idle"
    <3>1. at[Requests[c][j]] \in {"idle", "dead"}
      <4>1. CASE got[c]
        <5>1. j < conn[c].i
          BY <1>1, <2>1, <4>1 DEF SlotCount
        <5> QED BY <2>1, <4>1, <5>1 DEF Phase
      <4>2. CASE ~got[c]
        BY <4>2 DEF Phase
      <4> QED BY <4>1, <4>2
    <3> QED BY <1>0, <1>12, <3>1, OwnSlots DEF ConnFree, SlotTypeOK
  <2> QED BY <2>1, <2>2 DEF Phase
<1> QED BY <1>4, <1>5, <1>6, <1>7, <1>8, <1>9, <1>10, <1>11, <1>12 DEF ConnStep

\* Every step keeps the phases of the connections.
LEMMA PhaseStep ==
    ASSUME STypes, \A c \in Conn : Phase(c), [ServerNext]_allvars
    PROVE  \A c \in Conn : Phase(c)'
<1> SUFFICES ASSUME NEW c \in Conn PROVE Phase(c)'
  OBVIOUS
<1>0. ThreadTypeOK
  BY DEF STypes, ServerTypeOK
<1>1. CASE UNCHANGED <<conn, got, at, stop>>
  BY <1>1 DEF Phase
<1>2. CASE (Kernel \/ PollStep) /\ UNCHANGED svars
  BY <1>0, <1>1, <1>2, HidWakes DEF svars, conns, threads
<1>3. ASSUME NEW d \in Conn, Peer(d) \/ ConnAccept(d) \/ ConnStep(d) PROVE Phase(c)'
  <2>1. CASE d = c
    BY <1>3, <2>1, OwnPhase
  <2>2. CASE d # c
    BY <1>3, <2>2, OthersKept, PhaseKept
  <2> QED BY <2>1, <2>2
<1>4. ASSUME NEW t \in Thread, InPool(t) \/ ThreadStep(t) \/ Signal(t) PROVE Phase(c)'
  <2>1. /\ at[t] \notin {"idle", "dead"} /\ at'[t] # "idle"
        /\ \A u \in Thread \ {t} : at'[u] = at[u]
        /\ UNCHANGED <<stop, got>>
        /\ conn'[c].pc = conn[c].pc /\ conn'[c].i = conn[c].i
    BY <1>4, ThreadFrame
  <2>2. \A j \in 1..Len(Requests[c]) : Requests[c][j] \in Thread
    BY OwnSlots
  <2> QED BY <2>1, <2>2, PhaseKept
<1>5. CASE UNCHANGED allvars
  BY <1>1, <1>5 DEF allvars, vars, svars, conns, threads
<1> QED BY <1>2, <1>3, <1>4, <1>5 DEF ServerNext, Stopped

-----------------------------------------------------------------------------
(* Signals, announcements *)

\* Every step keeps signals and stop flags in agreement.
LEMMA FlagsStep ==
    ASSUME STypes, \A t \in Thread : Where(t) /\ Flags(t), \A c \in Conn : Phase(c),
           [ServerNext]_allvars
    PROVE  \A u \in Thread : Flags(u)'
<1> SUFFICES ASSUME NEW u \in Thread PROVE Flags(u)'
  OBVIOUS
<1>0. ThreadTypeOK /\ SlotTypeOK /\ ConnTypeOK /\ Flags(u)
  BY DEF STypes, ServerTypeOK
<1>1. ASSUME UNCHANGED <<sig, stop, at, wire, relock, clean>>, Woke(u), at[u] = "idle" => ctr'[u] = ctr[u]
      PROVE  Flags(u)'
  BY <1>1, <1>0 DEF Flags, Woke
<1>2. CASE (Kernel \/ PollStep) /\ UNCHANGED svars
  BY <1>0, <1>1, <1>2, HidWakes DEF svars, threads
<1>3. ASSUME NEW t \in Thread, InPool(t) \/ ThreadStep(t) \/ Signal(t) PROVE Flags(u)'
  <2>1. /\ at[t] \notin {"idle", "dead"} /\ at'[t] # "idle" /\ UNCHANGED stop
        /\ u # t => /\ at'[u] = at[u] /\ wire'[u] = wire[u]
                    /\ sig'[u] = sig[u] /\ ctr'[u] = ctr[u]
        /\ sig'[t] = sig[t] \/ Signal(t)
    BY <1>3, ThreadFrame
  <2>2. clean' => ~relock'[u]
    <3>1. CASE Signal(t)
      <4>1. CASE UNCHANGED <<relock, clean>>
        BY <1>0, <4>1 DEF Flags
      <4>2. CASE Interrupted(t)
        BY <1>0, <4>2 DEF Interrupted, Interruptible, Flags, SlotTypeOK
      <4> QED BY <3>1, <4>1, <4>2, SignalCases
    <3>2. CASE InPool(t)
      BY <1>0, <3>2 DEF InPool, svars, threads, Flags
    <3>3. CASE ThreadStep(t)
      <4>1. UNCHANGED relock /\ (clean' => clean)
        BY <1>0, <3>3 DEF ThreadStep, SetArgs, Trap, Top, Store, GotNone, SendInfo, ReadLost, Forgot,
                    SendDestroy, ExitReturn, ExitFree, Unwind, SlotTypeOK
      <4> QED BY <1>0, <4>1 DEF Flags
    <3> QED BY <1>3, <3>1, <3>2, <3>3
  <2>3. at[u] = "idle" => pc'[u] = pc[u]
    <3>1. CASE InPool(t)
      BY <1>0, <2>1, <3>1, CallMoves DEF InPool, Woke, Where
    <3>2. CASE ThreadStep(t)
      BY <1>0, <2>1, <3>2
         DEF ThreadStep, SetArgs, Trap, Top, Store, GotNone, SendInfo, ReadLost, Forgot,
             SendDestroy, ExitReturn, ExitFree, Unwind, vars, local, Goto, ThreadTypeOK
    <3>3. CASE Signal(t)
      BY <1>0, <2>1, <3>3, SignalCases DEF Interrupted, ThreadTypeOK
    <3> QED BY <1>3, <3>1, <3>2, <3>3
  <2>4. sig'[u] # "none" => stop'[u]
    <3>1. CASE u # t
      BY <1>0, <2>1, <3>1 DEF Flags
    <3>2. CASE u = t
      BY <1>0, <2>1, <3>2, SignalCases DEF Flags
    <3> QED BY <3>1, <3>2
  <2> QED BY <1>0, <2>1, <2>2, <2>3, <2>4 DEF Flags
<1>4. ASSUME NEW c \in Conn, Peer(c) \/ ConnAccept(c) \/ ConnStep(c) PROVE Flags(u)'
  <2>0. Phase(c) /\ Len(Requests[c]) \in Nat /\ conn[c].i \in Nat
    BY <1>0, ServerAssumption DEF ConnTypeOK
  <2>1. CASE ConnCreate(c)
    <3>1. CASE conn[c].i > Len(Requests[c])
      BY <1>0, <1>1, <2>1, <3>1 DEF ConnCreate, Woke
    <3>2. CASE ~(conn[c].i > Len(Requests[c]))
      <4> DEFINE t == Requests[c][conn[c].i]
      <4>1. conn[c].i \in 1..Len(Requests[c]) /\ at[t] = "idle"
        BY <2>0, <2>1, <3>2 DEF ConnCreate, Phase
      <4>2. t \in Thread /\ Flags(t)
        BY <4>1, OwnSlots
      <4>3. /\ at' = [at EXCEPT ![t] = "new"] /\ pc' = [pc EXCEPT ![t] = "out"]
            /\ stop' = [stop EXCEPT ![t] = FALSE] /\ ctr' = [ctr EXCEPT ![t] = NoCtr]
            /\ UNCHANGED <<sig, relock, wire, clean>>
        BY <2>1, <3>2 DEF ConnCreate, At, Goto
      <4> HIDE DEF t
      <4> QED BY <1>0, <4>1, <4>2, <4>3 DEF Flags, ThreadTypeOK, SlotTypeOK
    <3> QED BY <3>1, <3>2
  <2>2. CASE ConnClose(c)
    BY <1>0, <2>2 DEF ConnClose, Flags, threads, local, ThreadTypeOK
  <2>3. CASE ConnKill(c)
    <3>1. conn[c].pc = "kill" /\ got[c] /\ conn[c].i \in 1..Len(Requests[c])
      BY <2>0, <2>3 DEF ConnKill, SlotCount, Phase
    <3>2. stop[Requests[c][conn[c].i]] /\ at[Requests[c][conn[c].i]] # "idle"
      BY <2>0, <3>1 DEF Phase
    <3> QED BY <1>0, <2>3, <3>2 DEF ConnKill, Flags, vars, SlotTypeOK
  <2>4. CASE ConnFree(c)
    <3>1. CASE u \in SlotsOf(c)
      <4>1. PICK j \in 1..Len(Requests[c]) : u = Requests[c][j]
        BY <3>1, ServerAssumption DEF SlotsOf, Range
      <4>2. stop[u]
        BY <2>0, <2>4, <4>1 DEF ConnFree, Phase
      <4> QED BY <1>0, <2>4, <3>1, <4>2 DEF ConnFree, Flags, vars
    <3>2. CASE u \notin SlotsOf(c)
      BY <1>0, <2>4, <3>2 DEF ConnFree, Flags, vars
    <3> QED BY <3>1, <3>2
  <2>5. CASE ~ConnCreate(c) /\ ~ConnClose(c) /\ ~ConnKill(c) /\ ~ConnFree(c)
    <3>1. UNCHANGED <<sig, stop, at, wire, relock, clean, pc, ctr>>
      BY <1>4, <2>5 DEF Peer, PeerSend, PeerLeave, ConnAccept, ConnStep, ConnTimeout, ConnLost,
                        ConnRecv, ConnApply, ConnShutdown, ConnJoin, vars, local, threads
    <3> QED BY <1>1, <3>1 DEF Woke
  <2> QED BY <2>1, <2>2, <2>3, <2>4, <2>5
<1>5. CASE UNCHANGED allvars
  BY <1>1, <1>5 DEF allvars, vars, svars, threads, Woke
<1> QED BY <1>2, <1>3, <1>4, <1>5 DEF ServerNext, Stopped

\* A device is announced before it is read, and the announcement is taken back before
\* the thread looks for another.
LEMMA AnnouncedStep ==
    ASSUME STypes, \A t \in Thread : Where(t) /\ Flags(t), \A c \in Conn : Phase(c),
           Announced, [ServerNext]_allvars
    PROVE  Announced'
<1> DEFINE Ok(u) == /\ at[u] = "read" => wire[u] = ctr[u].gen
                    /\ at[u] \in {"new", "trap", "top", "get", "info"} => wire[u] = 0
<1> SUFFICES ASSUME NEW u \in Thread PROVE Ok(u)'
  BY DEF Announced
<1>0. ThreadTypeOK /\ SlotTypeOK /\ ConnTypeOK /\ Flags(u) /\ Ok(u)
  BY DEF STypes, ServerTypeOK, Announced
<1>1. ASSUME at'[u] = at[u], wire'[u] = wire[u], ctr'[u] = ctr[u] PROVE Ok(u)'
  BY <1>0, <1>1
<1> HIDE DEF Ok
<1>2. CASE (Kernel \/ PollStep) /\ UNCHANGED svars
  BY <1>0, <1>1, <1>2, HidWakes DEF svars, threads
<1>3. ASSUME NEW t \in Thread, InPool(t) \/ ThreadStep(t) \/ Signal(t) PROVE Ok(u)'
  <2>1. CASE u # t
    BY <1>1, <1>3, <2>1, ThreadFrame
  <2>2. CASE u = t
    <3> USE DEF Ok
    <3>1. CASE InPool(t)
      BY <1>0, <2>2, <3>1 DEF InPool, svars, threads
    <3>2. CASE Signal(t)
      <4>1. CASE Interrupted(t)
        BY <1>0, <2>2, <4>1 DEF Interrupted, SlotTypeOK
      <4>2. CASE UNCHANGED at
        BY <1>1, <3>2, <4>2, SignalCases
      <4> QED BY <3>2, <4>1, <4>2, SignalCases
    <3>3. CASE SendInfo(t) \/ SendDestroy(t)
      BY <1>0, <2>2, <3>3 DEF SendInfo, SendDestroy, At, vars, SlotTypeOK
    <3>4. CASE ThreadStep(t) /\ ~SendInfo(t) /\ ~SendDestroy(t)
      BY <1>0, <2>2, <3>4
         DEF ThreadStep, SetArgs, Trap, Top, Store, GotNone, ReadLost, Forgot,
             ExitReturn, ExitFree, Unwind, At, SlotTypeOK
    <3> QED BY <1>3, <3>1, <3>2, <3>3, <3>4
  <2> QED BY <2>1, <2>2
<1>4. ASSUME NEW c \in Conn, Peer(c) \/ ConnAccept(c) \/ ConnStep(c) PROVE Ok(u)'
  <2>1. CASE ConnCreate(c)
    <3>1. CASE conn[c].i > Len(Requests[c])
      BY <1>1, <2>1, <3>1 DEF ConnCreate
    <3>2. CASE ~(conn[c].i > Len(Requests[c]))
      <4> DEFINE t == Requests[c][conn[c].i]
      <4>1. conn[c].i \in 1..Len(Requests[c]) /\ at[t] = "idle"
        <5>1. Phase(c) /\ Len(Requests[c]) \in Nat /\ conn[c].i \in Nat
          BY <1>0, ServerAssumption DEF ConnTypeOK
        <5> QED BY <2>1, <3>2, <5>1 DEF ConnCreate, Phase
      <4>2. t \in Thread /\ wire[t] = 0
        BY <4>1, OwnSlots DEF Flags
      <4>3. /\ at' = [at EXCEPT ![t] = "new"] /\ ctr' = [ctr EXCEPT ![t] = NoCtr]
            /\ UNCHANGED wire
        BY <2>1, <3>2 DEF ConnCreate, At
      <4> HIDE DEF t
      <4> QED BY <1>0, <4>1, <4>2, <4>3 DEF Ok, ThreadTypeOK, SlotTypeOK
    <3> QED BY <3>1, <3>2
  <2>2. CASE ConnFree(c)
    <3>1. CASE u \in SlotsOf(c)
      <4>1. PICK j \in 1..Len(Requests[c]) : u = Requests[c][j]
        BY <3>1, ServerAssumption DEF SlotsOf, Range
      <4>2. Phase(c)' /\ conn'[c].pc = "idle"
        BY <1>0, <2>2, OwnPhase DEF ConnStep, ConnFree, ConnTypeOK, Idle
      <4>3. at'[u] = "idle"
        BY <4>1, <4>2 DEF Phase
      <4> QED BY <4>3 DEF Ok
    <3>2. CASE u \notin SlotsOf(c)
      BY <1>0, <1>1, <2>2, <3>2 DEF ConnFree, vars
    <3> QED BY <3>1, <3>2
  <2>3. CASE ~ConnCreate(c) /\ ~ConnFree(c)
    <3>1. UNCHANGED <<at, wire, ctr>>
      BY <1>4, <2>3 DEF Peer, PeerSend, PeerLeave, ConnAccept, ConnStep, ConnTimeout, ConnLost,
             ConnRecv, ConnApply, ConnShutdown, ConnClose, ConnKill, ConnJoin, vars, local, threads
    <3> QED BY <1>1, <3>1
  <2> QED BY <2>1, <2>2, <2>3
<1>5. CASE UNCHANGED allvars
  BY <1>1, <1>5 DEF allvars, vars, svars, threads
<1> QED BY <1>2, <1>3, <1>4, <1>5 DEF ServerNext, Stopped

-----------------------------------------------------------------------------
(* The contract of the pool *)

\* A server that is clean and runs was clean and ran before.
LEMMA EarlierClean ==
    ASSUME [ServerNext]_allvars, clean', Running'
    PROVE  clean /\ Running
<1>1. CASE UNCHANGED allvars
  BY <1>1 DEF allvars, vars, svars, threads, Running
<1>2. CASE (Kernel \/ PollStep) /\ UNCHANGED svars
  BY <1>2 DEF svars, threads, Kernel, Plug, Unplug, PollStep, PollStart, PollEnd, PollOpen,
              PollFilter, PollCheckKnown, PollHidraw, PollPushKnown, PollPublish
<1>3. ASSUME NEW c \in Conn, Peer(c) \/ ConnAccept(c) \/ ConnStep(c) PROVE clean /\ Running
  BY <1>3 DEF Peer, PeerSend, PeerLeave, ConnAccept, ConnStep, ConnTimeout, ConnLost, ConnRecv,
              ConnCreate, ConnApply, ConnShutdown, ConnClose, ConnKill, ConnJoin, ConnFree, threads
<1>4. ASSUME NEW t \in Thread, InPool(t) PROVE clean /\ Running
  BY <1>4 DEF InPool, svars, threads, PoolCall, GetLock, GetScan, GetUnlock, ReturnLock,
              ReturnPush, ForgetLock, ForgetClose, ForgetRemove, GetSpurious
<1>5. ASSUME NEW t \in Thread, ThreadStep(t) PROVE clean /\ Running
  BY <1>5 DEF ThreadStep, SetArgs, Trap, Top, Store, GotNone, SendInfo, ReadLost, Forgot,
              SendDestroy, ExitReturn, ExitFree, Unwind
<1>6. ASSUME NEW t \in Thread, Signal(t) PROVE clean /\ Running
  BY <1>6, SignalCases DEF Interrupted
<1> QED BY <1>1, <1>2, <1>3, <1>4, <1>5, <1>6 DEF ServerNext, Stopped

\* While clean holds, each step of the server is a step of the pool's callers or leaves
\* the pool alone: the signal finds a thread that waits for the mutex and has nothing
\* yet (Abandon), or one whose controller device_thread_exit will return.
LEMMA ContractStep ==
    ASSUME SInv, [ServerNext]_allvars, clean', Running'
    PROVE  Next \/ UNCHANGED vars
<1>0. clean /\ Running /\ IInv
  BY EarlierClean DEF SInv, DInv
<1>1. /\ ThreadTypeOK /\ SlotTypeOK /\ ConnTypeOK
      /\ \A t \in Thread : Where(t) /\ Flags(t)
      /\ \A c \in Conn : Phase(c)
  BY DEF SInv, ServerTypeOK
<1>2. CASE UNCHANGED allvars
  BY <1>2 DEF allvars
<1>3. CASE (Kernel \/ PollStep) /\ UNCHANGED svars
  BY <1>3 DEF Next
<1>4. ASSUME NEW t \in Thread, InPool(t) PROVE Next
  BY <1>4 DEF InPool, Next
<1>5. ASSUME NEW t \in Thread, Caller(t) PROVE Next
  BY <1>5 DEF Next
<1>6. ASSUME NEW c \in Conn, ConnCreate(c) PROVE Next \/ UNCHANGED vars
  <2>1. CASE conn[c].i > Len(Requests[c])
    BY <1>6, <2>1 DEF ConnCreate, vars, env, pool
  <2>2. CASE ~(conn[c].i > Len(Requests[c]))
    <3> DEFINE t == Requests[c][conn[c].i]
    <3>1. conn[c].i \in 1..Len(Requests[c]) /\ at[t] = "idle"
      <4>1. Phase(c) /\ Len(Requests[c]) \in Nat /\ conn[c].i \in Nat
        BY <1>1, ServerAssumption DEF ConnTypeOK
      <4> QED BY <1>6, <2>2, <4>1 DEF ConnCreate, Phase
    <3>2. t \in Thread
      BY <3>1, OwnSlots
    <3>3. /\ pc[t] \in {"out", "none", "returned"}
          /\ stop[t] \/ (pc[t] = "out" /\ ctr[t] = NoCtr)
      BY <1>1, <3>1, <3>2 DEF Where, Flags
    <3>4. /\ stop' = [stop EXCEPT ![t] = FALSE] /\ Goto(t, "out")
          /\ ctr' = [ctr EXCEPT ![t] = NoCtr]
          /\ UNCHANGED <<env, pool, ref_index, hid, fault>>
      BY <1>6, <2>2 DEF ConnCreate
    <3> HIDE DEF t
    <3>5. CASE stop[t]
      <4>1. Reopen(t)
        BY <1>0, <3>3, <3>4, <3>5 DEF Reopen
      <4> QED BY <1>5, <3>2, <4>1 DEF Caller
    <3>6. CASE ~stop[t]
      BY <1>1, <3>2, <3>3, <3>4, <3>6 DEF Goto, vars, env, pool, ThreadTypeOK
    <3> QED BY <3>5, <3>6
  <2> QED BY <2>1, <2>2
<1>7. ASSUME NEW c \in Conn, ConnClose(c) PROVE Next \/ UNCHANGED vars
  <2>1. SlotsOf(c) \in SUBSET Thread
    BY ServerAssumption DEF SlotsOf, Range
  <2>2. CASE \E t \in SlotsOf(c) : ~stop[t]
    <3>1. Close(SlotsOf(c))
      BY <1>0, <1>7, <2>2 DEF ConnClose, Close
    <3> QED BY <2>1, <3>1 DEF Next
  <2>3. CASE \A t \in SlotsOf(c) : stop[t]
    <3>1. stop' = stop
      BY <1>1, <1>7, <2>3 DEF ConnClose, ThreadTypeOK
    <3> QED BY <1>7, <3>1 DEF ConnClose, vars, env, pool, local
  <2> QED BY <2>2, <2>3
<1>8. ASSUME NEW c \in Conn, ConnApply(c) PROVE UNCHANGED vars
  BY <1>8 DEF ConnApply, Running, vars, env, pool, local
<1>9. ASSUME NEW t \in Thread, Top(t) PROVE Next
  <2>1. CallGet(t)
    BY <1>1, <1>9 DEF Top, Where, CallGet
  <2> QED BY <1>5, <2>1 DEF Caller
<1>10. ASSUME NEW t \in Thread, ReadLost(t) PROVE Next
  <2>1. CallForget(t)
    BY <1>1, <1>10 DEF ReadLost, Where, CallForget
  <2> QED BY <1>5, <2>1 DEF Caller
<1>11. ASSUME NEW t \in Thread, ExitReturn(t) PROVE Next \/ UNCHANGED vars
  <2>1. CASE pc[t] = "got"
    <3>1. CallReturn(t)
      BY <1>11, <2>1 DEF ExitReturn, CallReturn
    <3> QED BY <1>5, <3>1 DEF Caller
  <2>2. CASE pc[t] = "rlock"
    <3>1. pc' = pc
      BY <1>1, <1>11, <2>2 DEF ExitReturn, Goto, ThreadTypeOK
    <3> QED BY <1>11, <3>1 DEF ExitReturn, vars, env, pool
  <2> QED BY <1>11, <2>1, <2>2 DEF ExitReturn
<1>12. ASSUME NEW t \in Thread, Unwind(t) PROVE UNCHANGED vars
  <2>1. ~relock[t]
    BY <1>0, <1>1 DEF Flags
  <2> QED BY <1>12, <2>1 DEF Unwind, vars, env, local
<1>13. ASSUME NEW t \in Thread, Signal(t) PROVE Next \/ UNCHANGED vars
  <2>1. /\ Interrupted(t) /\ Interruptible(t) /\ sig[t] = "pending"
        /\ UNCHANGED <<env, pool, ctr, ref_index, stop, hid, fault>>
    BY <1>13, SignalCases DEF Interrupted
  <2>2. CASE pc' = pc
    BY <2>1, <2>2 DEF vars, env, pool
  <2>3. CASE pc' # pc
    <3>1. slot[t] = "null" /\ pc[t] # "none" /\ pc' = [pc EXCEPT ![t] = "out"] /\ pc[t] # "out"
      BY <1>1, <2>1, <2>3 DEF Interrupted, ThreadTypeOK
    <3>2. at[t] = "get" /\ pc[t] \in {"glock", "gscan", "gwait", "gunlock", "gstop", "got"}
      BY <1>1, <2>1, <3>1 DEF Interrupted, Where, SlotTypeOK, AtPC
    <3>3. pc[t] \notin {"gscan", "gunlock", "gstop"}
      BY <1>0, <2>1 DEF IInv, Locks, LockPC, Interruptible
    <3>4. pc[t] = "glock" /\ stop[t]
      BY <1>1, <2>1, <3>2, <3>3 DEF Interruptible, Flags
    <3>5. Abandon(t)
      BY <1>0, <2>1, <3>1, <3>4 DEF Abandon, Goto
    <3> QED BY <1>5, <3>5 DEF Caller
  <2> QED BY <2>2, <2>3
<1>14. ASSUME NEW c \in Conn, Peer(c) \/ ConnAccept(c) \/ ConnStep(c)
       PROVE  Next \/ UNCHANGED vars
  BY <1>6, <1>7, <1>8, <1>14, OutsidePool DEF ConnOnly, ConnStep
<1>15. ASSUME NEW t \in Thread, ThreadStep(t) PROVE Next \/ UNCHANGED vars
  BY <1>9, <1>10, <1>11, <1>12, <1>15, OutsidePool DEF ThreadOnly, ThreadStep
<1> QED BY <1>2, <1>3, <1>4, <1>13, <1>14, <1>15 DEF ServerNext, Stopped

-----------------------------------------------------------------------------
(* Theorems *)

\* The server starts without connections and threads.
LEMMA ServerInitially == ServerInit => SInv
<1> SUFFICES ASSUME ServerInit PROVE SInv
  OBVIOUS
<1> USE DEF ServerInit
<1>1. DInv
  BY DescriptorsInitially
<1>2. HidTypes
  BY <1>1 DEF DInv, IInv, TypeOK, HidTypes, EnvTypeOK
<1>3. ConnTypeOK
  <2>1. \A c \in Conn : inbox[c] \in Seq(Message(c)) /\ Len(inbox[c]) <= MaxInbox
    BY ServerAssumption
  <2> QED BY <2>1 DEF ConnTypeOK, Idle, ConnPC
<1>4. SlotTypeOK
  BY PoolAssumption DEF SlotTypeOK, AtPC
<1>5. ServerTypeOK /\ EnvTypeOK
  BY <1>2, <1>3, <1>4, ServerAssumption DEF ServerTypeOK, HidTypes, Init, Faults
<1>6. \A t \in Thread : pc[t] = "out" /\ ctr[t] = NoCtr /\ ~stop[t]
  BY DEF Init
<1>7. CompleteSlots
  BY <1>6 DEF CompleteSlots, Complete, HasId, Holds, HoldPC
<1>8. \A t \in Thread : Where(t) /\ Flags(t)
  BY <1>6 DEF Where, Flags
<1>9. \A c \in Conn : Phase(c)
  <2> SUFFICES ASSUME NEW c \in Conn PROVE Phase(c)
    OBVIOUS
  <2>1. conn[c].pc = "idle" /\ ~got[c] /\ \A j \in 1..Len(Requests[c]) : at[Requests[c][j]] = "idle"
    BY OwnSlots DEF Idle
  <2> QED BY <2>1 DEF Phase
<1>10. Announced
  BY DEF Announced
<1> QED BY <1>1, <1>5, <1>7, <1>8, <1>9, <1>10 DEF SInv

\* Every step of the server, of its clients and of the kernel keeps the invariant.
LEMMA ServerInductive == SInv /\ [ServerNext]_allvars => SInv'
<1> SUFFICES ASSUME SInv, [ServerNext]_allvars PROVE SInv'
  OBVIOUS
<1>1. /\ STypes /\ \A t \in Thread : Where(t) /\ Flags(t)
      /\ \A c \in Conn : Phase(c) /\ Announced
  BY DEF SInv, STypes
<1>2. STypes' /\ \A t \in Thread : Where(t)' /\ Flags(t)'
  BY <1>1, STypesStep, WhereStep, FlagsStep
<1>3. (\A c \in Conn : Phase(c)') /\ Announced'
  BY <1>1, PhaseStep, AnnouncedStep DEF SInv
<1>4. ASSUME clean', Running' PROVE DInv'
  <2>1. DInv
    BY <1>4, EarlierClean DEF SInv
  <2> QED BY <1>4, <2>1, ContractStep, DescriptorsInductive
<1> QED BY <1>2, <1>3, <1>4 DEF SInv, STypes

\* The invariant of every behaviour of the server.
THEOREM ServerInvariance == ServerSpec => []SInv
  BY ServerInitially, ServerInductive, PTL DEF ServerSpec

\* Every variable of server.c and hid.c keeps its type, also after a thread was ended
\* inside a call.
THEOREM ServerTypeCorrect == ServerSpec => []ServerTypeOK
<1>1. SInv => ServerTypeOK
  BY DEF SInv
<1> QED BY ServerInvariance, <1>1, PTL

\* server_handle_conn frees what its device threads point to only when all have ended,
\* however signals, exits and joins interleave.
THEOREM Joined == ServerSpec => []JoinedBeforeFree
<1>1. SInv => JoinedBeforeFree
  <2> SUFFICES ASSUME SInv, NEW c \in Conn, conn[c].pc = "idle", NEW t \in SlotsOf(c)
               PROVE  at[t] = "idle"
    BY DEF JoinedBeforeFree
  <2>1. PICK j \in 1..Len(Requests[c]) : t = Requests[c][j]
    BY ServerAssumption DEF SlotsOf, Range
  <2> QED BY <2>1 DEF SInv, Phase
<1> QED BY ServerInvariance, <1>1, PTL

\* A thread reads only the device that is announced for its slot, and looks for one only
\* while none is.
THEOREM AnnouncedFirst == ServerSpec => []Announced
<1>1. SInv => Announced
  BY DEF SInv
<1> QED BY ServerInvariance, <1>1, PTL

\* As long as no thread was ended inside a call and none returned what it had given up,
\* the device threads keep the contract of get_device, return_device and forget_device.
THEOREM Contract == ServerSpec => CleanContract
<1>1. ServerInit => Init
  BY DEF ServerInit
<1>2. SInv /\ [ServerNext]_allvars => [clean' /\ Running' => Next]_vars
  BY ContractStep
<1> QED BY ServerInvariance, <1>1, <1>2, PTL DEF ServerSpec, CleanContract

\* So long, the server does what the allocator promises.
THEOREM ServerAllocates ==
    ServerSpec => [][clean' /\ Running' => Alloc!Next \/ UNCHANGED Alloc!allocVars]_allvars
<1>1. SInv /\ [ServerNext]_allvars
         => [clean' /\ Running' => Alloc!Next \/ UNCHANGED Alloc!allocVars]_allvars
  <2> SUFFICES ASSUME SInv, [ServerNext]_allvars, clean', Running'
               PROVE  Alloc!Next \/ UNCHANGED Alloc!allocVars
    OBVIOUS
  <2>1. IInv /\ [Next]_vars
    BY EarlierClean, ContractStep DEF SInv, DInv
  <2> QED BY <2>1, StepSimulation
<1> QED BY ServerInvariance, <1>1, PTL DEF ServerSpec

\* So long, what is proved of the pool holds of the server: one device is not with two
\* slots, no known device is lost, no wake-up is, and no descriptor is leaked.
THEOREM CleanServer ==
    ServerSpec => [](clean /\ Running => /\ Exclusive /\ KnownAccounted /\ NoLostWakeup
                                        /\ DescriptorsAccounted)
<1>1. DInv => Exclusive /\ KnownAccounted /\ NoLostWakeup /\ DescriptorsAccounted
  BY DEF DInv, IInv, Exclusive, Apart, DistinctIds, HasId
<1>2. SInv => (clean /\ Running => /\ Exclusive /\ KnownAccounted /\ NoLostWakeup
                                  /\ DescriptorsAccounted)
  BY <1>1 DEF SInv
<1> QED BY ServerInvariance, <1>2, PTL
==============================================================================
