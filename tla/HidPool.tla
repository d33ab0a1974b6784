------------------------------- MODULE HidPool -------------------------------
(***************************************************************************)
(* The device pool of the server (hid.c): the vectors known_devices,       *)
(* available_devices and cloneable_devices, the two mutexes and the        *)
(* condition variable that protect them, the hid thread that polls         *)
(* /sys/class/input, and the three calls of the device threads:            *)
(* get_device, return_device and forget_device.                            *)
(*                                                                         *)
(* This module has the pool under the contract its functions ask of a      *)
(* caller: a thread uses the controller get_device gave it, then returns   *)
(* it or forgets it, once.  Module Server replaces that caller by the      *)
(* device threads of server.c, which use the same actions.                 *)
(*                                                                         *)
(* A device of the kernel is an entry of /sys/class/input with a number,   *)
(* gen, that is new each time something is plugged: the entry (and so the  *)
(* id) may be the same as before, the file descriptor is not.              *)
(***************************************************************************)
EXTENDS Integers, Sequences, FiniteSetsExt

CONSTANTS
    Thread,     \* the device threads
    Event,      \* entries eventN of /sys/class/input, also the ids N
    Tag,        \* the tags of both configurations
    Config,     \* server configuration: the sequence "controllers"
    Tags,       \* Tags[t]: the sequence of tags thread t asks for
    NoOwner,    \* a mutex that is not locked
    NoDev,      \* no device
    MaxPlug     \* bound: how often something is plugged in

ServerConfigController ==
    [tag : Tag, duplicate : BOOLEAN, ps4_hidraw : BOOLEAN, js : BOOLEAN]

ASSUME PoolAssumption ==
    /\ Config \in Seq(ServerConfigController)
    /\ Tags \in [Thread -> Seq(Tag)]
    /\ NoOwner \notin Thread
    /\ MaxPlug \in Nat

VARIABLES
    plugged,        \* [Event -> NoDev or the device now behind the entry]
    plugs,          \* how many devices have been plugged so far
    open,           \* gens of controllers with open descriptors, name allocated
    known,          \* known_devices
    available,      \* available_devices
    cloneable,      \* cloneable_devices
    devices_mutex,  \* the thread that holds it, or NoOwner
    known_mutex,    \* known_devices_mutex
    pc,             \* where each device thread is
    ctr,            \* the Controller each thread passes to get_device
    ref_index,      \* index of the tag that matched
    stop,           \* args->conn->closed
    hid,            \* hid thread: pc, entries still to read, dev, dev.event open
    fault           \* undefined behaviour that ended the process, or "none"

env   == <<plugged, plugs>>
pool  == <<known, available, cloneable, devices_mutex, known_mutex, open>>
local == <<pc, ctr, ref_index>>
vars  == <<plugged, plugs, open, known, available, cloneable, devices_mutex,
           known_mutex, pc, ctr, ref_index, stop, hid, fault>>

(***************************************************************************)
(* A Controller is copied whole (a C struct assignment), so equal records  *)
(* are the same descriptors.  device.cfg is the index in Config of the     *)
(* first entry whose filter accepts the device, 0 when none does.  named   *)
(* says whether dev.name was ever assigned.                                *)
(***************************************************************************)
Device     == [gen : 1..MaxPlug, cfg : 0..Len(Config)]
Controller ==
    [id : Event, gen : 1..MaxPlug, named : BOOLEAN, ctr : ServerConfigController]

NoCtr == [gen |-> -1]

-----------------------------------------------------------------------------
(* vec.c, on the element sequence of a Vec *)

vec_push(v, x) == Append(v, x)

\* Bug: memmove starts one element too far.
vec_remove_off_by_one(v, i) ==
    [j \in 1..(Len(v) - 1) |-> IF j <= i THEN v[j] ELSE v[j + 1]]

\* Elements after index i move down by one (memmove).  The loops of hid.c that
\* stop at the first element they look for are Min over its positions.
vec_remove(v, i) == [j \in 1..(Len(v) - 1) |-> IF j < i THEN v[j] ELSE v[j + 1]]

-----------------------------------------------------------------------------
Init ==
    /\ plugged = [e \in Event |-> NoDev]
    /\ plugs = 0
    /\ open = {}
    /\ known = <<>>
    /\ available = <<>>
    /\ cloneable = <<>>
    /\ devices_mutex = NoOwner
    /\ known_mutex = NoOwner
    /\ pc = [t \in Thread |-> "out"]
    /\ ctr = [t \in Thread |-> NoCtr]
    /\ ref_index = [t \in Thread |-> 0]
    /\ stop = [t \in Thread |-> FALSE]
    /\ hid = [pc |-> "sleep", todo |-> {}, dev |-> NoCtr, event |-> FALSE]
    /\ fault = "none"

Running == fault = "none"

Goto(t, label) == pc' = [pc EXCEPT ![t] = label]

\* Bug: pthread_cond_signal instead of pthread_cond_broadcast.
WokenOne ==
    LET waiting == {t \in Thread : pc[t] = "gwait"} IN
    IF waiting = {} THEN pc ELSE [pc EXCEPT ![CHOOSE t \in waiting : TRUE] = "glock"]

\* pthread_cond_broadcast: every waiter has to take the mutex again.
Woken == [t \in Thread |-> IF pc[t] = "gwait" THEN "glock" ELSE pc[t]]

-----------------------------------------------------------------------------
(* The kernel: devices come and go. *)

Plug(e, k) ==
    /\ Running
    /\ plugged[e] = NoDev
    /\ plugs < MaxPlug
    /\ plugs' = plugs + 1
    /\ plugged' = [plugged EXCEPT ![e] = [gen |-> plugs + 1, cfg |-> k]]
    /\ UNCHANGED <<pool, local, stop, hid, fault>>

Unplug(e) ==
    /\ Running
    /\ plugged[e] # NoDev
    /\ plugged' = [plugged EXCEPT ![e] = NoDev]
    /\ UNCHANGED <<plugs, pool, local, stop, hid, fault>>

\* The device c was opened for is still plugged in.
Present(c) == plugged[c.id] # NoDev /\ plugged[c.id].gen = c.gen

\* Reading the event descriptor of c fails: its device was unplugged, or the
\* descriptor was closed by forget_device.
Gone(c) == ~(c.gen \in open /\ Present(c))

-----------------------------------------------------------------------------
(* hid thread: poll_devices *)

\* opendir: a new pass over the directory.
PollStart ==
    /\ Running
    /\ hid.pc = "sleep"
    /\ hid' = [hid EXCEPT !.pc = "next", !.todo = Event]
    /\ UNCHANGED <<env, pool, local, stop, fault>>

\* readdir returns NULL: closedir, nanosleep.
PollEnd ==
    /\ Running
    /\ hid.pc = "next"
    /\ hid.todo = {}
    /\ hid' = [hid EXCEPT !.pc = "sleep"]
    /\ UNCHANGED <<env, pool, local, stop, fault>>

\* readdir returns e and the event file is opened; an entry that is gone by now
\* cannot be opened and is passed over.
PollOpen(e) ==
    /\ Running
    /\ hid.pc = "next"
    /\ e \in hid.todo
    /\ IF plugged[e] = NoDev
       THEN hid' = [hid EXCEPT !.todo = @ \ {e}]
       ELSE hid' = [pc |-> "filter", todo |-> hid.todo \ {e}, event |-> TRUE,
                    dev |-> [id |-> e, gen |-> plugged[e].gen]]
    /\ UNCHANGED <<env, pool, local, stop, fault>>

\* Bug: continue instead of goto skip.
SkipOpen == hid' = [hid EXCEPT !.pc = "next", !.dev = NoCtr]

\* The label skip: close(dev.event) and go on with the next entry.
Skip == hid' = [hid EXCEPT !.pc = "next", !.dev = NoCtr, !.event = FALSE]

\* Go on with entry k of the configuration as ctr.
Accept(k, named) ==
    hid' = [hid EXCEPT !.pc = "check",
              !.dev = [id |-> hid.dev.id, gen |-> hid.dev.gen, named |-> named,
                       ctr |-> Config[k]]]

\* /sys/class/input has a directory for the entry: some device is behind it,
\* by now perhaps not the one that was opened.
Directory(id) == plugged[id] # NoDev

\* Entries of Config that filter_event can let a vanished device through: its
\* ids stay uninitialised, but with "js" filter_event looks into the directory
\* of the entry, and calls readdir on the NULL opendir returns without one.
GoneMatches ==
    {k \in 1..Len(Config) : \A j \in 1..k : Config[j].js => Directory(hid.dev.id)}

\* EVIOCGNAME, then filter_event over the configuration's entries, first match
\* wins.  The name of a device that vanishes may be missed or not.
PollFilter ==
    /\ Running
    /\ hid.pc = "filter"
    /\ \/ /\ Present(hid.dev)
          /\ LET k == plugged[hid.dev.id].cfg IN IF k = 0 THEN Skip ELSE Accept(k, TRUE)
          /\ UNCHANGED fault
       \/ /\ ~Present(hid.dev)
          /\ \E k \in GoneMatches, named \in BOOLEAN : Accept(k, named)
          /\ UNCHANGED fault
       \/ /\ ~Present(hid.dev)
          /\ IF ~Directory(hid.dev.id) /\ \E j \in 1..Len(Config) : Config[j].js
             THEN fault' = "readdir(NULL)" /\ UNCHANGED hid
             ELSE Skip /\ UNCHANGED fault
    /\ UNCHANGED <<env, pool, local, stop>>

\* Bug: the id is not looked up.
PollCheckNothing ==
    /\ Running
    /\ hid.pc = "check"
    /\ known_mutex = NoOwner
    /\ hid' = [hid EXCEPT !.pc = "hidraw"]
    /\ UNCHANGED <<env, pool, local, stop, fault>>

\* Look the id up in known_devices, under its mutex.
PollCheckKnown ==
    /\ Running
    /\ hid.pc = "check"
    /\ known_mutex = NoOwner
    /\ IF hid.dev.id \in Range(known)
       THEN Skip
       ELSE hid' = [hid EXCEPT !.pc = "hidraw"]
    /\ UNCHANGED <<env, pool, local, stop, fault>>

\* With ps4_hidraw, look for the hidraw node: no such node, or no permission to
\* open it, skips the device; an entry without the hidraw directory (its device
\* is gone, or has none) makes opendir return NULL, which readdir dereferences.
PollHidraw ==
    /\ Running
    /\ hid.pc = "hidraw"
    /\ \/ /\ hid.dev.ctr.ps4_hidraw => Directory(hid.dev.id)
          /\ hid' = [hid EXCEPT !.pc = "push_known"]
          /\ UNCHANGED fault
       \/ /\ hid.dev.ctr.ps4_hidraw
          /\ Directory(hid.dev.id)
          /\ Skip
          /\ UNCHANGED fault
       \/ /\ hid.dev.ctr.ps4_hidraw
          /\ fault' = "readdir(NULL)"
          /\ UNCHANGED hid
    /\ UNCHANGED <<env, pool, local, stop>>

\* The name is allocated and the device set up: its descriptors now belong to a
\* Controller, and its id is known from here on.
PollPushKnown ==
    /\ Running
    /\ hid.pc = "push_known"
    /\ known_mutex = NoOwner
    /\ known' = vec_push(known, hid.dev.id)
    /\ open' = open \cup {hid.dev.gen}
    /\ hid' = [hid EXCEPT !.pc = "publish", !.event = FALSE]
    /\ UNCHANGED <<env, available, cloneable, devices_mutex, known_mutex, local,
                   stop, fault>>

\* The controller goes to its vector and every waiting thread is woken.
PollPublish ==
    /\ Running
    /\ hid.pc = "publish"
    /\ devices_mutex = NoOwner
    /\ IF hid.dev.ctr.duplicate
       THEN /\ cloneable' = vec_push(cloneable, hid.dev)
            /\ UNCHANGED available
       ELSE /\ available' = vec_push(available, hid.dev)
            /\ UNCHANGED cloneable
    /\ pc' = Woken
    /\ hid' = [hid EXCEPT !.pc = "next", !.dev = NoCtr]
    /\ UNCHANGED <<env, known, devices_mutex, known_mutex, open, ctr, ref_index,
                   stop, fault>>

-----------------------------------------------------------------------------
(* get_device *)

\* Positions of the tags of thread t that equal tag.
MatchingTags(tag, t) == {i \in 1..Len(Tags[t]) : Tags[t][i] = tag}

\* match_tags: first of them, as an index from 0, or -1.
match_tags(tag, t) ==
    IF MatchingTags(tag, t) = {} THEN -1 ELSE Min(MatchingTags(tag, t)) - 1

Suits(c, t) == match_tags(c.ctr.tag, t) >= 0

\* Indices of vector v that thread t would accept.
Suitable(v, t) == {i \in 1..Len(v) : Suits(v[i], t)}

\* pthread_mutex_lock(&devices_mutex), on entry and when a wait ends.
GetLock(t) ==
    /\ Running
    /\ pc[t] = "glock"
    /\ devices_mutex = NoOwner
    /\ devices_mutex' = t
    /\ Goto(t, "gscan")
    /\ UNCHANGED <<env, known, available, cloneable, known_mutex, open, ctr,
                   ref_index, stop, hid, fault>>

\* The controller c is copied to the caller's buffer.
Hand(t, c) ==
    /\ ctr' = [ctr EXCEPT ![t] = c]
    /\ ref_index' = [ref_index EXCEPT ![t] = match_tags(c.ctr.tag, t)]
    /\ Goto(t, "gunlock")

\* One turn of the loop, the mutex held: stop, take an available device, copy
\* a cloneable one, or wait (which lets go of the mutex).
GetScan(t) ==
    /\ Running
    /\ pc[t] = "gscan"
    /\ \/ /\ stop[t]
          /\ Goto(t, "gstop")
          /\ UNCHANGED <<available, ctr, ref_index, devices_mutex>>
       \/ /\ ~stop[t]
          /\ Suitable(available, t) # {}
          /\ LET i == Min(Suitable(available, t)) IN
             /\ Hand(t, available[i])
             /\ available' = vec_remove(available, i)
          /\ UNCHANGED devices_mutex
       \/ /\ ~stop[t]
          /\ Suitable(available, t) = {}
          /\ Suitable(cloneable, t) # {}
          /\ Hand(t, cloneable[Min(Suitable(cloneable, t))])
          /\ UNCHANGED <<available, devices_mutex>>
       \/ /\ ~stop[t]
          /\ Suitable(available, t) = {}
          /\ Suitable(cloneable, t) = {}
          /\ Goto(t, "gwait")
          /\ devices_mutex' = NoOwner
          /\ UNCHANGED <<available, ctr, ref_index>>
    /\ UNCHANGED <<env, known, cloneable, known_mutex, open, stop, hid, fault>>

\* pthread_cond_wait may also return without a broadcast.
GetSpurious(t) ==
    /\ Running
    /\ pc[t] = "gwait"
    /\ Goto(t, "glock")
    /\ UNCHANGED <<env, pool, ctr, ref_index, stop, hid, fault>>

\* Unlock and return true ("got") or false ("none").
GetUnlock(t) ==
    /\ Running
    /\ pc[t] \in {"gunlock", "gstop"}
    /\ devices_mutex' = NoOwner
    /\ Goto(t, IF pc[t] = "gunlock" THEN "got" ELSE "none")
    /\ UNCHANGED <<env, known, available, cloneable, known_mutex, open, ctr,
                   ref_index, stop, hid, fault>>

-----------------------------------------------------------------------------
(* return_device *)

\* Nothing to do for a cloneable device; otherwise lock.
ReturnLock(t) ==
    /\ Running
    /\ pc[t] = "rlock"
    /\ IF ctr[t].ctr.duplicate
       THEN /\ Goto(t, "returned")
            /\ UNCHANGED devices_mutex
       ELSE /\ devices_mutex = NoOwner
            /\ devices_mutex' = t
            /\ Goto(t, "rpush")
    /\ UNCHANGED <<env, known, available, cloneable, known_mutex, open, ctr,
                   ref_index, stop, hid, fault>>

\* Push, broadcast, unlock.
ReturnPush(t) ==
    /\ Running
    /\ pc[t] = "rpush"
    /\ available' = vec_push(available, ctr[t])
    /\ pc' = [Woken EXCEPT ![t] = "returned"]
    /\ devices_mutex' = NoOwner
    /\ UNCHANGED <<env, known, cloneable, known_mutex, open, ctr, ref_index,
                   stop, hid, fault>>

-----------------------------------------------------------------------------
(* forget_device *)

ForgetLock(t) ==
    /\ Running
    /\ pc[t] = "flock"
    /\ known_mutex = NoOwner
    /\ known_mutex' = t
    /\ Goto(t, "fclose")
    /\ UNCHANGED <<env, known, available, cloneable, devices_mutex, open, ctr,
                   ref_index, stop, hid, fault>>

\* A duplicate is looked for in cloneable_devices through a pointer made of the
\* descriptors in the first eight bytes of the first element.  Otherwise the
\* name is freed and the descriptors are closed; a second time frees it twice,
\* and a name that was never assigned is whatever the stack held.
ForgetClose(t) ==
    /\ Running
    /\ pc[t] = "fclose"
    /\ LET wild == ctr[t].ctr.duplicate /\ Len(cloneable) > 0 IN
       \/ /\ wild
          /\ fault' = "wild pointer"
          /\ UNCHANGED <<pc, open>>
       \/ /\ ~wild
          /\ ctr[t].gen \notin open
          /\ fault' = "double free"
          /\ UNCHANGED <<pc, open>>
       \/ /\ ~wild
          /\ ctr[t].gen \in open
          /\ ~ctr[t].named
          /\ fault' = "invalid free"
          /\ UNCHANGED <<pc, open>>
       \/ /\ ~wild
          /\ ctr[t].gen \in open
          /\ open' = open \ {ctr[t].gen}
          /\ Goto(t, "fremove")
          /\ UNCHANGED fault
    /\ UNCHANGED <<env, known, available, cloneable, devices_mutex, known_mutex,
                   ctr, ref_index, stop, hid>>

\* Positions of id in known_devices.
Positions(id) == {i \in 1..Len(known) : known[i] = id}

\* Bug: the id stays in known_devices.
ForgetKeepsId(t) ==
    /\ Running
    /\ pc[t] = "fremove"
    /\ known_mutex' = NoOwner
    /\ Goto(t, "forgot")
    /\ UNCHANGED <<env, known, available, cloneable, devices_mutex, open, ctr,
                   ref_index, stop, hid, fault>>

\* The first entry with the id leaves known_devices; unlock.
ForgetRemove(t) ==
    /\ Running
    /\ pc[t] = "fremove"
    /\ known' = IF Positions(ctr[t].id) = {}
                THEN known
                ELSE vec_remove(known, Min(Positions(ctr[t].id)))
    /\ known_mutex' = NoOwner
    /\ Goto(t, "forgot")
    /\ UNCHANGED <<env, available, cloneable, devices_mutex, open, ctr,
                   ref_index, stop, hid, fault>>

-----------------------------------------------------------------------------
(* A caller that keeps the contract. *)

CallGet(t) ==
    /\ Running
    /\ pc[t] \in {"out", "forgot"}
    /\ Goto(t, "glock")
    /\ ctr' = [ctr EXCEPT ![t] = NoCtr]
    /\ UNCHANGED <<env, pool, ref_index, stop, hid, fault>>

\* The device was lost: reading from it fails.
CallForget(t) ==
    /\ Running
    /\ pc[t] = "got"
    /\ Gone(ctr[t])
    /\ Goto(t, "flock")
    /\ UNCHANGED <<env, pool, ctr, ref_index, stop, hid, fault>>

CallReturn(t) ==
    /\ Running
    /\ pc[t] = "got"
    /\ Goto(t, "rlock")
    /\ UNCHANGED <<env, pool, ctr, ref_index, stop, hid, fault>>

\* A thread may end while it waits for the mutex in get_device: it has taken
\* nothing yet.
Abandon(t) ==
    /\ Running
    /\ pc[t] = "glock"
    /\ stop[t]
    /\ Goto(t, "out")
    /\ UNCHANGED <<env, pool, ctr, ref_index, stop, hid, fault>>

\* The connection of the threads in set ends ...
Close(set) ==
    /\ Running
    /\ \E t \in set : ~stop[t]
    /\ stop' = [t \in Thread |-> stop[t] \/ t \in set]
    /\ UNCHANGED <<env, pool, local, hid, fault>>

\* ... and another one takes its place.
Reopen(t) ==
    /\ Running
    /\ stop[t]
    /\ pc[t] \in {"none", "returned", "forgot", "out"}
    /\ stop' = [stop EXCEPT ![t] = FALSE]
    /\ Goto(t, "out")
    /\ ctr' = [ctr EXCEPT ![t] = NoCtr]
    /\ UNCHANGED <<env, pool, ref_index, hid, fault>>

-----------------------------------------------------------------------------
Kernel ==
    \E e \in Event : Unplug(e) \/ \E k \in 0..Len(Config) : Plug(e, k)

PollStep ==
    \/ PollStart \/ PollEnd \/ PollFilter \/ PollCheckKnown
    \/ PollHidraw \/ PollPushKnown \/ PollPublish
    \/ \E e \in Event : PollOpen(e)

PoolCall(t) ==
    \/ GetLock(t) \/ GetScan(t) \/ GetUnlock(t)
    \/ ReturnLock(t) \/ ReturnPush(t)
    \/ ForgetLock(t) \/ ForgetClose(t) \/ ForgetRemove(t)

Caller(t) ==
    CallGet(t) \/ CallForget(t) \/ CallReturn(t) \/ Abandon(t) \/ Reopen(t)

\* The process is gone once a fault has ended it.
Faulted == ~Running /\ UNCHANGED vars

Next ==
    \/ Kernel
    \/ PollStep
    \/ \E t \in Thread : PoolCall(t) \/ GetSpurious(t) \/ Caller(t)
    \/ \E set \in SUBSET Thread : Close(set)
    \/ Faulted

Spec == Init /\ [][Next]_vars

(***************************************************************************)
(* Fairness.  Threads run, and a thread that keeps finding the mutex free  *)
(* gets it in the end (hence strong fairness; the steps of one thread      *)
(* exclude each other, so one condition stands for all of them).  A caller *)
(* whose device is gone notices at its first read: its connection may      *)
(* close just before, but not each time (strong fairness again).  A caller *)
(* that was stopped returns its device.  Nothing is assumed of the kernel, *)
(* of the clients, nor that a thread calls get_device again.               *)
(***************************************************************************)
ThreadFairness(t) ==
    /\ SF_vars(PoolCall(t))
    /\ SF_vars(CallForget(t))
    /\ WF_vars(stop[t] /\ CallReturn(t))

FairSpec == Spec /\ SF_vars(PollStep) /\ \A t \in Thread : ThreadFairness(t)

-----------------------------------------------------------------------------
(* Properties *)

LockPC == {"gscan", "gunlock", "gstop", "rpush"}
HoldPC == {"gunlock", "got", "rlock", "rpush", "flock", "fclose"}
AllPC  == LockPC \cup HoldPC \cup
          {"out", "glock", "gwait", "none", "returned", "fremove", "forgot"}
HidPC  == {"sleep", "next", "filter", "check", "hidraw", "push_known", "publish"}
Faults == {"none", "readdir(NULL)", "wild pointer", "double free",
           "invalid free"}

\* What dev may hold: nothing, an opened entry, an entry that passed the filters.
HidDev == {NoCtr} \cup [id : Event, gen : 1..MaxPlug] \cup Controller

HidTypeOK ==
    /\ hid \in [pc : HidPC, todo : SUBSET Event, event : BOOLEAN, dev : HidDev]
    /\ hid.pc = "filter" => hid.dev \in [id : Event, gen : 1..MaxPlug]
    /\ hid.pc \in {"check", "hidraw", "push_known", "publish"}
            => hid.dev \in Controller

PoolTypeOK ==
    /\ open \subseteq 1..MaxPlug
    /\ known \in Seq(Event)
    /\ available \in Seq(Controller)
    /\ cloneable \in Seq(Controller)
    /\ devices_mutex \in Thread \cup {NoOwner}
    /\ known_mutex \in Thread \cup {NoOwner}

ThreadTypeOK ==
    /\ pc \in [Thread -> AllPC]
    /\ ctr \in [Thread -> Controller \cup {NoCtr}]
    /\ ref_index \in [Thread -> Int]
    /\ stop \in [Thread -> BOOLEAN]

\* Every variable has its type; the hid thread's candidate is complete once it
\* has passed filter_event.
TypeOK ==
    /\ plugged \in [Event -> Device \cup {NoDev}]
    /\ plugs \in 0..MaxPlug
    /\ fault \in Faults
    /\ PoolTypeOK /\ ThreadTypeOK /\ HidTypeOK

Holds(t) == pc[t] \in HoldPC

\* "devices that can only be given to one client" (hid.c, available_devices): a
\* device that is not cloneable is in the queue once or with one thread, never
\* both and never with two, whatever the order of get, return, forget and poll.
\* This is so for the id, so also when the entry is used again by a new device
\* while the old one is still in the queue or with a thread.
Exclusive ==
    /\ \A i, j \in 1..Len(available) :
          available[i].id = available[j].id => i = j
    /\ \A t \in Thread : Holds(t) =>
          \A c \in Range(available) : c.id # ctr[t].id
    /\ \A t, u \in Thread :
          (t # u /\ Holds(t) /\ Holds(u) /\ ctr[t].id = ctr[u].id)
             => ctr[t].ctr.duplicate

\* poll_devices ignores an id that is known, so a known id that nobody has is a
\* device lost for good: each known id is in a vector, with a thread that uses
\* it or is forgetting it, or in the hands of the hid thread.
KnownAccounted ==
    \A id \in Range(known) :
       \/ hid.pc = "publish" /\ hid.dev.id = id
       \/ \E c \in Range(available) \cup Range(cloneable) : c.id = id
       \/ \E t \in Thread : (Holds(t) \/ pc[t] = "fremove") /\ ctr[t].id = id

\* The generations some part of the program has a Controller of.
Owned ==
    {c.gen : c \in Range(available) \cup Range(cloneable)}
    \cup {ctr[t].gen : t \in {u \in Thread : Holds(u)}}
    \cup (IF hid.pc = "publish" THEN {hid.dev.gen} ELSE {})

\* Event and hidraw descriptors: what the pool can hand out is open, and what is
\* open belongs to a controller of the pool or to the entry poll_devices is
\* looking at: the paths through skip and through forget_device close exactly
\* the descriptors of the device they leave.
DescriptorsAccounted ==
    /\ open = Owned
    /\ hid.event => hid.pc \in {"filter", "check", "hidraw", "push_known"}

\* No wake-up is lost between the scan of the vectors and pthread_cond_wait: a
\* thread that waits has nothing to take in either vector.
NoLostWakeup ==
    \A t \in Thread : pc[t] = "gwait" =>
       \A c \in Range(available) \cup Range(cloneable) : ~Suits(c, t)

\* t asks for a device, one that suits it is plugged in and nobody has it.
Starved(t) ==
    /\ Running
    /\ pc[t] \in {"glock", "gscan", "gwait"}
    /\ ~stop[t]
    /\ \E e \in Event :
          /\ plugged[e] # NoDev
          /\ plugged[e].cfg # 0
          /\ \E i \in 1..Len(Tags[t]) : Tags[t][i] = Config[plugged[e].cfg].tag
          /\ \A u \in Thread : Holds(u) => ctr[u].gen # plugged[e].gen

\* "Find all available devices and pick up on new ones" (hid.c, poll_devices):
\* no thread waits for ever in get_device while a device that suits it stays
\* plugged in and unused.
Served == \A t \in Thread : []<>~Starved(t)

-----------------------------------------------------------------------------
(***************************************************************************)
(* The pool implements DeviceAlloc.  A device is on offer once it is in    *)
(* one of the two vectors, a thread has it from the scan of get_device to  *)
(* the push of return_device or the close of forget_device.                *)
(***************************************************************************)
Alloc == INSTANCE DeviceAlloc WITH
    Device <- Controller,
    Cloneable <- LAMBDA c : c.ctr.duplicate,
    Wants <- LAMBDA t, c : \E i \in 1..Len(Tags[t]) : Tags[t][i] = c.ctr.tag,
    Nothing <- NoCtr,
    offered <- Range(available) \cup Range(cloneable),
    has <- [t \in Thread |-> IF Holds(t) THEN ctr[t] ELSE NoCtr]

\* Every step of poll_devices, get_device, return_device and forget_device is a
\* step of the abstract allocator or changes nothing it can see.
ImplementsAlloc == Alloc!Spec
==============================================================================
