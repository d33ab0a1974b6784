---------------------------- MODULE HidPoolProofs ----------------------------
(***************************************************************************)
(* Proofs about the device pool, for every number of threads, entries and  *)
(* plugs, and every configuration.                                         *)
(***************************************************************************)
EXTENDS HidPool, SetLemmas

-----------------------------------------------------------------------------
(* The inductive invariant *)

\* Threads with a controller, the one about to drop its id included.
HasId(t) == Holds(t) \/ pc[t] = "fremove"

\* A thread between lock and unlock owns the mutex.
Locks ==
    \A t \in Thread :
       /\ pc[t] \in LockPC => devices_mutex = t
       /\ pc[t] \in {"fclose", "fremove"} => known_mutex = t

\* A thread with a controller has all of it.
Complete == \A t \in Thread : HasId(t) => ctr[t] \in Controller

\* A cloneable controller stays in its vector while it is used, so forgetting
\* one never gets past the scan of that vector.
Kinds ==
    /\ \A c \in Range(available) : ~c.ctr.duplicate
    /\ \A c \in Range(cloneable) : c.ctr.duplicate
    /\ \A t \in Thread : HasId(t) =>
          /\ ctr[t] \in Controller
          /\ ctr[t].ctr.duplicate => ctr[t] \in Range(cloneable)
    /\ \A t \in Thread : pc[t] \in {"rpush", "fremove"} => ~ctr[t].ctr.duplicate

\* No two places of a vector have the same id.
DistinctIds(v) == \A i, j \in 1..Len(v) : v[i].id = v[j].id => i = j

\* No two controllers have the same id, copies of a cloneable one aside.
Apart ==
    /\ DistinctIds(available)
    /\ \A c \in Range(available) : \A d \in Range(cloneable) : c.id # d.id
    /\ \A t \in Thread : HasId(t) => \A c \in Range(available) : c.id # ctr[t].id
    /\ \A t \in Thread : HasId(t) /\ ~ctr[t].ctr.duplicate =>
          \A c \in Range(cloneable) : c.id # ctr[t].id
    /\ \A t, u \in Thread :
          (t # u /\ HasId(t) /\ HasId(u) /\ ctr[t].id = ctr[u].id)
             => ctr[t].ctr.duplicate

\* Every controller's id is known, and known once.
Listed ==
    /\ \A i, j \in 1..Len(known) : known[i] = known[j] => i = j
    /\ \A c \in Range(available) \cup Range(cloneable) : c.id \in Range(known)
    /\ \A t \in Thread : HasId(t) => ctr[t].id \in Range(known)

\* What the hid thread learned when it looked the id up is still true when it
\* adds the id: nobody else adds ids.
Fresh ==
    /\ hid.pc \in {"hidraw", "push_known"} => hid.dev.id \notin Range(known)
    /\ hid.pc = "publish" =>
          /\ hid.dev.id \in Range(known)
          /\ \A c \in Range(available) \cup Range(cloneable) : c.id # hid.dev.id
          /\ \A t \in Thread : HasId(t) => ctr[t].id # hid.dev.id

IInv ==
    /\ TypeOK /\ Locks /\ Kinds /\ Apart /\ Listed /\ Fresh
    /\ KnownAccounted /\ NoLostWakeup

-----------------------------------------------------------------------------
(* Vectors *)

\* vec_remove drops the element at i and keeps the others in order.
LEMMA VecRemove ==
    ASSUME NEW T, NEW v \in Seq(T), NEW i \in 1..Len(v)
    PROVE  /\ vec_remove(v, i) \in Seq(T)
           /\ Len(vec_remove(v, i)) = Len(v) - 1
           /\ \A j \in 1..(Len(v) - 1) :
                 vec_remove(v, i)[j] = IF j < i THEN v[j] ELSE v[j + 1]
<1> DEFINE w == vec_remove(v, i)
<1>1. /\ Len(v) - 1 \in Nat
      /\ \A j \in 1..(Len(v) - 1) : (IF j < i THEN v[j] ELSE v[j + 1]) \in T
  OBVIOUS
<1>2. w \in Seq(T)
  BY <1>1 DEF vec_remove
<1>3. DOMAIN w = 1..(Len(v) - 1)
  BY DEF vec_remove
<1>4. Len(w) = Len(v) - 1
  BY <1>1, <1>2, <1>3
<1> QED BY <1>2, <1>3, <1>4 DEF vec_remove

\* The elements of a vector after vec_remove: those that were there, all but the
\* one removed if there was no other like it.  Two places of the shorter vector
\* come from two places of the longer one.
LEMMA VecRemoveElements ==
    ASSUME NEW T, NEW v \in Seq(T), NEW i \in 1..Len(v)
    PROVE  LET w == vec_remove(v, i) IN
           /\ w \in Seq(T)
           /\ Range(w) \subseteq Range(v)
           /\ Range(v) \subseteq Range(w) \cup {v[i]}
           /\ \A j, l \in 1..Len(w) : j # l =>
                 \E k, m \in 1..Len(v) :
                    k # m /\ k # i /\ m # i /\ w[j] = v[k] /\ w[l] = v[m]
           /\ \A x \in Range(w) : \E k \in 1..Len(v) : k # i /\ x = v[k]
<1> DEFINE w == vec_remove(v, i)
           old(j) == IF j < i THEN j ELSE j + 1
<1>1. /\ w \in Seq(T) /\ Len(w) = Len(v) - 1
      /\ \A j \in 1..Len(w) : w[j] = v[old(j)]
  BY VecRemove
<1> HIDE DEF w
<1>2. \A j \in 1..Len(w) : old(j) \in 1..Len(v) /\ old(j) # i
  BY <1>1
<1>3. \A j, l \in 1..Len(w) : j # l => old(j) # old(l)
  OBVIOUS
<1>4. ASSUME NEW k \in 1..Len(v), k # i
      PROVE  \E j \in 1..Len(w) : w[j] = v[k]
  <2>1. CASE k < i
    BY <2>1, <1>1, <1>4
  <2>2. CASE k > i
    <3>1. k - 1 \in 1..Len(w) /\ w[k - 1] = v[k]
      BY <2>2, <1>1
    <3> QED BY <3>1
  <2> QED BY <2>1, <2>2, <1>4
<1>5. \A j \in 1..Len(w) : \E k \in 1..Len(v) : k # i /\ w[j] = v[k]
  BY <1>1, <1>2
<1>6. ASSUME NEW j \in 1..Len(w), NEW l \in 1..Len(w), j # l
      PROVE  \E k, m \in 1..Len(v) :
                k # m /\ k # i /\ m # i /\ w[j] = v[k] /\ w[l] = v[m]
  <2>1. /\ old(j) \in 1..Len(v) /\ old(l) \in 1..Len(v) /\ old(j) # old(l)
        /\ old(j) # i /\ old(l) # i /\ w[j] = v[old(j)] /\ w[l] = v[old(l)]
    BY <1>1, <1>2, <1>3, <1>6
  <2> HIDE DEF old
  <2> QED BY <2>1
<1>7. DOMAIN v = 1..Len(v) /\ DOMAIN w = 1..Len(w)
  BY <1>1
<1>8. Range(v) \subseteq Range(w) \cup {v[i]}
  BY <1>4, <1>7 DEF Range
<1>9. \A x \in Range(w) : \E k \in 1..Len(v) : k # i /\ x = v[k]
  BY <1>5, <1>7 DEF Range
<1>10. Range(w) \subseteq Range(v)
  BY <1>7, <1>9 DEF Range
<1> QED BY <1>1, <1>6, <1>8, <1>9, <1>10 DEF w

\* Removing from a vector of controllers with distinct ids takes that id away.
LEMMA RemoveController ==
    ASSUME NEW v \in Seq(Controller), NEW i \in 1..Len(v), DistinctIds(v)
    PROVE  LET w == vec_remove(v, i) IN
           /\ DistinctIds(w)
           /\ Range(w) \subseteq Range(v) /\ v[i] \in Range(v)
           /\ Range(v) \subseteq Range(w) \cup {v[i]}
           /\ \A c \in Range(w) : c.id # v[i].id
<1> DEFINE w == vec_remove(v, i)
<1>0. /\ Range(w) \subseteq Range(v)
      /\ Range(v) \subseteq Range(w) \cup {v[i]}
      /\ \A j, l \in 1..Len(w) : j # l =>
            \E k, m \in 1..Len(v) :
               k # m /\ k # i /\ m # i /\ w[j] = v[k] /\ w[l] = v[m]
      /\ \A x \in Range(w) : \E k \in 1..Len(v) : k # i /\ x = v[k]
  BY VecRemoveElements
<1> HIDE DEF w
<1>1. DistinctIds(w)
  <2> SUFFICES ASSUME NEW j \in 1..Len(w), NEW l \in 1..Len(w), j # l
               PROVE  w[j].id # w[l].id
    BY DEF DistinctIds
  <2>1. PICK k, m \in 1..Len(v) : k # m /\ w[j] = v[k] /\ w[l] = v[m]
    BY <1>0
  <2> QED BY <2>1 DEF DistinctIds
<1>2. ASSUME NEW c \in Range(w) PROVE c.id # v[i].id
  <2>1. PICK k \in 1..Len(v) : k # i /\ c = v[k]
    BY <1>0
  <2> QED BY <2>1 DEF DistinctIds
<1>3. v[i] \in Range(v)
  BY DEF Range
<1> QED BY <1>0, <1>1, <1>2, <1>3 DEF w

\* The same for a vector of ids.
LEMMA RemoveId ==
    ASSUME NEW v \in Seq(Event), NEW i \in 1..Len(v),
           \A k, m \in 1..Len(v) : v[k] = v[m] => k = m
    PROVE  LET w == vec_remove(v, i) IN
           /\ \A k, m \in 1..Len(w) : w[k] = w[m] => k = m
           /\ Range(w) = Range(v) \ {v[i]}
<1> DEFINE w == vec_remove(v, i)
<1>0. /\ Range(w) \subseteq Range(v)
      /\ Range(v) \subseteq Range(w) \cup {v[i]}
      /\ \A j, l \in 1..Len(w) : j # l =>
            \E k, m \in 1..Len(v) :
               k # m /\ k # i /\ m # i /\ w[j] = v[k] /\ w[l] = v[m]
      /\ \A x \in Range(w) : \E k \in 1..Len(v) : k # i /\ x = v[k]
  BY VecRemoveElements
<1> HIDE DEF w
<1>1. ASSUME NEW j \in 1..Len(w), NEW l \in 1..Len(w), j # l PROVE w[j] # w[l]
  <2>1. PICK k, m \in 1..Len(v) : k # m /\ w[j] = v[k] /\ w[l] = v[m]
    BY <1>0, <1>1
  <2> QED BY <2>1
<1>2. v[i] \notin Range(w)
  BY <1>0
<1> QED BY <1>0, <1>1, <1>2 DEF w

\* vec_push adds one element at the end ...
LEMMA VecPush ==
    ASSUME NEW T, NEW v \in Seq(T), NEW x \in T
    PROVE  /\ vec_push(v, x) \in Seq(T) /\ Len(vec_push(v, x)) = Len(v) + 1
           /\ \A i \in 1..Len(v) : vec_push(v, x)[i] = v[i]
           /\ vec_push(v, x)[Len(v) + 1] = x
  BY DEF vec_push

\* ... and so to the elements of the vector.
LEMMA PushRange ==
    ASSUME NEW T, NEW v \in Seq(T), NEW x \in T
    PROVE  Range(vec_push(v, x)) = Range(v) \cup {x}
<1> DEFINE w == vec_push(v, x)
<1>1. /\ w \in Seq(T) /\ Len(w) = Len(v) + 1
      /\ \A i \in 1..Len(v) : w[i] = v[i]
      /\ w[Len(v) + 1] = x
  BY VecPush
<1> HIDE DEF w
<1>2. DOMAIN v = 1..Len(v) /\ DOMAIN w = 1..(Len(v) + 1) /\ Len(v) \in Nat
  BY <1>1
<1>3. \A j \in 1..(Len(v) + 1) : j \in 1..Len(v) \/ j = Len(v) + 1
  BY <1>2
<1>4. Range(w) \subseteq Range(v) \cup {x}
  BY <1>1, <1>2, <1>3 DEF Range
<1>5. Range(v) \cup {x} \subseteq Range(w)
  <2>1. 1..Len(v) \subseteq 1..(Len(v) + 1) /\ Len(v) + 1 \in 1..(Len(v) + 1)
    BY <1>2
  <2> QED BY <1>1, <1>2, <2>1 DEF Range
<1>6. Range(w) = Range(v) \cup {x}
  BY <1>4, <1>5
<1> QED BY <1>6 DEF w

\* A controller whose id is new keeps the ids of the vector distinct.
LEMMA PushController ==
    ASSUME NEW v \in Seq(Controller), NEW x \in Controller, DistinctIds(v),
           \A c \in Range(v) : c.id # x.id
    PROVE  DistinctIds(vec_push(v, x))
<1> DEFINE w == vec_push(v, x)
<1>1. /\ Len(v) \in Nat /\ Len(w) = Len(v) + 1
      /\ \A i \in 1..Len(v) : w[i] = v[i] /\ w[i].id # x.id
      /\ w[Len(v) + 1] = x
  <2>1. /\ Len(w) = Len(v) + 1 /\ w[Len(v) + 1] = x
        /\ \A i \in 1..Len(v) : w[i] = v[i]
    BY DEF vec_push
  <2>2. Len(v) \in Nat /\ \A i \in 1..Len(v) : v[i] \in Range(v)
    BY DEF Range
  <2> HIDE DEF w
  <2> QED BY <2>1, <2>2
<1> QED BY <1>1 DEF DistinctIds

\* The scans of get_device end at an index of the vector whose element suits.
LEMMA FirstSuitable ==
    ASSUME NEW v, NEW t, Suitable(v, t) # {}
    PROVE  /\ Min(Suitable(v, t)) \in 1..Len(v)
           /\ Suits(v[Min(Suitable(v, t))], t)
<1>1. Suitable(v, t) \in SUBSET Nat
  BY DEF Suitable
<1> QED BY <1>1, MinIsLeast DEF Suitable

\* match_tags returns an integer.
LEMMA MatchTagsType ==
    ASSUME NEW tag, NEW t \in Thread
    PROVE  match_tags(tag, t) \in Int
<1>1. MatchingTags(tag, t) \in SUBSET Nat
  BY DEF MatchingTags
<1> QED BY <1>1, MinIsLeast DEF match_tags

\* An id that is in known_devices is found at its place.
LEMMA FirstPosition ==
    ASSUME NEW id, Positions(id) # {}
    PROVE  Min(Positions(id)) \in 1..Len(known) /\ known[Min(Positions(id))] = id
<1>1. Positions(id) \in SUBSET Nat
  BY DEF Positions
<1> QED BY <1>1, MinIsLeast DEF Positions

-----------------------------------------------------------------------------
(* Types *)

\* Every step keeps the types; return_device pushes a complete controller
\* because a thread that holds one has one.
LEMMA TypeStep == TypeOK /\ Complete /\ [Next]_vars => TypeOK'
<1> SUFFICES ASSUME TypeOK, Complete, [Next]_vars PROVE TypeOK'
  OBVIOUS
<1> USE PoolAssumption DEF env, pool, local, Running, Goto, TypeOK
<1>1. ASSUME NEW e \in Event, Unplug(e) PROVE TypeOK'
  BY <1>1 DEF Unplug, PoolTypeOK, ThreadTypeOK, HidTypeOK
<1>2. ASSUME NEW e \in Event, NEW k \in 0..Len(Config), Plug(e, k) PROVE TypeOK'
  <2>1. [gen |-> plugs + 1, cfg |-> k] \in Device
    BY <1>2 DEF Plug, Device
  <2> QED BY <1>2, <2>1 DEF Plug, PoolTypeOK, ThreadTypeOK, HidTypeOK
<1>3. ASSUME PollStart \/ PollEnd PROVE TypeOK'
  <2>1. HidTypeOK'
    BY <1>3 DEF PollStart, PollEnd, HidTypeOK, HidPC
  <2> QED BY <1>3, <2>1 DEF PollStart, PollEnd, PoolTypeOK, ThreadTypeOK
<1>4. ASSUME NEW e \in Event, PollOpen(e) PROVE TypeOK'
  <2>1. HidTypeOK'
    <3>1. CASE plugged[e] = NoDev
      BY <1>4, <3>1 DEF PollOpen, HidTypeOK, HidPC
    <3>2. CASE plugged[e] # NoDev
      <4>1. plugged[e].gen \in 1..MaxPlug
        BY <3>2 DEF Device
      <4> DEFINE d == [id |-> e, gen |-> plugged[e].gen]
      <4>2. d \in [id : Event, gen : 1..MaxPlug] /\ d \in HidDev
        BY <4>1 DEF HidDev
      <4>3. hid' = [pc |-> "filter", todo |-> hid.todo \ {e}, event |-> TRUE, dev |-> d]
        BY <1>4, <3>2 DEF PollOpen
      <4> HIDE DEF d
      <4>4. hid.todo \ {e} \in SUBSET Event
        BY DEF HidTypeOK
      <4>5. hid' \in [pc : HidPC, todo : SUBSET Event, event : BOOLEAN, dev : HidDev]
        BY <4>2, <4>3, <4>4 DEF HidPC
      <4> QED BY <4>2, <4>3, <4>5 DEF HidTypeOK
    <3> QED BY <3>1, <3>2
  <2> QED BY <1>4, <2>1 DEF PollOpen, PoolTypeOK, ThreadTypeOK
<1>5. ASSUME Skip PROVE HidTypeOK'
  BY <1>5 DEF Skip, HidTypeOK, HidPC, HidDev
<1>6. ASSUME PollFilter PROVE TypeOK'
  <2>1. ASSUME NEW k \in 1..Len(Config), NEW named \in BOOLEAN, Accept(k, named)
       PROVE  HidTypeOK'
    <3>1. hid'.dev \in Controller
      <4>1. hid.dev.id \in Event /\ hid.dev.gen \in 1..MaxPlug
        BY <1>6 DEF PollFilter, HidTypeOK
      <4>2. hid'.dev = [id |-> hid.dev.id, gen |-> hid.dev.gen, named |-> named,
                        ctr |-> Config[k]]
        BY <2>1 DEF Accept, HidTypeOK
      <4>3. Config[k] \in ServerConfigController
        OBVIOUS
      <4> QED BY <4>1, <4>2, <4>3 DEF Controller
    <3> QED BY <2>1, <3>1 DEF Accept, HidTypeOK, HidPC, HidDev
  <2>2. ASSUME Present(hid.dev) PROVE HidTypeOK' /\ fault' \in Faults
    <3>1. plugged[hid.dev.id].cfg \in 0..Len(Config)
      BY <1>6, <2>2 DEF PollFilter, Present, HidTypeOK, Device
    <3>2. CASE plugged[hid.dev.id].cfg = 0
      BY <1>6, <1>5, <2>2, <3>2 DEF PollFilter
    <3>3. CASE plugged[hid.dev.id].cfg # 0
      <4>1. Accept(plugged[hid.dev.id].cfg, TRUE) /\ UNCHANGED fault
        BY <1>6, <2>2, <3>3 DEF PollFilter
      <4>2. plugged[hid.dev.id].cfg \in 1..Len(Config)
        BY <3>1, <3>3
      <4> QED BY <2>1, <4>1, <4>2
    <3> QED BY <3>2, <3>3
  <2>3. ASSUME ~Present(hid.dev) PROVE HidTypeOK' /\ fault' \in Faults
    <3>1. CASE UNCHANGED hid
      BY <1>6, <2>3, <3>1 DEF PollFilter, HidTypeOK, Faults
    <3>2. ASSUME Skip, UNCHANGED fault PROVE HidTypeOK' /\ fault' \in Faults
      BY <1>5, <3>2
    <3>3. ASSUME NEW k \in GoneMatches, NEW named \in BOOLEAN, Accept(k, named),
                 UNCHANGED fault
          PROVE  HidTypeOK' /\ fault' \in Faults
      BY <2>1, <3>3 DEF GoneMatches
    <3> QED BY <1>6, <2>3, <3>1, <3>2, <3>3 DEF PollFilter
  <2> QED BY <1>6, <2>2, <2>3 DEF PollFilter, PoolTypeOK, ThreadTypeOK
<1>7. ASSUME PollCheckKnown PROVE TypeOK'
  <2>1. HidTypeOK'
    BY <1>5, <1>7 DEF PollCheckKnown, HidTypeOK, HidPC
  <2> QED BY <1>7, <2>1 DEF PollCheckKnown, PoolTypeOK, ThreadTypeOK
<1>8. ASSUME PollHidraw PROVE TypeOK'
  <2>1. HidTypeOK'
    BY <1>5, <1>8 DEF PollHidraw, HidTypeOK, HidPC
  <2> QED BY <1>8, <2>1 DEF PollHidraw, PoolTypeOK, ThreadTypeOK, Faults
<1>9. ASSUME PollPushKnown \/ PollPublish PROVE TypeOK'
  <2>1. hid.dev \in Controller
    BY <1>9 DEF PollPushKnown, PollPublish, HidTypeOK
  <2>2. ASSUME PollPushKnown PROVE TypeOK'
    <3>1. HidTypeOK'
      BY <2>1, <2>2 DEF PollPushKnown, HidTypeOK, HidPC
    <3>2. known' \in Seq(Event) /\ open' \subseteq 1..MaxPlug
      BY <2>1, <2>2 DEF PollPushKnown, vec_push, PoolTypeOK, Controller
    <3> QED BY <2>2, <3>1, <3>2 DEF PollPushKnown, PoolTypeOK, ThreadTypeOK
  <2>3. ASSUME PollPublish PROVE TypeOK'
    <3>1. HidTypeOK'
      BY <2>3 DEF PollPublish, HidTypeOK, HidPC, HidDev
    <3>2. pc' \in [Thread -> AllPC]
      BY <2>3 DEF PollPublish, Woken, ThreadTypeOK, AllPC
    <3>3. Append(available, hid.dev) \in Seq(Controller)
      BY <2>1 DEF PoolTypeOK
    <3>4. Append(cloneable, hid.dev) \in Seq(Controller)
      BY <2>1 DEF PoolTypeOK
    <3>5. available' \in Seq(Controller) /\ cloneable' \in Seq(Controller)
      BY <2>3, <3>3, <3>4 DEF PollPublish, vec_push, PoolTypeOK
    <3> QED BY <2>3, <3>1, <3>2, <3>5 DEF PollPublish, PoolTypeOK, ThreadTypeOK
  <2> QED BY <1>9, <2>2, <2>3
<1>10. ASSUME NEW t \in Thread, PoolCall(t) PROVE TypeOK'
  <2>1. ASSUME GetLock(t) PROVE TypeOK'
    BY <2>1 DEF GetLock, PoolTypeOK, ThreadTypeOK, HidTypeOK, AllPC, LockPC
  <2>2. ASSUME GetScan(t) PROVE TypeOK'
    <3>1. ASSUME Suitable(available, t) # {}
          PROVE  /\ Min(Suitable(available, t)) \in 1..Len(available)
                 /\ vec_remove(available, Min(Suitable(available, t))) \in Seq(Controller)
      BY <3>1, FirstSuitable, VecRemove DEF PoolTypeOK
    <3>2. CASE stop[t]
      BY <2>2, <3>2 DEF GetScan, PoolTypeOK, ThreadTypeOK, HidTypeOK, AllPC, LockPC
    <3>3. CASE ~stop[t] /\ Suitable(available, t) # {}
      <4> DEFINE c == available[Min(Suitable(available, t))]
      <4>1. c \in Controller
        BY <3>1, <3>3 DEF PoolTypeOK
      <4>2. Hand(t, c) /\ available' \in Seq(Controller)
        BY <2>2, <3>1, <3>3 DEF GetScan
      <4>3. ctr' \in [Thread -> Controller \cup {NoCtr}] /\ ref_index' \in [Thread -> Int]
        BY <4>1, <4>2, MatchTagsType DEF Hand, ThreadTypeOK
      <4> HIDE DEF c
      <4> QED BY <2>2, <3>3, <4>2, <4>3 DEF GetScan, Hand, PoolTypeOK, ThreadTypeOK, HidTypeOK, AllPC, LockPC
    <3>4. CASE ~stop[t] /\ Suitable(available, t) = {} /\ Suitable(cloneable, t) # {}
      <4> DEFINE c == cloneable[Min(Suitable(cloneable, t))]
      <4>1. c \in Controller
        <5>1. Min(Suitable(cloneable, t)) \in 1..Len(cloneable)
          BY <3>4, FirstSuitable
        <5> QED BY <5>1 DEF PoolTypeOK
      <4>2. Hand(t, c) /\ UNCHANGED available
        BY <2>2, <3>4 DEF GetScan
      <4>3. ctr' \in [Thread -> Controller \cup {NoCtr}] /\ ref_index' \in [Thread -> Int]
        BY <4>1, <4>2, MatchTagsType DEF Hand, ThreadTypeOK
      <4> HIDE DEF c
      <4> QED BY <2>2, <3>4, <4>2, <4>3 DEF GetScan, Hand, PoolTypeOK, ThreadTypeOK, HidTypeOK, AllPC, LockPC
    <3>5. CASE ~stop[t] /\ Suitable(available, t) = {} /\ Suitable(cloneable, t) = {}
      BY <2>2, <3>5 DEF GetScan, PoolTypeOK, ThreadTypeOK, HidTypeOK, AllPC
    <3> QED BY <3>2, <3>3, <3>4, <3>5
  <2>3. ASSUME GetUnlock(t) PROVE TypeOK'
    BY <2>3 DEF GetUnlock, PoolTypeOK, ThreadTypeOK, HidTypeOK, AllPC, HoldPC
  <2>4. ASSUME ReturnLock(t) PROVE TypeOK'
    <3>1. CASE ctr[t].ctr.duplicate
      BY <2>4, <3>1 DEF ReturnLock, PoolTypeOK, ThreadTypeOK, HidTypeOK, AllPC
    <3>2. CASE ~ctr[t].ctr.duplicate
      BY <2>4, <3>2 DEF ReturnLock, PoolTypeOK, ThreadTypeOK, HidTypeOK, AllPC, LockPC
    <3> QED BY <3>1, <3>2
  <2>5. ASSUME ReturnPush(t) PROVE TypeOK'
    BY <2>5 DEF ReturnPush, vec_push, PoolTypeOK, ThreadTypeOK, HidTypeOK, Complete, HasId, Holds, Woken, AllPC, LockPC, HoldPC
  <2>6. ASSUME ForgetLock(t) PROVE TypeOK'
    BY <2>6 DEF ForgetLock, PoolTypeOK, ThreadTypeOK, HidTypeOK, AllPC, HoldPC
  <2>7. ASSUME ForgetClose(t) PROVE TypeOK'
    <3>1. CASE fault' # "none"
      BY <2>7, <3>1 DEF ForgetClose, PoolTypeOK, ThreadTypeOK, HidTypeOK, Faults
    <3>2. CASE fault' = "none"
      <4>1. pc' = [pc EXCEPT ![t] = "fremove"] /\ open' = open \ {ctr[t].gen}
        BY <2>7, <3>2 DEF ForgetClose
      <4> QED BY <2>7, <3>2, <4>1 DEF ForgetClose, PoolTypeOK, ThreadTypeOK, HidTypeOK, AllPC, Faults
    <3> QED BY <3>1, <3>2
  <2>8. ASSUME ForgetRemove(t) PROVE TypeOK'
    <3>1. known' \in Seq(Event)
      BY <2>8, FirstPosition, VecRemove DEF ForgetRemove, PoolTypeOK
    <3> QED BY <2>8, <3>1 DEF ForgetRemove, PoolTypeOK, ThreadTypeOK, HidTypeOK, AllPC
  <2> QED BY <1>10, <2>1, <2>2, <2>3, <2>4, <2>5, <2>6, <2>7, <2>8 DEF PoolCall
<1>11. ASSUME NEW t \in Thread, GetSpurious(t) \/ Caller(t) PROVE TypeOK'
  <2>1. ASSUME GetSpurious(t) PROVE TypeOK'
    BY <2>1 DEF GetSpurious, PoolTypeOK, ThreadTypeOK, HidTypeOK, AllPC
  <2>2. ASSUME CallGet(t) PROVE TypeOK'
    BY <2>2 DEF CallGet, PoolTypeOK, ThreadTypeOK, HidTypeOK, AllPC
  <2>3. ASSUME CallForget(t) PROVE TypeOK'
    BY <2>3 DEF CallForget, PoolTypeOK, ThreadTypeOK, HidTypeOK, AllPC, HoldPC
  <2>4. ASSUME CallReturn(t) PROVE TypeOK'
    BY <2>4 DEF CallReturn, PoolTypeOK, ThreadTypeOK, HidTypeOK, AllPC, HoldPC
  <2>5. ASSUME Abandon(t) PROVE TypeOK'
    BY <2>5 DEF Abandon, PoolTypeOK, ThreadTypeOK, HidTypeOK, AllPC
  <2>6. ASSUME Reopen(t) PROVE TypeOK'
    BY <2>6 DEF Reopen, PoolTypeOK, ThreadTypeOK, HidTypeOK, AllPC
  <2> QED BY <1>11, <2>1, <2>2, <2>3, <2>4, <2>5, <2>6 DEF Caller
<1>12. ASSUME NEW set \in SUBSET Thread, Close(set) PROVE TypeOK'
  <2>1. stop' \in [Thread -> BOOLEAN]
    BY <1>12 DEF Close, ThreadTypeOK
  <2> QED BY <1>12, <2>1 DEF Close, PoolTypeOK, ThreadTypeOK, HidTypeOK
<1>13. ASSUME UNCHANGED vars PROVE TypeOK'
  BY <1>13 DEF vars, PoolTypeOK, ThreadTypeOK, HidTypeOK
<1> QED BY <1>1, <1>2, <1>3, <1>4, <1>5, <1>6, <1>7, <1>8, <1>9, <1>10, <1>11, <1>12,
           <1>13
        DEF Next, Kernel, PollStep, Faulted

-----------------------------------------------------------------------------
(* Locks *)

\* A mutex is taken only when it is free and let go only by its owner.
LEMMA LocksStep == TypeOK /\ Locks /\ [Next]_vars => Locks'
<1> SUFFICES ASSUME TypeOK, Locks, [Next]_vars PROVE Locks'
  OBVIOUS
<1> USE PoolAssumption DEF env, pool, local, Running, Goto, TypeOK, ThreadTypeOK
<1>1. ASSUME UNCHANGED <<devices_mutex, known_mutex, pc>> PROVE Locks'
  BY <1>1 DEF Locks
<1>2. ASSUME Kernel PROVE Locks'
  BY <1>1, <1>2 DEF Kernel, Plug, Unplug
<1>3. ASSUME PollStep PROVE Locks'
  <2>1. ASSUME PollPublish PROVE Locks'
    BY <2>1 DEF PollPublish, Woken, Locks, LockPC
  <2> QED BY <1>1, <1>3, <2>1 DEF PollStep, PollStart, PollEnd, PollOpen, PollFilter,
          PollCheckKnown, PollHidraw, PollPushKnown
<1>4. ASSUME NEW t \in Thread, PoolCall(t) PROVE Locks'
  <2>1. ASSUME GetLock(t) PROVE Locks'
    BY <2>1 DEF GetLock, Locks, LockPC
  <2>2. ASSUME GetScan(t) PROVE Locks'
    BY <2>2 DEF GetScan, Hand, Locks, LockPC
  <2>3. ASSUME GetUnlock(t) PROVE Locks'
    BY <2>3 DEF GetUnlock, Locks, LockPC
  <2>4. ASSUME ReturnLock(t) PROVE Locks'
    BY <2>4 DEF ReturnLock, Locks, LockPC
  <2>5. ASSUME ReturnPush(t) PROVE Locks'
    BY <2>5 DEF ReturnPush, Woken, Locks, LockPC
  <2>6. ASSUME ForgetLock(t) PROVE Locks'
    BY <2>6 DEF ForgetLock, Locks, LockPC
  <2>7. ASSUME ForgetClose(t) PROVE Locks'
    BY <2>7 DEF ForgetClose, Locks, LockPC
  <2>8. ASSUME ForgetRemove(t) PROVE Locks'
    BY <2>8 DEF ForgetRemove, Locks, LockPC
  <2> QED BY <1>4, <2>1, <2>2, <2>3, <2>4, <2>5, <2>6, <2>7, <2>8 DEF PoolCall
<1>5. ASSUME NEW t \in Thread, GetSpurious(t) \/ Caller(t) PROVE Locks'
  BY <1>5 DEF GetSpurious, Caller, CallGet, CallForget, CallReturn, Abandon,
              Reopen, Locks, LockPC
<1>6. ASSUME NEW set \in SUBSET Thread, Close(set) PROVE Locks'
  BY <1>6 DEF Close, Locks
<1> QED BY <1>1, <1>2, <1>3, <1>4, <1>5, <1>6 DEF Next, Faulted, vars

-----------------------------------------------------------------------------
(* Who has which controller *)

\* All of the invariant but types and locks.
Ownership ==
    /\ Kinds /\ Apart /\ Listed /\ Fresh /\ KnownAccounted /\ NoLostWakeup

\* Where an id can be, and KnownAccounted in these words.
Placed(id) ==
    \/ hid.pc = "publish" /\ hid.dev.id = id
    \/ \E c \in Range(available) \cup Range(cloneable) : c.id = id
    \/ \E t \in Thread : HasId(t) /\ ctr[t].id = id

\* KnownAccounted, read one known id at a time.
LEMMA Placing == KnownAccounted <=> \A id \in Range(known) : Placed(id)
  BY DEF KnownAccounted, Placed, HasId

\* Steps of the hid thread that have not added an id yet.
LEMMA HidMoves ==
    ASSUME Ownership, hid.pc # "publish", hid'.pc # "publish",
           UNCHANGED <<known, available, cloneable, pc, ctr>>,
           hid'.pc \in {"hidraw", "push_known"} => hid'.dev.id \notin Range(known)
    PROVE  Ownership'
<1>1. \A t \in Thread : HasId(t)' <=> HasId(t)
  BY DEF HasId, Holds
<1>2. Kinds' /\ Apart' /\ Listed'
  BY <1>1 DEF Ownership, Kinds, Apart, Listed
<1>3. Fresh'
  BY DEF Fresh
<1>4. KnownAccounted'
  BY <1>1 DEF Ownership, KnownAccounted, HasId
<1>5. NoLostWakeup'
  BY DEF Ownership, NoLostWakeup
<1> QED BY <1>2, <1>3, <1>4, <1>5 DEF Ownership

\* Steps inside a call that leave the vectors alone and do not change whether
\* the thread has a controller.
LEMMA ThreadMoves ==
    ASSUME TypeOK, Ownership, NEW t \in Thread, NEW label,
           UNCHANGED <<known, available, cloneable, ctr, hid>>,
           pc' = [pc EXCEPT ![t] = label],
           label # "gwait",
           HasId(t) <=> (label \in HoldPC \/ label = "fremove"),
           label \in {"rpush", "fremove"} => ~ctr[t].ctr.duplicate
    PROVE  Ownership'
<1>1. \A u \in Thread : HasId(u)' <=> HasId(u)
  BY DEF HasId, Holds, TypeOK, ThreadTypeOK
<1>2. \A u \in Thread : u # t => pc'[u] = pc[u]
  BY DEF TypeOK, ThreadTypeOK
<1>3. pc'[t] = label
  BY DEF TypeOK, ThreadTypeOK
<1>4. Kinds'
  BY <1>1, <1>2, <1>3 DEF Ownership, Kinds
<1>5. Apart' /\ Listed' /\ Fresh'
  BY <1>1 DEF Ownership, Apart, Listed, Fresh
<1>6. KnownAccounted'
  BY <1>1 DEF Ownership, KnownAccounted, HasId
<1>7. NoLostWakeup'
  BY <1>2, <1>3 DEF Ownership, NoLostWakeup
<1> QED BY <1>4, <1>5, <1>6, <1>7 DEF Ownership

\* Steps after which the thread has no controller, and no id is lost: it had none,
\* or a copy of one that stays in cloneable_devices.
LEMMA ThreadDrops ==
    ASSUME TypeOK, Ownership, NEW t \in Thread, NEW label,
           UNCHANGED <<known, available, cloneable, hid>>,
           pc' = [pc EXCEPT ![t] = label],
           label \notin HoldPC \cup {"gwait", "fremove"},
           \A u \in Thread : u # t => ctr'[u] = ctr[u],
           HasId(t) => ctr[t] \in Range(cloneable)
    PROVE  Ownership'
<1>1. \A u \in Thread : HasId(u)' <=> (HasId(u) /\ u # t)
  BY DEF HasId, Holds, HoldPC, TypeOK, ThreadTypeOK
<1>2. pc'[t] = label /\ \A u \in Thread : u # t => pc'[u] = pc[u]
  BY DEF TypeOK, ThreadTypeOK
<1>3. label \notin {"rpush", "fremove"}
  BY DEF HoldPC
<1>4. Kinds'
  BY <1>1, <1>2, <1>3 DEF Ownership, Kinds
<1>5. Apart'
  BY <1>1 DEF Ownership, Apart
<1>6. Listed' /\ Fresh'
  BY <1>1 DEF Ownership, Listed, Fresh
<1>7. KnownAccounted'
  <2>1. \A id \in Range(known) : Placed(id)
    BY Placing DEF Ownership
  <2>2. \A id : Placed(id) => Placed(id)'
    BY <1>1 DEF Placed
  <2>3. \A id \in Range(known') : Placed(id)'
    BY <2>1, <2>2
  <2> QED BY <2>3 DEF KnownAccounted, Placed, HasId
<1>8. NoLostWakeup'
  BY <1>2 DEF Ownership, NoLostWakeup
<1> QED BY <1>4, <1>5, <1>6, <1>7, <1>8 DEF Ownership

\* poll_devices adds the id it did not find: it is new, so it is listed once.
LEMMA PushKnownStep == TypeOK /\ Ownership /\ PollPushKnown => Ownership'
<1> SUFFICES ASSUME TypeOK, Ownership, PollPushKnown PROVE Ownership'
  OBVIOUS
<1> USE DEF TypeOK, PoolTypeOK
<1>1. /\ UNCHANGED <<available, cloneable, pc, ctr>> /\ hid'.pc = "publish"
      /\ hid'.dev = hid.dev /\ hid.pc = "push_known"
  BY DEF PollPushKnown, local, HidTypeOK
<1>2. hid.dev.id \in Event
  BY <1>1 DEF HidTypeOK, Controller
<1>3. /\ Len(known) \in Nat /\ Len(known') = Len(known) + 1
      /\ \A i \in 1..Len(known) : known'[i] = known[i]
      /\ known'[Len(known) + 1] = hid.dev.id
      /\ Range(known') = Range(known) \cup {hid.dev.id}
  <2>1. known' = vec_push(known, hid.dev.id)
    BY DEF PollPushKnown
  <2>2. known \in Seq(Event) /\ Len(known) \in Nat
    OBVIOUS
  <2> DEFINE w == vec_push(known, hid.dev.id)
  <2>3. /\ Len(w) = Len(known) + 1
        /\ \A i \in 1..Len(known) : w[i] = known[i]
        /\ w[Len(known) + 1] = hid.dev.id
    BY <1>2, <2>2 DEF vec_push
  <2>4. Range(w) = Range(known) \cup {hid.dev.id}
    BY <1>2, <2>2, PushRange
  <2>5. w = known'
    BY <2>1
  <2> HIDE DEF w
  <2> QED BY <2>2, <2>3, <2>4, <2>5
<1>4. \A t \in Thread : HasId(t)' <=> HasId(t)
  BY <1>1 DEF HasId, Holds
<1>5. Kinds' /\ Apart'
  BY <1>1, <1>4 DEF Ownership, Kinds, Apart
<1>6. hid.dev.id \notin Range(known)
  BY <1>1 DEF Ownership, Fresh
<1>7. Listed'
  <2>1. \A i \in 1..Len(known) : known[i] # hid.dev.id
    BY <1>6 DEF Range
  <2>2. \A i, j \in 1..Len(known) : known[i] = known[j] => i = j
    BY DEF Ownership, Listed
  <2>3. \A i, j \in 1..Len(known') : known'[i] = known'[j] => i = j
    BY <1>3, <2>1, <2>2
  <2> QED BY <1>1, <1>3, <1>4, <2>3 DEF Ownership, Listed
<1>8. Fresh'
  BY <1>1, <1>3, <1>4, <1>6 DEF Ownership, Listed, Fresh
<1>9. KnownAccounted'
  BY <1>1, <1>3, <1>4 DEF Ownership, KnownAccounted, HasId
<1>10. NoLostWakeup'
  BY <1>1 DEF Ownership, NoLostWakeup
<1> QED BY <1>5, <1>7, <1>8, <1>9, <1>10 DEF Ownership

\* The new controller goes to one vector, and no thread is left waiting.
LEMMA PublishStep == TypeOK /\ Ownership /\ PollPublish => Ownership'
<1> SUFFICES ASSUME TypeOK, Ownership, PollPublish PROVE Ownership'
  OBVIOUS
<1> USE DEF TypeOK, PoolTypeOK
<1>1. /\ UNCHANGED <<known, ctr>> /\ hid.pc = "publish" /\ hid'.pc = "next"
      /\ pc' = Woken
  BY DEF PollPublish, HidTypeOK
<1>2. hid.dev \in Controller
  BY <1>1 DEF HidTypeOK
<1>3. \A t \in Thread :
         /\ HasId(t)' <=> HasId(t)
         /\ pc'[t] # "gwait"
         /\ pc'[t] \in {"rpush", "fremove"} <=> pc[t] \in {"rpush", "fremove"}
  BY <1>1 DEF HasId, Holds, HoldPC, Woken
<1>4. NoLostWakeup'
  BY <1>3 DEF NoLostWakeup
<1>5. Fresh'
  BY <1>1 DEF Fresh
<1>6. /\ hid.dev.id \in Range(known)
      /\ \A c \in Range(available) \cup Range(cloneable) : c.id # hid.dev.id
      /\ \A t \in Thread : HasId(t) => ctr[t].id # hid.dev.id
  BY <1>1 DEF Ownership, Fresh
<1>7. CASE hid.dev.ctr.duplicate
  <2>1. available' = available /\ cloneable' = vec_push(cloneable, hid.dev)
    BY <1>7 DEF PollPublish
  <2>2. Range(cloneable') = Range(cloneable) \cup {hid.dev}
    <3>1. cloneable \in Seq(Controller)
      OBVIOUS
    <3>2. Range(vec_push(cloneable, hid.dev)) = Range(cloneable) \cup {hid.dev}
      BY <1>2, <3>1, PushRange
    <3> QED BY <2>1, <3>2
  <2>3. Kinds'
    BY <1>1, <1>3, <1>7, <2>1, <2>2 DEF Ownership, Kinds
  <2>4. Apart'
    BY <1>1, <1>3, <1>6, <2>1, <2>2 DEF Ownership, Apart
  <2>5. Listed'
    BY <1>1, <1>3, <1>6, <2>1, <2>2 DEF Ownership, Listed
  <2>6. KnownAccounted'
    BY <1>1, <1>3, <2>1, <2>2 DEF Ownership, KnownAccounted, HasId
  <2> QED BY <1>4, <1>5, <2>3, <2>4, <2>5, <2>6 DEF Ownership
<1>8. CASE ~hid.dev.ctr.duplicate
  <2>1. cloneable' = cloneable /\ available' = vec_push(available, hid.dev)
    BY <1>8 DEF PollPublish
  <2>2. Range(available') = Range(available) \cup {hid.dev} /\ DistinctIds(available')
    <3>1. available \in Seq(Controller)
      OBVIOUS
    <3>2. DistinctIds(available) /\ \A c \in Range(available) : c.id # hid.dev.id
      BY <1>6 DEF Ownership, Apart
    <3> HIDE DEF TypeOK, PoolTypeOK
    <3>3. DistinctIds(available')
      BY <1>2, <2>1, <3>1, <3>2, PushController
    <3>4. Range(vec_push(available, hid.dev)) = Range(available) \cup {hid.dev}
      BY <1>2, <3>1, PushRange
    <3> QED BY <2>1, <3>3, <3>4
  <2>3. Kinds'
    BY <1>1, <1>3, <1>8, <2>1, <2>2 DEF Ownership, Kinds
  <2>4. Apart'
    BY <1>1, <1>3, <1>6, <2>1, <2>2 DEF Ownership, Apart
  <2>5. Listed'
    BY <1>1, <1>3, <1>6, <2>1, <2>2 DEF Ownership, Listed
  <2>6. KnownAccounted'
    BY <1>1, <1>3, <2>1, <2>2 DEF Ownership, KnownAccounted, HasId
  <2> QED BY <1>4, <1>5, <2>3, <2>4, <2>5, <2>6 DEF Ownership
<1> QED BY <1>7, <1>8

\* get_device: stop, take, copy or wait.
LEMMA ScanStep ==
    ASSUME TypeOK, Ownership, NEW t \in Thread, GetScan(t)
    PROVE  Ownership'
<1> USE DEF TypeOK, PoolTypeOK, ThreadTypeOK
<1>1. pc[t] = "gscan" /\ ~HasId(t) /\ UNCHANGED <<known, cloneable, hid>>
  BY DEF GetScan, HasId, Holds, HoldPC
<1>2. CASE stop[t]
  <2>1. pc' = [pc EXCEPT ![t] = "gstop"] /\ UNCHANGED <<available, ctr>>
    BY <1>2 DEF GetScan, Goto
  <2> QED BY <1>1, <2>1, ThreadMoves DEF HoldPC
<1>3. ASSUME NEW c \in Controller, Hand(t, c)
      PROVE  /\ ctr'[t] = c
             /\ \A u \in Thread : u # t => ctr'[u] = ctr[u] /\ pc'[u] = pc[u]
             /\ \A u \in Thread : HasId(u)' <=> (HasId(u) \/ u = t)
             /\ pc'[t] = "gunlock"
  BY <1>3 DEF Hand, Goto, HasId, Holds, HoldPC
<1>4. CASE ~stop[t] /\ Suitable(available, t) # {}
  <2> DEFINE i == Min(Suitable(available, t))
             c == available[i]
  <2>1. i \in 1..Len(available)
    BY <1>4, FirstSuitable
  <2>2. available' = vec_remove(available, i) /\ Hand(t, c)
    BY <1>4 DEF GetScan
  <2> HIDE DEF i
  <2>3. /\ DistinctIds(available') /\ Range(available') \subseteq Range(available)
        /\ Range(available) \subseteq Range(available') \cup {c} /\ c \in Range(available)
        /\ \A d \in Range(available') : d.id # c.id
    <3>1. DistinctIds(available) /\ available \in Seq(Controller)
      BY DEF Ownership, Apart
    <3> QED BY <2>1, <2>2, <3>1, RemoveController
  <2>4. c \in Controller
    BY <2>1
  <2> HIDE DEF c
  <2>5. /\ ctr'[t] = c /\ pc'[t] = "gunlock"
        /\ \A u \in Thread : u # t => ctr'[u] = ctr[u] /\ pc'[u] = pc[u]
        /\ \A u \in Thread : HasId(u)' <=> (HasId(u) \/ u = t)
    BY <1>3, <2>2, <2>4
  <2> USE <1>1, <2>3, <2>4, <2>5
  <2>6. Kinds'
    BY DEF Ownership, Kinds
  <2>7. Apart'
    <3>1. \A u \in Thread : HasId(u) => ctr[u].id # c.id
      BY DEF Ownership, Apart
    <3>2. ~c.ctr.duplicate /\ \A d \in Range(cloneable) : d.id # c.id
      BY DEF Ownership, Apart, Kinds
    <3> HIDE DEF TypeOK, PoolTypeOK, ThreadTypeOK
    <3>3. \A u \in Thread : HasId(u)' =>
             /\ \A d \in Range(available') : d.id # ctr'[u].id
             /\ ~ctr'[u].ctr.duplicate => \A d \in Range(cloneable) : d.id # ctr'[u].id
      BY <3>1, <3>2 DEF Ownership, Apart
    <3>4. \A u, w \in Thread :
             (u # w /\ HasId(u)' /\ HasId(w)' /\ ctr'[u].id = ctr'[w].id)
                => ctr'[u].ctr.duplicate
      <4> SUFFICES ASSUME NEW u \in Thread, NEW w \in Thread, u # w, HasId(u)', HasId(w)',
                          ctr'[u].id = ctr'[w].id
                   PROVE  ctr'[u].ctr.duplicate
        OBVIOUS
      <4>1. CASE u = t
        BY <3>1, <4>1
      <4>2. CASE w = t
        BY <3>1, <4>2
      <4>3. CASE u # t /\ w # t
        BY <4>3 DEF Ownership, Apart
      <4> QED BY <4>1, <4>2, <4>3
    <3>5. \A d \in Range(available') : \A e \in Range(cloneable) : d.id # e.id
      BY DEF Ownership, Apart
    <3> QED BY <3>3, <3>4, <3>5 DEF Apart
  <2>8. Listed'
    BY DEF Ownership, Listed
  <2>9. Fresh'
    BY DEF Ownership, Fresh
  <2>10. KnownAccounted'
    <3>1. \A id \in Range(known) : Placed(id)
      BY Placing DEF Ownership
    <3> HIDE DEF TypeOK, PoolTypeOK, ThreadTypeOK
    <3>2. \A id : Placed(id) => Placed(id)'
      BY DEF Placed
    <3>3. \A id \in Range(known') : Placed(id)'
      BY <3>1, <3>2
    <3> QED BY <3>3 DEF KnownAccounted, Placed, HasId
  <2>11. NoLostWakeup'
    BY DEF Ownership, NoLostWakeup
  <2> QED BY <2>6, <2>7, <2>8, <2>9, <2>10, <2>11 DEF Ownership
<1>5. CASE ~stop[t] /\ Suitable(available, t) = {} /\ Suitable(cloneable, t) # {}
  <2> DEFINE i == Min(Suitable(cloneable, t))
             c == cloneable[i]
  <2>1. i \in 1..Len(cloneable)
    BY <1>5, FirstSuitable
  <2>2. available' = available /\ Hand(t, c)
    BY <1>5 DEF GetScan
  <2> HIDE DEF i
  <2>3. c \in Controller /\ c \in Range(cloneable)
    BY <2>1 DEF Range
  <2> HIDE DEF c
  <2>4. /\ ctr'[t] = c /\ pc'[t] = "gunlock"
        /\ \A u \in Thread : u # t => ctr'[u] = ctr[u] /\ pc'[u] = pc[u]
        /\ \A u \in Thread : HasId(u)' <=> (HasId(u) \/ u = t)
    BY <1>3, <2>2, <2>3
  <2>5. c.ctr.duplicate
    BY <2>3 DEF Ownership, Kinds
  <2> USE <1>1, <2>2, <2>3, <2>4, <2>5
  <2>6. Kinds'
    BY DEF Ownership, Kinds
  <2>7. Apart'
    <3> HIDE DEF TypeOK, PoolTypeOK, ThreadTypeOK
    <3>1. \A u \in Thread : HasId(u)' =>
             /\ \A d \in Range(available) : d.id # ctr'[u].id
             /\ ~ctr'[u].ctr.duplicate => \A d \in Range(cloneable) : d.id # ctr'[u].id
      BY DEF Ownership, Apart
    <3>2. \A u, w \in Thread :
             (u # w /\ HasId(u)' /\ HasId(w)' /\ ctr'[u].id = ctr'[w].id)
                => ctr'[u].ctr.duplicate
      <4> SUFFICES ASSUME NEW u \in Thread, NEW w \in Thread, u # w, HasId(u)', HasId(w)',
                          ctr'[u].id = ctr'[w].id
                   PROVE  ctr'[u].ctr.duplicate
        OBVIOUS
      <4>1. CASE u = t
        BY <4>1
      <4>2. CASE w = t
        BY <4>2 DEF Ownership, Apart
      <4>3. CASE u # t /\ w # t
        BY <4>3 DEF Ownership, Apart
      <4> QED BY <4>1, <4>2, <4>3
    <3> QED BY <3>1, <3>2 DEF Ownership, Apart
  <2>8. Listed' /\ Fresh'
    BY DEF Ownership, Listed, Fresh
  <2>9. KnownAccounted'
    <3>1. \A id \in Range(known) : Placed(id)
      BY Placing DEF Ownership
    <3> HIDE DEF TypeOK, PoolTypeOK, ThreadTypeOK
    <3>2. \A id : Placed(id) => Placed(id)'
      BY DEF Placed
    <3>3. \A id \in Range(known') : Placed(id)'
      BY <3>1, <3>2
    <3> QED BY <3>3 DEF KnownAccounted, Placed, HasId
  <2>10. NoLostWakeup'
    BY DEF Ownership, NoLostWakeup
  <2> QED BY <2>6, <2>7, <2>8, <2>9, <2>10 DEF Ownership
<1>6. CASE ~stop[t] /\ Suitable(available, t) = {} /\ Suitable(cloneable, t) = {}
  <2>1. pc' = [pc EXCEPT ![t] = "gwait"] /\ UNCHANGED <<available, ctr>>
    BY <1>6 DEF GetScan, Goto
  <2>2. \A u \in Thread : HasId(u)' <=> HasId(u)
    BY <1>1, <2>1 DEF HasId, Holds, HoldPC
  <2>3. Kinds'
    BY <1>1, <2>1, <2>2 DEF Ownership, Kinds
  <2>4. Apart' /\ Listed' /\ Fresh'
    BY <1>1, <2>1, <2>2 DEF Ownership, Apart, Listed, Fresh
  <2>5. KnownAccounted'
    BY <1>1, <2>1, <2>2 DEF Ownership, KnownAccounted, HasId
  <2>6. \A c \in Range(available) \cup Range(cloneable) : ~Suits(c, t)
    <3>1. DOMAIN available = 1..Len(available) /\ DOMAIN cloneable = 1..Len(cloneable)
      OBVIOUS
    <3>2. /\ \A j \in 1..Len(available) : ~Suits(available[j], t)
          /\ \A j \in 1..Len(cloneable) : ~Suits(cloneable[j], t)
      BY <1>6 DEF Suitable
    <3> HIDE DEF TypeOK, PoolTypeOK, ThreadTypeOK
    <3> QED BY <3>1, <3>2 DEF Range
  <2>7. NoLostWakeup'
    BY <1>1, <2>1, <2>6 DEF Ownership, NoLostWakeup
  <2> QED BY <2>3, <2>4, <2>5, <2>7 DEF Ownership
<1> QED BY <1>2, <1>4, <1>5, <1>6

\* return_device: the controller changes hands, and no thread is left waiting.
LEMMA ReturnStep ==
    ASSUME TypeOK, Ownership, NEW t \in Thread, ReturnPush(t)
    PROVE  Ownership'
<1> USE DEF TypeOK, PoolTypeOK, ThreadTypeOK
<1> DEFINE c == ctr[t]
<1>1. /\ pc[t] = "rpush" /\ HasId(t) /\ UNCHANGED <<known, cloneable, hid, ctr>>
      /\ available' = vec_push(available, c)
  BY DEF ReturnPush, HasId, Holds, HoldPC
<1>2. c \in Controller /\ ~c.ctr.duplicate
  BY <1>1 DEF Ownership, Kinds
<1>3. DistinctIds(available) /\ \A d \in Range(available) : d.id # c.id
  BY <1>1 DEF Ownership, Apart
<1>4. Range(available') = Range(available) \cup {c}
  BY <1>1, <1>2, PushRange
<1>5. DistinctIds(available')
  BY <1>1, <1>2, <1>3, PushController
<1>6. \A u \in Thread :
         /\ pc'[u] # "gwait"
         /\ HasId(u)' <=> (HasId(u) /\ u # t)
         /\ pc'[u] \in {"rpush", "fremove"} => (pc[u] = pc'[u] /\ u # t)
  BY <1>1 DEF ReturnPush, Woken, HasId, Holds, HoldPC
<1> USE <1>1, <1>2, <1>4, <1>5, <1>6
<1>7. Kinds'
  BY DEF Ownership, Kinds
<1>8. Apart'
  BY <1>3 DEF Ownership, Apart
<1>9. Listed' /\ Fresh'
  BY DEF Ownership, Listed, Fresh
<1>10. KnownAccounted'
  BY DEF Ownership, KnownAccounted, HasId
<1>11. NoLostWakeup'
  BY DEF NoLostWakeup
<1> QED BY <1>7, <1>8, <1>9, <1>10, <1>11 DEF Ownership

\* forget_device drops the id of a controller nobody else has.
LEMMA ForgetStep ==
    ASSUME TypeOK, Ownership, NEW t \in Thread, ForgetRemove(t)
    PROVE  Ownership'
<1> USE DEF TypeOK, PoolTypeOK, ThreadTypeOK
<1> DEFINE c == ctr[t]
<1>1. /\ pc[t] = "fremove" /\ HasId(t)
      /\ UNCHANGED <<available, cloneable, hid, ctr>>
      /\ pc' = [pc EXCEPT ![t] = "forgot"]
  BY DEF ForgetRemove, HasId, Goto
<1>2. c.id \in Range(known) /\ ~c.ctr.duplicate
  BY <1>1 DEF Ownership, Listed, Kinds
<1>3. Positions(c.id) # {}
  <2>1. DOMAIN known = 1..Len(known)
    OBVIOUS
  <2> HIDE DEF TypeOK, PoolTypeOK, ThreadTypeOK
  <2> QED BY <1>2, <2>1 DEF Positions, Range
<1> DEFINE i == Min(Positions(c.id))
<1>4. i \in 1..Len(known) /\ known[i] = c.id
  BY <1>3, FirstPosition
<1>5. known' = vec_remove(known, i)
  BY <1>3 DEF ForgetRemove
<1> HIDE DEF i
<1>6. /\ \A k, m \in 1..Len(known') : known'[k] = known'[m] => k = m
      /\ Range(known') = Range(known) \ {c.id}
  <2>1. known \in Seq(Event) /\ \A k, m \in 1..Len(known) : known[k] = known[m] => k = m
    BY DEF Ownership, Listed
  <2> QED BY <1>4, <1>5, <2>1, RemoveId
<1>7. \A u \in Thread :
         /\ HasId(u)' <=> (HasId(u) /\ u # t)
         /\ u # t => pc'[u] = pc[u]
  BY <1>1 DEF HasId, Holds, HoldPC
<1>8. /\ \A d \in Range(available) \cup Range(cloneable) : d.id # c.id
      /\ \A u \in Thread : HasId(u) /\ u # t => ctr[u].id # c.id
      /\ hid.pc = "publish" => hid.dev.id # c.id
  BY <1>1, <1>2 DEF Ownership, Apart, Fresh
<1> HIDE DEF TypeOK, PoolTypeOK, ThreadTypeOK
<1>9. Kinds' /\ Apart'
  <2>1. pc'[t] = "forgot"
    BY <1>1 DEF TypeOK, ThreadTypeOK
  <2>2. Kinds'
    BY <1>1, <1>7, <2>1 DEF Ownership, Kinds
  <2>3. Apart'
    BY <1>1, <1>7 DEF Ownership, Apart
  <2> QED BY <2>2, <2>3
<1>10. Listed' /\ Fresh'
  <2>1. \A u \in Thread : HasId(u)' => HasId(u) /\ ctr[u].id # c.id
    BY <1>7, <1>8
  <2>2. Listed'
    BY <1>1, <1>6, <1>8, <2>1 DEF Ownership, Listed
  <2>3. Fresh'
    BY <1>1, <1>6, <1>8, <2>1 DEF Ownership, Fresh
  <2> QED BY <2>2, <2>3
<1>11. KnownAccounted'
  <2>1. \A id \in Range(known) : Placed(id)
    BY Placing DEF Ownership
  <2>2. \A id : Placed(id) /\ id # c.id => Placed(id)'
    BY <1>1, <1>7 DEF Placed
  <2>3. \A id \in Range(known') : Placed(id)'
    BY <1>6, <2>1, <2>2
  <2> QED BY <2>3 DEF KnownAccounted, Placed, HasId
<1>12. NoLostWakeup'
  BY <1>1 DEF Ownership, NoLostWakeup, TypeOK, ThreadTypeOK
<1> QED BY <1>9, <1>10, <1>11, <1>12 DEF Ownership

-----------------------------------------------------------------------------
(* Induction *)

\* The empty pool satisfies the invariant.
LEMMA Initially == Init => IInv
<1> SUFFICES ASSUME Init PROVE IInv
  OBVIOUS
<1> USE PoolAssumption DEF Init
<1>1. TypeOK
  BY DEF TypeOK, PoolTypeOK, ThreadTypeOK, HidTypeOK, AllPC, HidPC, HidDev, Faults
<1>2. \A t \in Thread : ~HasId(t) /\ pc[t] = "out"
  BY DEF HasId, Holds, HoldPC
<1>3. Range(available) = {} /\ Range(cloneable) = {} /\ Range(known) = {}
  BY DEF Range
<1>4. Locks
  BY <1>2 DEF Locks, LockPC
<1>5. Kinds /\ Apart /\ Listed /\ Fresh
  BY <1>2, <1>3 DEF Kinds, Apart, DistinctIds, Listed, Fresh
<1>6. KnownAccounted /\ NoLostWakeup
  BY <1>2, <1>3 DEF KnownAccounted, NoLostWakeup
<1> QED BY <1>1, <1>4, <1>5, <1>6 DEF IInv

\* One step per action: those that only move a program counter by the lemmas on
\* moves, those that change a vector by the lemma of their own.
LEMMA OwnershipStep == TypeOK /\ Ownership /\ [Next]_vars => Ownership'
<1> SUFFICES ASSUME TypeOK, Ownership, [Next]_vars PROVE Ownership'
  OBVIOUS
<1>1. ASSUME UNCHANGED <<known, available, cloneable, pc, ctr, hid>> PROVE Ownership'
  BY <1>1 DEF Ownership, Kinds, Apart, DistinctIds, Listed, Fresh, KnownAccounted,
              NoLostWakeup, HasId, Holds
<1>2. ASSUME Kernel PROVE Ownership'
  BY <1>1, <1>2 DEF Kernel, Plug, Unplug, pool, local
<1>3. ASSUME PollStep PROVE Ownership'
  <2>1. ASSUME PollStart \/ PollEnd PROVE Ownership'
    <3>1. /\ hid.pc # "publish" /\ hid'.pc \in {"next", "sleep"}
          /\ UNCHANGED <<known, available, cloneable, pc, ctr>>
      BY <2>1 DEF PollStart, PollEnd, pool, local, TypeOK, HidTypeOK
    <3> QED BY <3>1, HidMoves
  <2>2. ASSUME NEW e \in Event, PollOpen(e) PROVE Ownership'
    <3>1. /\ hid.pc # "publish" /\ hid'.pc \in {"next", "filter"}
          /\ UNCHANGED <<known, available, cloneable, pc, ctr>>
      BY <2>2 DEF PollOpen, pool, local, TypeOK, HidTypeOK
    <3> QED BY <3>1, HidMoves
  <2>3. ASSUME PollFilter PROVE Ownership'
    <3>1. /\ hid.pc = "filter" /\ hid'.pc \in {"next", "check", "filter"}
          /\ UNCHANGED <<known, available, cloneable, pc, ctr>>
      BY <2>3 DEF PollFilter, Skip, Accept, pool, local, TypeOK, HidTypeOK
    <3> QED BY <3>1, HidMoves
  <2>4. ASSUME PollCheckKnown PROVE Ownership'
    <3>1. /\ hid.pc = "check"
          /\ UNCHANGED <<known, available, cloneable, pc, ctr>>
          /\ \/ hid'.pc = "next"
             \/ hid'.pc = "hidraw" /\ hid'.dev.id \notin Range(known)
      BY <2>4 DEF PollCheckKnown, Skip, pool, local, TypeOK, HidTypeOK
    <3> QED BY <3>1, HidMoves
  <2>5. ASSUME PollHidraw PROVE Ownership'
    <3>1. /\ hid.pc = "hidraw" /\ hid'.pc \in {"next", "hidraw", "push_known"}
          /\ hid'.pc # "next" => hid'.dev = hid.dev
          /\ UNCHANGED <<known, available, cloneable, pc, ctr>>
      BY <2>5 DEF PollHidraw, Skip, pool, local, TypeOK, HidTypeOK
    <3>2. hid.dev.id \notin Range(known)
      BY <3>1 DEF Ownership, Fresh
    <3> QED BY <3>1, <3>2, HidMoves
  <2> QED BY <1>3, <2>1, <2>2, <2>3, <2>4, <2>5, PushKnownStep, PublishStep DEF PollStep
<1>4. ASSUME NEW t \in Thread, PoolCall(t) PROVE Ownership'
  <2> USE DEF Goto, HasId, Holds, HoldPC
  <2>1. ASSUME GetLock(t) PROVE Ownership'
    <3>1. /\ pc' = [pc EXCEPT ![t] = "gscan"] /\ ~HasId(t)
          /\ UNCHANGED <<known, available, cloneable, ctr, hid>>
      BY <2>1 DEF GetLock
    <3> QED BY <3>1, ThreadMoves
  <2>2. ASSUME GetUnlock(t) PROVE Ownership'
    <3>1. CASE pc[t] = "gunlock"
      <4>1. /\ pc' = [pc EXCEPT ![t] = "got"] /\ HasId(t)
            /\ UNCHANGED <<known, available, cloneable, ctr, hid>>
        BY <2>2, <3>1 DEF GetUnlock
      <4> QED BY <4>1, ThreadMoves
    <3>2. CASE pc[t] = "gstop"
      <4>1. /\ pc' = [pc EXCEPT ![t] = "none"] /\ ~HasId(t)
            /\ UNCHANGED <<known, available, cloneable, ctr, hid>>
        BY <2>2, <3>2 DEF GetUnlock
      <4> QED BY <4>1, ThreadMoves
    <3> QED BY <2>2, <3>1, <3>2 DEF GetUnlock
  <2>3. ASSUME ReturnLock(t) PROVE Ownership'
    <3>1. CASE ctr[t].ctr.duplicate
      <4>1. /\ pc' = [pc EXCEPT ![t] = "returned"]
            /\ UNCHANGED <<known, available, cloneable, ctr, hid>>
        BY <2>3, <3>1 DEF ReturnLock
      <4>2. HasId(t) => ctr[t] \in Range(cloneable)
        BY <3>1 DEF Ownership, Kinds
      <4> QED BY <4>1, <4>2, ThreadDrops
    <3>2. CASE ~ctr[t].ctr.duplicate
      <4>1. /\ pc' = [pc EXCEPT ![t] = "rpush"] /\ HasId(t)
            /\ UNCHANGED <<known, available, cloneable, ctr, hid>>
        BY <2>3, <3>2 DEF ReturnLock
      <4> QED BY <3>2, <4>1, ThreadMoves
    <3> QED BY <3>1, <3>2
  <2>4. ASSUME ForgetLock(t) PROVE Ownership'
    <3>1. /\ pc' = [pc EXCEPT ![t] = "fclose"] /\ HasId(t)
          /\ UNCHANGED <<known, available, cloneable, ctr, hid>>
      BY <2>4 DEF ForgetLock
    <3> QED BY <3>1, ThreadMoves
  <2>5. ASSUME ForgetClose(t) PROVE Ownership'
    <3>1. HasId(t) /\ UNCHANGED <<known, available, cloneable, ctr, hid>>
      BY <2>5 DEF ForgetClose
    <3>2. CASE ctr[t].ctr.duplicate
      <4>1. ctr[t] \in Range(cloneable)
        BY <3>1, <3>2 DEF Ownership, Kinds
      <4>2. Len(cloneable) > 0
        BY <4>1 DEF Range, TypeOK, PoolTypeOK
      <4>3. UNCHANGED pc
        BY <2>5, <3>2, <4>2 DEF ForgetClose
      <4> QED BY <1>1, <3>1, <4>3
    <3>3. CASE ~ctr[t].ctr.duplicate
      <4>1. pc' = [pc EXCEPT ![t] = "fremove"] \/ UNCHANGED pc
        BY <2>5, <3>3 DEF ForgetClose
      <4>2. ASSUME pc' = [pc EXCEPT ![t] = "fremove"] PROVE Ownership'
        BY <3>1, <3>3, <4>2, ThreadMoves
      <4> QED BY <1>1, <3>1, <4>1, <4>2
    <3> QED BY <3>2, <3>3
  <2> QED BY <1>4, <2>1, <2>2, <2>3, <2>4, <2>5, ScanStep, ReturnStep, ForgetStep
          DEF PoolCall
<1>5. ASSUME NEW t \in Thread, GetSpurious(t) PROVE Ownership'
  <2>1. /\ pc' = [pc EXCEPT ![t] = "glock"] /\ ~HasId(t)
        /\ UNCHANGED <<known, available, cloneable, ctr, hid>>
    BY <1>5 DEF GetSpurious, Goto, HasId, Holds, HoldPC, pool
  <2> QED BY <2>1, ThreadMoves DEF HoldPC
<1>6. ASSUME NEW t \in Thread, Caller(t) PROVE Ownership'
  <2> USE DEF Goto, HasId, Holds, HoldPC, pool, local
  <2>1. ASSUME CallGet(t) \/ Reopen(t) PROVE Ownership'
    <3>1. /\ pc' = [pc EXCEPT ![t] = "glock"] \/ pc' = [pc EXCEPT ![t] = "out"]
          /\ ctr' = [ctr EXCEPT ![t] = NoCtr]
          /\ ~HasId(t) /\ UNCHANGED <<known, available, cloneable, hid>>
      BY <2>1 DEF CallGet, Reopen
    <3>2. \A u \in Thread : u # t => ctr'[u] = ctr[u]
      BY <3>1 DEF TypeOK, ThreadTypeOK
    <3>3. ASSUME pc' = [pc EXCEPT ![t] = "glock"] PROVE Ownership'
      BY <3>1, <3>2, <3>3, ThreadDrops
    <3>4. ASSUME pc' = [pc EXCEPT ![t] = "out"] PROVE Ownership'
      BY <3>1, <3>2, <3>4, ThreadDrops
    <3> QED BY <3>1, <3>3, <3>4
  <2>2. ASSUME CallForget(t) PROVE Ownership'
    <3>1. /\ pc' = [pc EXCEPT ![t] = "flock"] /\ HasId(t)
          /\ UNCHANGED <<known, available, cloneable, ctr, hid>>
      BY <2>2 DEF CallForget
    <3> QED BY <3>1, ThreadMoves
  <2>3. ASSUME CallReturn(t) PROVE Ownership'
    <3>1. /\ pc' = [pc EXCEPT ![t] = "rlock"] /\ HasId(t)
          /\ UNCHANGED <<known, available, cloneable, ctr, hid>>
      BY <2>3 DEF CallReturn
    <3> QED BY <3>1, ThreadMoves
  <2>4. ASSUME Abandon(t) PROVE Ownership'
    <3>1. /\ pc' = [pc EXCEPT ![t] = "out"] /\ ~HasId(t)
          /\ UNCHANGED <<known, available, cloneable, ctr, hid>>
      BY <2>4 DEF Abandon
    <3> QED BY <3>1, ThreadMoves
  <2> QED BY <1>6, <2>1, <2>2, <2>3, <2>4 DEF Caller
<1>7. ASSUME NEW set \in SUBSET Thread, Close(set) PROVE Ownership'
  BY <1>1, <1>7 DEF Close, pool, local
<1> QED BY <1>1, <1>2, <1>3, <1>4, <1>5, <1>6, <1>7 DEF Next, Faulted, vars

\* Every step of the hid thread, of a device thread and of the kernel keeps it.
LEMMA Inductive == IInv /\ [Next]_vars => IInv'
<1>1. Kinds => Complete
  BY DEF Kinds, Complete
<1> QED BY <1>1, TypeStep, LocksStep, OwnershipStep DEF IInv, Ownership

\* The invariant of every behaviour of the pool.
THEOREM Invariance == Spec => []IInv
  BY Initially, Inductive, PTL DEF Spec

\* Every variable of hid.c keeps its type.
THEOREM TypeCorrect == Spec => []TypeOK
<1>1. IInv => TypeOK
  BY DEF IInv
<1> QED BY <1>1, Invariance, PTL

\* A device that is not cloneable is with one client at a time: get_device,
\* return_device, forget_device and poll_devices never put it in two places.
THEOREM Exclusion == Spec => []Exclusive
<1>1. IInv => Exclusive
  BY DEF IInv, Apart, DistinctIds, Exclusive, HasId
<1> QED BY <1>1, Invariance, PTL

\* No known device is lost: as long as poll_devices ignores an id, somebody has
\* the device, offers it or is about to drop the id.
THEOREM NothingLost == Spec => []KnownAccounted
<1>1. IInv => KnownAccounted
  BY DEF IInv
<1> QED BY <1>1, Invariance, PTL

\* No thread sleeps in pthread_cond_wait while there is something for it.
THEOREM WakeupsKept == Spec => []NoLostWakeup
<1>1. IInv => NoLostWakeup
  BY DEF IInv
<1> QED BY <1>1, Invariance, PTL

-----------------------------------------------------------------------------
(* The pool implements DeviceAlloc: under the inductive invariant each step of the pool    *)
(* is a step of the allocator or leaves what it sees alone.                                *)

\* The two variables of DeviceAlloc, as HidPool's Alloc gives them.
Offered == Range(available) \cup Range(cloneable)
Has     == [t \in Thread |-> IF Holds(t) THEN ctr[t] ELSE NoCtr]

\* A thread holds something exactly when the allocator says it has something.
LEMMA HasHeld ==
    ASSUME IInv, NEW t \in Thread
    PROVE  /\ Holds(t) => Has[t] = ctr[t] /\ ctr[t] \in Controller
           /\ Has[t] # NoCtr <=> Holds(t)
<1>1. ASSUME Holds(t) PROVE ctr[t] \in Controller
  BY <1>1 DEF IInv, Kinds, HasId
<1>2. \A c \in Controller : c # NoCtr
  <2>1. ASSUME NEW c \in Controller PROVE c.gen # NoCtr.gen
    BY <2>1, PoolAssumption DEF Controller, NoCtr
  <2> QED BY <2>1
<1> QED BY <1>1, <1>2 DEF Has

\* Steps that the allocator does not see.
LEMMA Unseen ==
    ASSUME UNCHANGED <<available, cloneable>>,
           \A t \in Thread : (Holds(t)' <=> Holds(t)) /\ (Holds(t) => ctr'[t] = ctr[t])
    PROVE  UNCHANGED Alloc!allocVars
<1>1. Has' = Has
  BY DEF Has
<1> QED BY <1>1 DEF Has, Alloc!allocVars

\* poll_devices offers a device whose id nobody has a controller of.
LEMMA PublishOffers == ASSUME IInv, PollPublish PROVE Alloc!Next
<1>1. /\ hid.pc = "publish" /\ hid.dev \in Controller
      /\ \A c \in Offered : c.id # hid.dev.id
      /\ \A t \in Thread : Holds(t) => ctr[t].id # hid.dev.id
  BY DEF PollPublish, IInv, TypeOK, HidTypeOK, Fresh, HasId, Offered
<1>2. Offered' = Offered \cup {hid.dev}
  BY <1>1, PushRange DEF PollPublish, Offered, IInv, TypeOK, PoolTypeOK
<1>3. Has' = Has
  BY DEF PollPublish, Woken, Has, Holds, HoldPC, IInv, TypeOK, ThreadTypeOK
<1>4. \A d \in Alloc!InPlay : d.id # hid.dev.id
  BY <1>1, HasHeld DEF Alloc!InPlay, Offered, Has
<1>5. Alloc!Offer(hid.dev)
  BY <1>2, <1>3, <1>4 DEF Alloc!Offer, Offered, Has
<1>6. hid.dev \in (Offered' \ Offered) \cap Controller
  BY <1>1, <1>2
<1> QED BY <1>5, <1>6 DEF Alloc!Next, Offered

\* A device that suits a thread carries one of the tags the thread asks for.
LEMMA SuitsWants ==
    ASSUME NEW c, NEW t \in Thread, Suits(c, t)
    PROVE  \E i \in 1..Len(Tags[t]) : Tags[t][i] = c.ctr.tag
BY DEF Suits, match_tags, MatchingTags

\* The scan of get_device takes what is on offer and asked for: an available device
\* leaves the offer, a cloneable one stays.
LEMMA ScanGives ==
    ASSUME IInv, NEW t \in Thread, GetScan(t)
    PROVE  Alloc!Next \/ UNCHANGED Alloc!allocVars
<1>0. /\ TypeOK /\ available \in Seq(Controller) /\ cloneable \in Seq(Controller)
      /\ DistinctIds(available)
      /\ \A c \in Range(available) : ~c.ctr.duplicate
      /\ \A c \in Range(cloneable) : c.ctr.duplicate
      /\ \A c \in Range(available) : \A d \in Range(cloneable) : c.id # d.id
  BY DEF IInv, TypeOK, PoolTypeOK, Apart, Kinds
<1>1. pc \in [Thread -> AllPC] /\ ctr \in [Thread -> Controller \cup {NoCtr}] /\ pc[t] = "gscan"
  BY <1>0 DEF TypeOK, ThreadTypeOK, GetScan
<1>2. ~Holds(t) /\ Has[t] = NoCtr
  BY <1>1 DEF Holds, HoldPC, Has
<1>3. ASSUME NEW c, Hand(t, c) PROVE Has' = [Has EXCEPT ![t] = c]
  BY <1>1, <1>3 DEF Hand, Goto, Has, Holds, HoldPC
<1>4. ASSUME NEW c \in Offered, Hand(t, c), Suits(c, t),
             Offered' = IF c.ctr.duplicate THEN Offered ELSE Offered \ {c}
      PROVE  Alloc!Next
  <2>1. Alloc!Give(t, c)
    BY <1>2, <1>3, <1>4, SuitsWants DEF Alloc!Give, Offered, Has
  <2> QED BY <1>4, <2>1 DEF Alloc!Next, Offered
<1>5. ASSUME ~stop[t], Suitable(available, t) # {} PROVE Alloc!Next
  <2> DEFINE i == Min(Suitable(available, t))
             c == available[i]
  <2>1. i \in 1..Len(available) /\ Suits(c, t)
    BY <1>5, FirstSuitable
  <2>2. Hand(t, c) /\ available' = vec_remove(available, i) /\ UNCHANGED cloneable
    BY <1>5 DEF GetScan
  <2>3. /\ Range(available') \subseteq Range(available) /\ c \in Range(available)
        /\ Range(available) \subseteq Range(available') \cup {c}
        /\ \A d \in Range(available') : d.id # c.id
    BY <1>0, <2>1, <2>2, RemoveController
  <2> HIDE DEF i, c
  <2>4. Offered' = Offered \ {c}
    BY <1>0, <2>2, <2>3 DEF Offered
  <2>5. ~c.ctr.duplicate /\ c \in Offered
    BY <1>0, <2>3 DEF Offered
  <2> QED BY <1>4, <2>1, <2>2, <2>4, <2>5
<1>6. ASSUME ~stop[t], Suitable(available, t) = {}, Suitable(cloneable, t) # {}
      PROVE  Alloc!Next
  <2> DEFINE i == Min(Suitable(cloneable, t))
             c == cloneable[i]
  <2>1. i \in 1..Len(cloneable) /\ Suits(c, t)
    BY <1>6, FirstSuitable
  <2>2. Hand(t, c) /\ UNCHANGED <<available, cloneable>>
    BY <1>6 DEF GetScan
  <2>3. c \in Range(cloneable)
    BY <1>0, <2>1 DEF Range
  <2> HIDE DEF i, c
  <2>4. Offered' = Offered /\ c.ctr.duplicate /\ c \in Offered
    BY <1>0, <2>2, <2>3 DEF Offered
  <2> QED BY <1>4, <2>1, <2>2, <2>4
<1>7. ASSUME stop[t] \/ (Suitable(available, t) = {} /\ Suitable(cloneable, t) = {})
      PROVE  UNCHANGED Alloc!allocVars
  <2>1. UNCHANGED <<available, cloneable, ctr>> /\ \A u \in Thread : Holds(u)' <=> Holds(u)
    BY <1>1, <1>7 DEF GetScan, Goto, Holds, HoldPC
  <2> QED BY <2>1, Unseen
<1> QED BY <1>5, <1>6, <1>7

\* return_device gives back what the thread has, at once when it is cloneable.
LEMMA GivesBack ==
    ASSUME IInv, NEW t \in Thread, Holds(t),
           Offered' = IF ctr[t].ctr.duplicate THEN Offered ELSE Offered \cup {ctr[t]},
           ctr' = ctr, ~Holds(t)', \A u \in Thread \ {t} : Holds(u)' <=> Holds(u)
    PROVE  Alloc!Next
<1>1. Has[t] = ctr[t] /\ Has[t] # NoCtr
  BY HasHeld
<1>2. Has' = [Has EXCEPT ![t] = NoCtr]
  BY DEF Has
<1>3. Alloc!Return(t)
  BY <1>1, <1>2 DEF Alloc!Return, Offered, Has
<1> QED BY <1>3 DEF Alloc!Next

\* return_device is a Return of the allocator, or has not come to it yet.
LEMMA ReturnReturns ==
    ASSUME IInv, NEW t \in Thread, ReturnLock(t) \/ ReturnPush(t)
    PROVE  Alloc!Next \/ UNCHANGED Alloc!allocVars
<1>1. /\ pc \in [Thread -> AllPC] /\ pc[t] \in {"rlock", "rpush"} /\ Holds(t)
      /\ UNCHANGED <<cloneable, ctr>> /\ available \in Seq(Controller)
  BY DEF IInv, TypeOK, PoolTypeOK, ThreadTypeOK, ReturnLock, ReturnPush, Holds, HoldPC
<1>2. CASE ReturnLock(t) /\ ctr[t].ctr.duplicate
  <2>1. Offered' = Offered
    BY <1>1, <1>2 DEF ReturnLock, Offered
  <2>2. ~Holds(t)' /\ \A u \in Thread \ {t} : Holds(u)' <=> Holds(u)
    BY <1>1, <1>2 DEF ReturnLock, Goto, Holds, HoldPC
  <2> QED BY <1>1, <1>2, <2>1, <2>2, GivesBack
<1>3. CASE ReturnLock(t) /\ ~ctr[t].ctr.duplicate
  <2>1. UNCHANGED available /\ \A u \in Thread : Holds(u)' <=> Holds(u)
    BY <1>1, <1>3 DEF ReturnLock, Goto, Holds, HoldPC
  <2> QED BY <1>1, <2>1, Unseen
<1>4. CASE ReturnPush(t)
  <2>1. ctr[t] \in Controller /\ ~ctr[t].ctr.duplicate
    BY <1>1, <1>4 DEF ReturnPush, IInv, Kinds, HasId
  <2>2. Offered' = Offered \cup {ctr[t]}
    BY <1>1, <1>4, <2>1, PushRange DEF ReturnPush, Offered
  <2>3. ~Holds(t)' /\ \A u \in Thread \ {t} : Holds(u)' <=> Holds(u)
    BY <1>1, <1>4 DEF ReturnPush, Woken, Holds, HoldPC
  <2> QED BY <1>1, <2>1, <2>2, <2>3, GivesBack
<1> QED BY <1>2, <1>3, <1>4

\* forget_device loses what the thread has when it closes the descriptors.  It never gets
\* that far with a cloneable controller, which its vector still has.
LEMMA CloseLoses ==
    ASSUME IInv, NEW t \in Thread, ForgetClose(t)
    PROVE  Alloc!Next \/ UNCHANGED Alloc!allocVars
<1>1. /\ pc \in [Thread -> AllPC] /\ pc[t] = "fclose" /\ Holds(t)
      /\ UNCHANGED <<available, cloneable, ctr>> /\ cloneable \in Seq(Controller)
  BY DEF IInv, TypeOK, PoolTypeOK, ThreadTypeOK, ForgetClose, Holds, HoldPC
<1>2. CASE UNCHANGED pc
  BY <1>1, <1>2, Unseen DEF Holds
<1>3. CASE /\ pc' = [pc EXCEPT ![t] = "fremove"]
           /\ ~(ctr[t].ctr.duplicate /\ Len(cloneable) > 0)
  <2>1. ~ctr[t].ctr.duplicate
    <3>1. ASSUME ctr[t] \in Range(cloneable) PROVE Len(cloneable) > 0
      BY <1>1, <3>1 DEF Range
    <3> QED BY <1>1, <1>3, <3>1 DEF IInv, Kinds, HasId
  <2>2. ctr[t] \notin Offered
    BY <1>1, <2>1 DEF IInv, Apart, HasId, Offered
  <2>3. Has[t] = ctr[t] /\ Has[t] # NoCtr
    BY <1>1, HasHeld
  <2>4. Has' = [Has EXCEPT ![t] = NoCtr]
    BY <1>1, <1>3 DEF Has, Holds, HoldPC
  <2>5. Alloc!Lose(t)
    BY <1>1, <2>2, <2>3, <2>4 DEF Alloc!Lose, Offered, Has
  <2> QED BY <2>5 DEF Alloc!Next
<1> QED BY <1>2, <1>3 DEF ForgetClose, Goto

\* Every step of the pool is a step of the allocator or a stutter.
LEMMA StepSimulation ==
    ASSUME IInv, [Next]_vars
    PROVE  Alloc!Next \/ UNCHANGED Alloc!allocVars
<1>0. pc \in [Thread -> AllPC]
  BY DEF IInv, TypeOK, ThreadTypeOK
<1>1. ASSUME Kernel \/ UNCHANGED vars \/ (\E set \in SUBSET Thread : Close(set))
      PROVE  UNCHANGED Alloc!allocVars
  <2>1. UNCHANGED <<available, cloneable, pc, ctr>>
    BY <1>1 DEF Kernel, Plug, Unplug, Close, vars, pool, local
  <2> QED BY <2>1, Unseen DEF Holds
<1>2. ASSUME PollStep PROVE PollPublish \/ UNCHANGED Alloc!allocVars
  <2>1. PollPublish \/ UNCHANGED <<available, cloneable, pc, ctr>>
    BY <1>2 DEF PollStep, PollStart, PollEnd, PollOpen, PollFilter, PollCheckKnown,
                PollHidraw, PollPushKnown, pool, local
  <2> QED BY <2>1, Unseen DEF Holds
<1>3. ASSUME NEW t \in Thread,
             GetLock(t) \/ GetUnlock(t) \/ ForgetLock(t) \/ ForgetRemove(t) \/ GetSpurious(t)
      PROVE  UNCHANGED Alloc!allocVars
  <2>1. UNCHANGED <<available, cloneable, ctr>> /\ \A u \in Thread : Holds(u)' <=> Holds(u)
    BY <1>0, <1>3 DEF GetLock, GetUnlock, ForgetLock, ForgetRemove, GetSpurious, Goto,
                      Holds, HoldPC, pool
  <2> QED BY <2>1, Unseen
<1>4. ASSUME NEW t \in Thread, Caller(t) PROVE UNCHANGED Alloc!allocVars
  <2>1. /\ UNCHANGED <<available, cloneable>>
        /\ \A u \in Thread : (Holds(u)' <=> Holds(u)) /\ (Holds(u) => ctr'[u] = ctr[u])
    BY <1>0, <1>4 DEF Caller, CallGet, CallForget, CallReturn, Abandon, Reopen, Goto,
                      Holds, HoldPC, pool, IInv, TypeOK, ThreadTypeOK
  <2> QED BY <2>1, Unseen
<1> QED BY <1>1, <1>2, <1>3, <1>4, PublishOffers, ScanGives, ReturnReturns, CloseLoses
        DEF Next, PoolCall, Faulted

-----------------------------------------------------------------------------
\* The pool does what the allocator promises: whatever the vectors, the mutexes, the
\* condition variable and the polling do, a device is offered only when nobody has one of
\* its id, is given to one thread unless it is cloneable, only to one that asked for its
\* tag, and comes back or is lost only through the thread that has it.
THEOREM Refinement == Spec => ImplementsAlloc
<1>1. Init => Alloc!Init
  <2> SUFFICES ASSUME Init PROVE Offered = {} /\ Has = [t \in Thread |-> NoCtr]
    BY DEF Alloc!Init, Offered, Has
  <2> QED BY DEF Init, Offered, Has, Range, Holds, HoldPC
<1>2. IInv /\ [Next]_vars => [Alloc!Next]_Alloc!allocVars
  BY StepSimulation
<1> QED BY <1>1, <1>2, Invariance, PTL DEF Spec, ImplementsAlloc, Alloc!Spec

-----------------------------------------------------------------------------
(* Descriptors: what is open is what some part of the program has a controller of, and     *)
(* forget_device frees nothing twice.  The inductive invariant                            *)

\* The controllers the program has, and the entry poll_devices looks at.
Kept ==
    Range(available) \cup Range(cloneable)
    \cup {ctr[t] : t \in {u \in Thread : HasId(u)}}
    \cup (IF hid.pc \in {"sleep", "next"} THEN {} ELSE {hid.dev})

\* born[g] is the entry behind which the device number g appeared.
BornAt(born) ==
    /\ \A c \in Kept : c.gen \in 1..plugs /\ c.id = born[c.gen]
    /\ \A e \in Event : plugged[e] # NoDev =>
          plugged[e].gen \in 1..plugs /\ e = born[plugged[e].gen]

\* Every device appeared behind one entry only, so controllers with the same descriptors
\* have the same id.
Origins == \E born \in [1..plugs -> Event] : BornAt(born)

DInv == IInv /\ Origins /\ DescriptorsAccounted

-----------------------------------------------------------------------------
(* Origins *)

\* A step that plugs nothing in, and after which nobody has a device that nobody had or
\* that was not plugged in.
LEMMA OriginsKept ==
    ASSUME Origins, plugs' = plugs,
           \A e \in Event : plugged'[e] = plugged[e] \/ plugged'[e] = NoDev,
           \A c \in Kept' :
              \/ \E d \in Kept : d.gen = c.gen /\ d.id = c.id
              \/ c.id \in Event /\ plugged[c.id] # NoDev /\ plugged[c.id].gen = c.gen
    PROVE  Origins'
<1>1. PICK born \in [1..plugs -> Event] : BornAt(born)
  BY DEF Origins
<1>2. ASSUME NEW c \in Kept' PROVE c.gen \in 1..plugs' /\ c.id = born[c.gen]
  <2>1. CASE \E d \in Kept : d.gen = c.gen /\ d.id = c.id
    BY <1>1, <2>1 DEF BornAt
  <2>2. CASE c.id \in Event /\ plugged[c.id] # NoDev /\ plugged[c.id].gen = c.gen
    BY <1>1, <2>2 DEF BornAt
  <2> QED BY <1>2, <2>1, <2>2
<1>3. ASSUME NEW e \in Event, plugged'[e] # NoDev
      PROVE  plugged'[e].gen \in 1..plugs' /\ e = born[plugged'[e].gen]
  BY <1>1, <1>3 DEF BornAt
<1>4. BornAt(born)'
  BY <1>2, <1>3 DEF BornAt
<1> QED BY <1>1, <1>4 DEF Origins

\* What a device thread does to its pc and its controller: it has what it had, or what was
\* in one of the vectors.
LEMMA ThreadKeeps ==
    ASSUME Origins, UNCHANGED <<plugs, plugged, hid>>, NEW t \in Thread,
           \A u \in Thread \ {t} : HasId(u)' => HasId(u) /\ ctr'[u] = ctr[u],
           HasId(t)' => ctr'[t] \in Range(available) \cup Range(cloneable)
                        \/ (HasId(t) /\ ctr'[t] = ctr[t]),
           \A c \in Range(available') : c \in Range(available) \/ (HasId(t) /\ c = ctr[t]),
           UNCHANGED cloneable
    PROVE  Origins'
<1>1. ASSUME NEW c \in Kept' PROVE c \in Kept
  <2>1. CASE c \in Range(available') \cup Range(cloneable')
    BY <2>1 DEF Kept
  <2>2. CASE c \in {ctr'[u] : u \in {x \in Thread : HasId(x)'}}
    <3>1. PICK u \in Thread : HasId(u)' /\ c = ctr'[u]
      BY <2>2
    <3>2. CASE u = t
      BY <3>1, <3>2 DEF Kept
    <3>3. CASE u # t
      BY <3>1, <3>3 DEF Kept
    <3> QED BY <3>2, <3>3
  <2>3. CASE c = hid'.dev /\ hid'.pc \notin {"sleep", "next"}
    BY <2>3 DEF Kept
  <2> QED BY <1>1, <2>1, <2>2, <2>3 DEF Kept
<1> QED BY <1>1, OriginsKept

\* A new device has a new number; every other step hands devices on.
LEMMA OriginsStep == IInv /\ Origins /\ [Next]_vars => Origins'
<1> SUFFICES ASSUME IInv, Origins, [Next]_vars PROVE Origins'
  OBVIOUS
<1>0. TypeOK /\ Kinds
  BY DEF IInv
<1> USE DEF env, pool, local, Running, Goto
<1>1. ASSUME UNCHANGED <<plugs, plugged, hid, available, cloneable, pc, ctr>> PROVE Origins'
  <2>1. Kept' = Kept
    BY <1>1 DEF Kept, HasId, Holds
  <2> QED BY <1>1, <2>1, OriginsKept
<1>2. ASSUME NEW e \in Event, Unplug(e) PROVE Origins'
  <2>1. Kept' = Kept
    BY <1>2 DEF Unplug, Kept, HasId, Holds
  <2> QED BY <1>0, <1>2, <2>1, OriginsKept DEF Unplug, TypeOK
<1>3. ASSUME NEW e \in Event, NEW k \in 0..Len(Config), Plug(e, k) PROVE Origins'
  <2>1. PICK born \in [1..plugs -> Event] : BornAt(born)
    BY DEF Origins
  <2>2. plugs \in Nat /\ plugs' = plugs + 1
    BY <1>0, <1>3, PoolAssumption DEF Plug, TypeOK
  <2>3. \A g \in 1..plugs : g \in 1..plugs' /\ g # plugs'
    BY <2>2
  <2>4. plugs' \in 1..plugs'
    BY <2>2
  <2>5. PICK more \in [1..plugs' -> Event] :
            more[plugs'] = e /\ \A g \in 1..plugs : more[g] = born[g]
    <3> DEFINE f == [g \in 1..plugs' |-> IF g = plugs' THEN e ELSE born[g]]
    <3>1. \A g \in 1..plugs' : g = plugs' \/ g \in 1..plugs
      BY <2>2
    <3>2. f \in [1..plugs' -> Event]
      BY <3>1
    <3>3. f[plugs'] = e /\ \A g \in 1..plugs : f[g] = born[g]
      BY <2>3, <2>4
    <3> HIDE DEF f
    <3> QED BY <3>2, <3>3
  <2>6. Kept' = Kept
    BY <1>3 DEF Plug, Kept, HasId, Holds
  <2>7. \A c \in Kept' : c.gen \in 1..plugs' /\ c.id = more[c.gen]
    BY <2>1, <2>3, <2>5, <2>6 DEF BornAt
  <2>8. ASSUME NEW f \in Event, plugged'[f] # NoDev
        PROVE  plugged'[f].gen \in 1..plugs' /\ f = more[plugged'[f].gen]
    <3>1. CASE f = e
      <4>1. plugged'[f].gen = plugs'
        BY <1>0, <1>3, <3>1 DEF Plug, TypeOK
      <4> QED BY <2>4, <2>5, <3>1, <4>1
    <3>2. CASE f # e
      <4>1. plugged'[f] = plugged[f]
        BY <1>0, <1>3, <3>2 DEF Plug, TypeOK
      <4> QED BY <2>1, <2>3, <2>5, <2>8, <4>1 DEF BornAt
    <3> QED BY <3>1, <3>2
  <2>9. BornAt(more)'
    BY <2>7, <2>8 DEF BornAt
  <2> QED BY <2>5, <2>9 DEF Origins
<1>4. ASSUME PollStep PROVE Origins'
  <2>1. ASSUME UNCHANGED <<plugs, plugged, available, cloneable, ctr>>,
               \A t \in Thread : HasId(t)' => HasId(t),
               \/ hid'.pc \in {"sleep", "next"}
               \/ /\ hid.pc \notin {"sleep", "next"}
                  /\ hid'.dev.gen = hid.dev.gen /\ hid'.dev.id = hid.dev.id
        PROVE  Origins'
    <3>1. ASSUME NEW c \in Kept' PROVE \E d \in Kept : d.gen = c.gen /\ d.id = c.id
      <4>1. CASE c \in Range(available') \cup Range(cloneable')
        BY <2>1, <4>1 DEF Kept
      <4>2. CASE c \in {ctr'[u] : u \in {x \in Thread : HasId(x)'}}
        BY <2>1, <4>2 DEF Kept
      <4>3. CASE c = hid'.dev /\ hid'.pc \notin {"sleep", "next"}
        <5>1. hid.dev \in Kept
          BY <2>1, <4>3 DEF Kept
        <5> QED BY <2>1, <4>3, <5>1
      <4> QED BY <3>1, <4>1, <4>2, <4>3 DEF Kept
    <3> QED BY <2>1, <3>1, OriginsKept
  <2>2. ASSUME PollStart \/ PollEnd PROVE Origins'
    <3>1. hid'.pc \in {"sleep", "next"}
      BY <1>0, <2>2 DEF PollStart, PollEnd, TypeOK, HidTypeOK
    <3> QED BY <2>1, <2>2, <3>1 DEF PollStart, PollEnd, HasId, Holds
  <2>3. ASSUME NEW e \in Event, PollOpen(e) PROVE Origins'
    <3>1. CASE plugged[e] = NoDev
      <4>1. hid'.pc \in {"sleep", "next"}
        BY <1>0, <2>3, <3>1 DEF PollOpen, TypeOK, HidTypeOK
      <4> QED BY <2>1, <2>3, <4>1 DEF PollOpen, HasId, Holds
    <3>2. CASE plugged[e] # NoDev
      <4>1. hid'.dev.id = e /\ hid'.dev.gen = plugged[e].gen
        BY <2>3, <3>2 DEF PollOpen
      <4>2. \A c \in Kept' : c \in Kept \/ c = hid'.dev
        BY <2>3 DEF PollOpen, Kept, HasId, Holds
      <4> QED BY <2>3, <3>2, <4>1, <4>2, OriginsKept DEF PollOpen
    <3> QED BY <3>1, <3>2
  <2>4. ASSUME PollFilter \/ PollCheckKnown \/ PollHidraw PROVE Origins'
    <3>1. \/ hid'.pc = "next"
          \/ /\ hid.pc \notin {"sleep", "next"}
             /\ hid'.dev.gen = hid.dev.gen /\ hid'.dev.id = hid.dev.id
      <4>1. ASSUME Skip PROVE hid'.pc = "next"
        BY <1>0, <4>1 DEF Skip, TypeOK, HidTypeOK
      <4>2. ASSUME NEW k, NEW named, Accept(k, named)
            PROVE  hid'.dev.gen = hid.dev.gen /\ hid'.dev.id = hid.dev.id
        BY <1>0, <4>2 DEF Accept, TypeOK, HidTypeOK
      <4>3. CASE PollFilter
        BY <4>1, <4>2, <4>3 DEF PollFilter
      <4>4. CASE PollCheckKnown \/ PollHidraw
        BY <1>0, <4>1, <4>4 DEF PollCheckKnown, PollHidraw, TypeOK, HidTypeOK
      <4> QED BY <2>4, <4>3, <4>4
    <3> QED BY <2>1, <2>4, <3>1 DEF PollFilter, PollCheckKnown, PollHidraw, HasId, Holds
  <2>5. ASSUME PollPushKnown PROVE Origins'
    <3>1. hid.pc = "push_known" /\ hid'.dev = hid.dev
      BY <1>0, <2>5 DEF PollPushKnown, TypeOK, HidTypeOK
    <3> QED BY <2>1, <2>5, <3>1 DEF PollPushKnown, HasId, Holds
  <2>6. ASSUME PollPublish PROVE Origins'
    <3>1. hid.dev \in Controller /\ hid.dev \in Kept /\ hid'.pc = "next"
      BY <1>0, <2>6 DEF PollPublish, TypeOK, HidTypeOK, Kept
    <3>2. Range(available') \cup Range(cloneable')
             = Range(available) \cup Range(cloneable) \cup {hid.dev}
      <4>1. CASE hid.dev.ctr.duplicate
        <5>1. Range(cloneable') = Range(cloneable) \cup {hid.dev} /\ UNCHANGED available
          BY <1>0, <2>6, <3>1, <4>1, PushRange DEF PollPublish, TypeOK, PoolTypeOK
        <5> QED BY <5>1
      <4>2. CASE ~hid.dev.ctr.duplicate
        <5>1. Range(available') = Range(available) \cup {hid.dev} /\ UNCHANGED cloneable
          BY <1>0, <2>6, <3>1, <4>2, PushRange DEF PollPublish, TypeOK, PoolTypeOK
        <5> QED BY <5>1
      <4> QED BY <4>1, <4>2
    <3>3. ctr' = ctr /\ \A t \in Thread : HasId(t)' => HasId(t)
      BY <1>0, <2>6 DEF PollPublish, Woken, HasId, Holds, HoldPC, TypeOK, ThreadTypeOK
    <3>4. Kept' \subseteq Kept
      BY <3>1, <3>2, <3>3 DEF Kept
    <3> QED BY <2>6, <3>4, OriginsKept DEF PollPublish
  <2> QED BY <1>4, <2>2, <2>3, <2>4, <2>5, <2>6 DEF PollStep
<1>5. ASSUME NEW t \in Thread, PoolCall(t) PROVE Origins'
  <2> USE <1>0 DEF HasId, Holds, HoldPC, TypeOK, ThreadTypeOK
  <2>1. ASSUME GetLock(t) \/ GetUnlock(t) \/ ReturnLock(t) \/ ForgetLock(t) \/ ForgetRemove(t)
        PROVE  Origins'
    BY <2>1, ThreadKeeps
       DEF GetLock, GetUnlock, ReturnLock, ForgetLock, ForgetRemove
  <2>2. ASSUME ForgetClose(t) PROVE Origins'
    BY <2>2, ThreadKeeps DEF ForgetClose
  <2>3. ASSUME ReturnPush(t) PROVE Origins'
    <3>1. HasId(t) /\ Range(available') = Range(available) \cup {ctr[t]}
      BY <2>3, PushRange DEF ReturnPush, PoolTypeOK, Kinds
    <3>2. \A u \in Thread : HasId(u)' => HasId(u)
      BY <2>3 DEF ReturnPush, Woken
    <3> QED BY <2>3, <3>1, <3>2, ThreadKeeps DEF ReturnPush
  <2>4. ASSUME GetScan(t) PROVE Origins'
    <3>1. ASSUME ~stop[t], Suitable(available, t) # {} PROVE Origins'
      <4> DEFINE i == Min(Suitable(available, t))
      <4>1. i \in 1..Len(available)
        BY <3>1, FirstSuitable
      <4>2. /\ Hand(t, available[i]) /\ available' = vec_remove(available, i)
            /\ UNCHANGED <<plugs, plugged, hid, cloneable>>
        BY <2>4, <3>1 DEF GetScan
      <4> HIDE DEF i
      <4>3. available[i] \in Range(available)
        BY <4>1 DEF PoolTypeOK, Range
      <4>4. Range(available') \subseteq Range(available)
        BY <4>1, <4>2, VecRemoveElements DEF PoolTypeOK
      <4> QED BY <4>2, <4>3, <4>4, ThreadKeeps DEF Hand
    <3>2. ASSUME ~stop[t], Suitable(available, t) = {}, Suitable(cloneable, t) # {}
          PROVE  Origins'
      <4> DEFINE i == Min(Suitable(cloneable, t))
      <4>1. i \in 1..Len(cloneable)
        BY <3>2, FirstSuitable
      <4>2. Hand(t, cloneable[i]) /\ UNCHANGED <<plugs, plugged, hid, available, cloneable>>
        BY <2>4, <3>2 DEF GetScan
      <4> HIDE DEF i
      <4>3. cloneable[i] \in Range(cloneable)
        BY <4>1 DEF PoolTypeOK, Range
      <4> QED BY <4>2, <4>3, ThreadKeeps DEF Hand
    <3>3. ASSUME \/ stop[t]
                 \/ Suitable(available, t) = {} /\ Suitable(cloneable, t) = {}
          PROVE  Origins'
      BY <2>4, <3>3, ThreadKeeps DEF GetScan
    <3> QED BY <3>1, <3>2, <3>3
  <2> QED BY <1>5, <2>1, <2>2, <2>3, <2>4 DEF PoolCall
<1>6. ASSUME NEW t \in Thread, GetSpurious(t) \/ Caller(t) PROVE Origins'
  BY <1>0, <1>6, ThreadKeeps
     DEF GetSpurious, Caller, CallGet, CallForget, CallReturn, Abandon, Reopen,
         HasId, Holds, HoldPC, TypeOK, ThreadTypeOK
<1>7. ASSUME NEW set \in SUBSET Thread, Close(set) PROVE Origins'
  BY <1>1, <1>7 DEF Close
<1> QED BY <1>1, <1>2, <1>3, <1>4, <1>5, <1>6, <1>7 DEF Next, Kernel, Faulted, vars

-----------------------------------------------------------------------------
(* Descriptors *)

\* Some part of the program has a controller of device number g.
Owns(g) ==
    \/ \E c \in Range(available) \cup Range(cloneable) : c.gen = g
    \/ \E t \in Thread : Holds(t) /\ ctr[t].gen = g
    \/ hid.pc = "publish" /\ hid.dev.gen = g

\* DescriptorsAccounted, read one descriptor at a time.
LEMMA Accounting == open = Owned <=> \A g : g \in open <=> Owns(g)
<1>1. \A g : g \in Owned <=> Owns(g)
  BY DEF Owned, Owns
<1> QED BY <1>1

\* Nobody else has a controller with the descriptors of one that is not cloneable.
LEMMA OwnDescriptors ==
    ASSUME IInv, Origins, NEW t \in Thread, HasId(t), ~ctr[t].ctr.duplicate
    PROVE  /\ \A c \in Range(available) \cup Range(cloneable) : c.gen # ctr[t].gen
           /\ \A u \in Thread \ {t} : HasId(u) => ctr[u].gen # ctr[t].gen
           /\ hid.pc = "publish" => hid.dev.gen # ctr[t].gen
<1>1. PICK born \in [1..plugs -> Event] : BornAt(born)
  BY DEF Origins
<1>2. ctr[t] \in Kept /\ \A c \in Kept : c.gen = ctr[t].gen => c.id = ctr[t].id
  BY <1>1 DEF BornAt, Kept
<1>3. ASSUME NEW c \in Range(available) \cup Range(cloneable) PROVE c.gen # ctr[t].gen
  BY <1>2, <1>3 DEF Kept, IInv, Apart
<1>4. ASSUME NEW u \in Thread \ {t}, HasId(u) PROVE ctr[u].gen # ctr[t].gen
  <2>1. ctr[u] \in Kept
    BY <1>4 DEF Kept
  <2> QED BY <1>2, <1>4, <2>1 DEF IInv, Apart
<1>5. ASSUME hid.pc = "publish" PROVE hid.dev.gen # ctr[t].gen
  <2>1. hid.dev \in Kept
    BY <1>5 DEF Kept
  <2> QED BY <1>2, <1>5, <2>1 DEF IInv, Fresh
<1> QED BY <1>3, <1>4, <1>5

\* Steps of a thread that leave the vectors and the descriptors alone, and after which it
\* has what it had; a cloneable controller may be dropped, its vector keeps it.
LEMMA ThreadOwns ==
    ASSUME \A g : g \in open <=> Owns(g), NEW t \in Thread,
           UNCHANGED <<available, cloneable, hid, open>>,
           \A u \in Thread \ {t} : (Holds(u)' <=> Holds(u)) /\ ctr'[u] = ctr[u],
           Holds(t) => (Holds(t)' /\ ctr'[t] = ctr[t]) \/ ctr[t] \in Range(cloneable),
           Holds(t)' => (Holds(t) /\ ctr'[t] = ctr[t]) \/ ctr'[t] \in Range(cloneable)
    PROVE  \A g : g \in open' <=> Owns(g)'
<1> SUFFICES ASSUME NEW g PROVE Owns(g)' <=> Owns(g)
  OBVIOUS
<1>1. ASSUME Owns(g) PROVE Owns(g)'
  <2>1. CASE \E u \in Thread : Holds(u) /\ ctr[u].gen = g
    <3>1. PICK u \in Thread : Holds(u) /\ ctr[u].gen = g
      BY <2>1
    <3>2. CASE u = t
      BY <3>1, <3>2 DEF Owns
    <3>3. CASE u # t
      BY <3>1, <3>3 DEF Owns
    <3> QED BY <3>2, <3>3
  <2> QED BY <1>1, <2>1 DEF Owns
<1>2. ASSUME Owns(g)' PROVE Owns(g)
  <2>1. CASE \E u \in Thread : Holds(u)' /\ ctr'[u].gen = g
    <3>1. PICK u \in Thread : Holds(u)' /\ ctr'[u].gen = g
      BY <2>1
    <3>2. CASE u = t
      BY <3>1, <3>2 DEF Owns
    <3>3. CASE u # t
      BY <3>1, <3>3 DEF Owns
    <3> QED BY <3>2, <3>3
  <2> QED BY <1>2, <2>1 DEF Owns
<1> QED BY <1>1, <1>2

\* The calls of a device thread.
LEMMA CallsOwn ==
    ASSUME IInv, Origins, \A g : g \in open <=> Owns(g), NEW t \in Thread,
           PoolCall(t) \/ GetSpurious(t) \/ Caller(t)
    PROVE  \A g : g \in open' <=> Owns(g)'
<1>0. TypeOK /\ Kinds
  BY DEF IInv
<1> USE <1>0 DEF env, pool, local, Running, Goto, Holds, HoldPC, TypeOK, ThreadTypeOK
<1>1. ASSUME GetLock(t) \/ GetUnlock(t) \/ ForgetLock(t) \/ ForgetRemove(t) \/ GetSpurious(t)
      PROVE  \A g : g \in open' <=> Owns(g)'
  BY <1>1, ThreadOwns DEF GetLock, GetUnlock, ForgetLock, ForgetRemove, GetSpurious
<1>2. ASSUME Caller(t) PROVE \A g : g \in open' <=> Owns(g)'
  BY <1>2, ThreadOwns DEF Caller, CallGet, CallForget, CallReturn, Abandon, Reopen
<1>3. ASSUME ReturnLock(t) PROVE \A g : g \in open' <=> Owns(g)'
  <2>1. pc[t] = "rlock" /\ (ctr[t].ctr.duplicate => ctr[t] \in Range(cloneable))
    BY <1>3 DEF ReturnLock, Kinds, HasId
  <2> QED BY <1>3, <2>1, ThreadOwns DEF ReturnLock
<1>4. ASSUME ReturnPush(t) PROVE \A g : g \in open' <=> Owns(g)'
  <2>1. pc[t] = "rpush" /\ Range(available') = Range(available) \cup {ctr[t]}
    BY <1>4, PushRange DEF ReturnPush, PoolTypeOK, Kinds, HasId
  <2>2. Holds(t) /\ ~Holds(t)' /\ \A u \in Thread \ {t} : Holds(u)' <=> Holds(u)
    BY <1>4 DEF ReturnPush, Woken
  <2>3. UNCHANGED <<cloneable, ctr, hid, open>>
    BY <1>4 DEF ReturnPush
  <2> HIDE DEF Holds
  <2> SUFFICES ASSUME NEW g PROVE Owns(g)' <=> Owns(g)
    BY <2>3
  <2> QED BY <2>1, <2>2, <2>3 DEF Owns
<1>5. ASSUME GetScan(t), ~stop[t], Suitable(available, t) # {}
      PROVE  \A g : g \in open' <=> Owns(g)'
  <2> DEFINE i == Min(Suitable(available, t))
             c == available[i]
  <2>1. i \in 1..Len(available)
    BY <1>5, FirstSuitable
  <2>2. Hand(t, c) /\ available' = vec_remove(available, i) /\ UNCHANGED <<cloneable, hid, open>>
    BY <1>5 DEF GetScan
  <2>3. available \in Seq(Controller) /\ DistinctIds(available)
    BY DEF PoolTypeOK, IInv, Apart
  <2>4. /\ Range(available') \subseteq Range(available) /\ c \in Range(available)
        /\ Range(available) \subseteq Range(available') \cup {c}
    BY <2>1, <2>2, <2>3, RemoveController
  <2> HIDE DEF i, c
  <2>5. /\ ~Holds(t) /\ Holds(t)' /\ ctr'[t] = c
        /\ \A u \in Thread \ {t} : (Holds(u)' <=> Holds(u)) /\ ctr'[u] = ctr[u]
    BY <1>5, <2>2 DEF GetScan, Hand
  <2> HIDE DEF Holds
  <2> SUFFICES ASSUME NEW g PROVE Owns(g)' <=> Owns(g)
    BY <2>2
  <2>6. ASSUME Owns(g) PROVE Owns(g)'
    BY <2>2, <2>4, <2>5, <2>6 DEF Owns
  <2>7. ASSUME Owns(g)' PROVE Owns(g)
    BY <2>2, <2>4, <2>5, <2>7 DEF Owns
  <2> QED BY <2>6, <2>7
<1>6. ASSUME GetScan(t), ~stop[t], Suitable(available, t) = {}, Suitable(cloneable, t) # {}
      PROVE  \A g : g \in open' <=> Owns(g)'
  <2> DEFINE i == Min(Suitable(cloneable, t))
  <2>1. i \in 1..Len(cloneable)
    BY <1>6, FirstSuitable
  <2>2. Hand(t, cloneable[i]) /\ UNCHANGED <<available, cloneable, hid, open>> /\ ~Holds(t)
    BY <1>6 DEF GetScan
  <2> HIDE DEF i
  <2>3. cloneable[i] \in Range(cloneable)
    BY <2>1 DEF PoolTypeOK, Range
  <2> QED BY <2>2, <2>3, ThreadOwns DEF Hand
<1>7. ASSUME GetScan(t),
             stop[t] \/ (Suitable(available, t) = {} /\ Suitable(cloneable, t) = {})
      PROVE  \A g : g \in open' <=> Owns(g)'
  BY <1>7, ThreadOwns DEF GetScan
<1>8. ASSUME ForgetClose(t) PROVE \A g : g \in open' <=> Owns(g)'
  <2>1. pc[t] = "fclose" /\ HasId(t) /\ UNCHANGED <<available, cloneable, ctr, hid>>
    BY <1>8 DEF ForgetClose, HasId
  <2>2. CASE UNCHANGED <<open, pc>>
    BY <2>1, <2>2, ThreadOwns
  <2>3. CASE open' = open \ {ctr[t].gen} /\ pc' = [pc EXCEPT ![t] = "fremove"]
    <3>1. ~ctr[t].ctr.duplicate
      <4>1. ASSUME ctr[t].ctr.duplicate PROVE FALSE
        <5>1. ctr[t] \in Range(cloneable)
          BY <2>1, <4>1 DEF Kinds
        <5>2. Len(cloneable) > 0
          BY <5>1 DEF Range, PoolTypeOK
        <5> QED BY <1>8, <2>3, <4>1, <5>2 DEF ForgetClose
      <4> QED BY <4>1
    <3>2. /\ \A c \in Range(available) \cup Range(cloneable) : c.gen # ctr[t].gen
          /\ \A u \in Thread \ {t} : HasId(u) => ctr[u].gen # ctr[t].gen
          /\ hid.pc = "publish" => hid.dev.gen # ctr[t].gen
      BY <2>1, <3>1, OwnDescriptors
    <3>3. Holds(t) /\ ~Holds(t)' /\ \A u \in Thread \ {t} : Holds(u)' <=> Holds(u)
      BY <2>1, <2>3
    <3>4. \A u \in Thread : Holds(u) => HasId(u)
      BY DEF HasId
    <3> HIDE DEF Holds
    <3> SUFFICES ASSUME NEW g PROVE Owns(g)' <=> Owns(g) /\ g # ctr[t].gen
      BY <2>3
    <3> QED BY <2>1, <3>2, <3>3, <3>4 DEF Owns
  <2> QED BY <1>8, <2>2, <2>3 DEF ForgetClose
<1> QED BY <1>1, <1>2, <1>3, <1>4, <1>5, <1>6, <1>7, <1>8 DEF PoolCall

\* A step that leaves alone what descriptors are counted by.
LEMMA SameOwners ==
    ASSUME \A g : g \in open <=> Owns(g),
           UNCHANGED <<open, available, cloneable, ctr>>,
           \A t \in Thread : Holds(t)' <=> Holds(t),
           hid.pc # "publish", hid'.pc # "publish"
    PROVE  \A g : g \in open' <=> Owns(g)'
<1> SUFFICES ASSUME NEW g PROVE Owns(g)' <=> Owns(g)
  OBVIOUS
<1> QED BY DEF Owns

\* The hid thread: a device it has set up is open and its own until it is published.
LEMMA PollOwns ==
    ASSUME IInv, \A g : g \in open <=> Owns(g), PollStep
    PROVE  \A g : g \in open' <=> Owns(g)'
<1>0. TypeOK
  BY DEF IInv
<1> USE <1>0 DEF env, pool, local, Running, TypeOK, HidTypeOK
<1>1. ASSUME PollStart \/ PollEnd \/ PollCheckKnown \/ (\E e \in Event : PollOpen(e))
      PROVE  \A g : g \in open' <=> Owns(g)'
  <2>1. UNCHANGED <<open, available, cloneable, ctr, pc>>
    BY <1>1 DEF PollStart, PollEnd, PollCheckKnown, PollOpen
  <2>2. hid.pc # "publish" /\ hid'.pc # "publish"
    <3>1. CASE PollStart \/ PollEnd
      BY <3>1 DEF PollStart, PollEnd
    <3>2. CASE PollCheckKnown
      BY <3>2 DEF PollCheckKnown, Skip
    <3>3. CASE \E e \in Event : PollOpen(e)
      BY <3>3 DEF PollOpen
    <3> QED BY <1>1, <3>1, <3>2, <3>3
  <2> QED BY <2>1, <2>2, SameOwners DEF Holds
<1>2. ASSUME PollFilter \/ PollHidraw PROVE \A g : g \in open' <=> Owns(g)'
  <2>1. UNCHANGED <<open, available, cloneable, ctr, pc>>
    BY <1>2 DEF PollFilter, PollHidraw
  <2>2. ASSUME Skip \/ UNCHANGED hid \/ (\E k, named : Accept(k, named)),
               hid.pc # "publish"
        PROVE  hid'.pc # "publish"
    BY <2>2 DEF Skip, Accept
  <2>3. hid.pc # "publish" /\ hid'.pc # "publish"
    <3>1. CASE PollFilter
      BY <2>2, <3>1 DEF PollFilter
    <3>2. CASE PollHidraw
      BY <2>2, <3>2 DEF PollHidraw
    <3> QED BY <1>2, <3>1, <3>2
  <2> QED BY <2>1, <2>3, SameOwners DEF Holds
<1>3. ASSUME PollPushKnown PROVE \A g : g \in open' <=> Owns(g)'
  <2>1. /\ hid.pc # "publish" /\ hid'.pc = "publish" /\ hid'.dev = hid.dev
        /\ open' = open \cup {hid.dev.gen} /\ UNCHANGED <<available, cloneable, ctr, pc>>
    BY <1>3 DEF PollPushKnown
  <2> SUFFICES ASSUME NEW g PROVE Owns(g)' <=> Owns(g) \/ g = hid.dev.gen
    BY <2>1
  <2> QED BY <2>1 DEF Owns, Holds
<1>4. ASSUME PollPublish PROVE \A g : g \in open' <=> Owns(g)'
  <2>1. hid.dev \in Controller /\ hid.pc = "publish" /\ hid'.pc = "next"
    BY <1>4 DEF PollPublish
  <2>2. Range(available') \cup Range(cloneable')
           = Range(available) \cup Range(cloneable) \cup {hid.dev}
    <3>1. CASE hid.dev.ctr.duplicate
      <4>1. Range(cloneable') = Range(cloneable) \cup {hid.dev} /\ UNCHANGED available
        BY <1>4, <2>1, <3>1, PushRange DEF PollPublish, PoolTypeOK
      <4> QED BY <4>1
    <3>2. CASE ~hid.dev.ctr.duplicate
      <4>1. Range(available') = Range(available) \cup {hid.dev} /\ UNCHANGED cloneable
        BY <1>4, <2>1, <3>2, PushRange DEF PollPublish, PoolTypeOK
      <4> QED BY <4>1
    <3> QED BY <3>1, <3>2
  <2>3. UNCHANGED <<ctr, open>> /\ \A t \in Thread : Holds(t)' <=> Holds(t)
    BY <1>4 DEF PollPublish, Woken, Holds, HoldPC, ThreadTypeOK
  <2> SUFFICES ASSUME NEW g PROVE Owns(g)' <=> Owns(g)
    BY <2>3
  <2> QED BY <2>1, <2>2, <2>3 DEF Owns
<1> QED BY <1>1, <1>2, <1>3, <1>4 DEF PollStep

\* The entry poll_devices looks at is closed when it leaves it.
LEMMA EventStep ==
    ASSUME TypeOK, [Next]_vars,
           hid.event => hid.pc \in {"filter", "check", "hidraw", "push_known"}
    PROVE  hid'.event => hid'.pc \in {"filter", "check", "hidraw", "push_known"}
<1> DEFINE Ok == hid'.event => hid'.pc \in {"filter", "check", "hidraw", "push_known"}
<1> USE DEF TypeOK, HidTypeOK
<1>1. ASSUME UNCHANGED hid PROVE Ok
  BY <1>1
<1>2. ASSUME PollStart \/ PollEnd \/ PollPushKnown \/ PollPublish PROVE Ok
  BY <1>2 DEF PollStart, PollEnd, PollPushKnown, PollPublish
<1>3. ASSUME NEW e \in Event, PollOpen(e) PROVE Ok
  BY <1>3 DEF PollOpen
<1>4. ASSUME Skip \/ (\E k, named : Accept(k, named)) PROVE Ok
  BY <1>4 DEF Skip, Accept
<1>5. ASSUME PollFilter PROVE Ok
  <2> HIDE DEF Ok
  <2> QED BY <1>1, <1>4, <1>5 DEF PollFilter
<1>6. ASSUME PollCheckKnown \/ PollHidraw PROVE Ok
  <2>1. CASE UNCHANGED hid \/ Skip
    BY <1>1, <1>4, <2>1
  <2>2. CASE \E l \in {"hidraw", "push_known"} : hid' = [hid EXCEPT !.pc = l]
    BY <2>2
  <2> HIDE DEF Ok
  <2> QED BY <1>6, <2>1, <2>2 DEF PollCheckKnown, PollHidraw
<1>7. ASSUME PollStep PROVE Ok
  <2> HIDE DEF Ok
  <2> QED BY <1>2, <1>3, <1>5, <1>6, <1>7 DEF PollStep
<1>8. ASSUME ~PollStep PROVE UNCHANGED hid
  BY <1>8 DEF Next, Kernel, Plug, Unplug, PoolCall, GetLock, GetScan, GetUnlock, ReturnLock,
              ReturnPush, ForgetLock, ForgetClose, ForgetRemove, GetSpurious, Caller, CallGet,
              CallForget, CallReturn, Abandon, Reopen, Close, Faulted, vars
<1> QED BY <1>1, <1>7, <1>8

\* What is open stays what somebody has a controller of.
LEMMA DescriptorsStep ==
    IInv /\ Origins /\ DescriptorsAccounted /\ [Next]_vars => DescriptorsAccounted'
<1> SUFFICES ASSUME IInv, Origins, DescriptorsAccounted, [Next]_vars
             PROVE  DescriptorsAccounted'
  OBVIOUS
<1>1. \A g : g \in open <=> Owns(g)
  BY Accounting DEF DescriptorsAccounted
<1>2. ASSUME UNCHANGED <<open, available, cloneable, ctr, pc, hid>>
      PROVE  \A g : g \in open' <=> Owns(g)'
  BY <1>1, <1>2 DEF Owns, Holds
<1>3. ASSUME Kernel \/ (\E set \in SUBSET Thread : Close(set)) \/ UNCHANGED vars
      PROVE  UNCHANGED <<open, available, cloneable, ctr, pc, hid>>
  BY <1>3 DEF Kernel, Plug, Unplug, Close, vars, pool, local
<1>4. \A g : g \in open' <=> Owns(g)'
  BY <1>1, <1>2, <1>3, PollOwns, CallsOwn DEF Next, Faulted
<1>5. (open = Owned)'
  <2>1. \A g : g \in Owned' <=> Owns(g)'
    BY DEF Owned, Owns
  <2> QED BY <1>4, <2>1
<1>6. hid'.event => hid'.pc \in {"filter", "check", "hidraw", "push_known"}
  BY EventStep DEF DescriptorsAccounted, IInv
<1> QED BY <1>5, <1>6 DEF DescriptorsAccounted

\* At the start nothing is open and nobody has anything.
LEMMA DescriptorsInitially == Init => DInv
<1> SUFFICES ASSUME Init PROVE DInv
  OBVIOUS
<1>1. IInv
  BY Initially
<1>2. Range(available) = {} /\ Range(cloneable) = {} /\ \A t \in Thread : ~HasId(t) /\ ~Holds(t)
  BY DEF Init, Range, HasId, Holds, HoldPC
<1>3. Kept = {} /\ Owned = {}
  BY <1>2 DEF Init, Kept, Owned
<1>4. Origins
  <2>1. 1..plugs = {}
    BY DEF Init
  <2> DEFINE none == [g \in 1..plugs |-> 0]
  <2>2. none \in [1..plugs -> Event]
    BY <2>1
  <2> HIDE DEF none
  <2>3. BornAt(none)
    BY <1>3 DEF Init, BornAt
  <2> QED BY <2>2, <2>3 DEF Origins
<1> QED BY <1>1, <1>3, <1>4 DEF Init, DInv, DescriptorsAccounted

\* Every step of the pool keeps the invariant.
LEMMA DescriptorsInductive == DInv /\ [Next]_vars => DInv'
  BY Inductive, OriginsStep, DescriptorsStep DEF DInv

-----------------------------------------------------------------------------
(* Theorems *)

\* The descriptors' part of the invariant, added to that of the vectors and the threads.
THEOREM DescriptorInvariance == Spec => []DInv
  BY DescriptorsInitially, DescriptorsInductive, PTL DEF Spec

\* What is open is what a vector, a thread or the hid thread has a controller of: no path
\* of hid.c leaks a descriptor or keeps a closed one.
THEOREM DescriptorsKept == Spec => []DescriptorsAccounted
<1>1. DInv => DescriptorsAccounted
  BY DEF DInv
<1> QED BY DescriptorInvariance, <1>1, PTL

==============================================================================
