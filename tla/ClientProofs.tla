----------------------------- MODULE ClientProofs -----------------------------
(***************************************************************************)
(* Proofs about the client: what it mirrors and where it replays reports,  *)
(* for every number of slots, shapes, connections and lines, every size of *)
(* the buffer that holds a message, and every cut TCP makes.               *)
(***************************************************************************)
EXTENDS Client, SetLemmas, SequenceTheorems

-----------------------------------------------------------------------------
(* The inductive invariant *)

DeviceInfo == [gen : Nat \ {0}, conn : Nat, shape : Shapes]

Message ==
    [tag : {"Info", "Report"}, slot : Slots, dev : DeviceInfo]
    \cup [tag : {"Destroy"}, slot : Slots]
    \cup Strays

Piece == [msg : Message, part : {1, 2}]

Types ==
    /\ device \in [Slots -> DeviceInfo \cup {NoDevice}]
    /\ announced \in [Slots -> DeviceInfo \cup {NoDevice}]
    /\ pipe \in Seq(Piece)
    /\ arrived \in 0..Len(pipe)
    /\ conn \in Nat /\ gen \in Nat

\* The turns of client_run: what poll found ready is still so, or the connection was lost
\* since; the client only connects when it was.
Turns ==
    /\ pc \in {"connect", "request", "poll", "discard"} => ready = {}
    /\ "socket" \in ready => arrived > 0 \/ sock = "closed"
    /\ pc = "connect" => sock # "up"
    /\ sock # "up" => announced = Nobody
    /\ sock = "none" => device = Nobody /\ arrived = 0

\* Everything is about the connection there is, also what is still on its way.
Current ==
    /\ \A s \in Slots : device[s] # NoDevice => device[s].conn = conn
    /\ \A s \in Slots : announced[s] # NoDevice => announced[s].conn = conn
    /\ \A i \in 1..Len(pipe) :
          LET m == pipe[i].msg IN
          m.tag \in {"Info", "Report"} /\ m.slot \in Slots => m.dev.conn = conn

\* Until bytes are thrown away the pipe is messages from their start, all of them whole
\* while the connection is up, and a report is about the device its slot then is for.
Whole ==
    ~lost =>
       /\ Len(pipe) > 0 => pipe[1].part = 1
       /\ \A i \in 1..(Len(pipe) - 1) : pipe[i].part # pipe[i + 1].part
       /\ sock = "up" /\ Len(pipe) > 0 => pipe[Len(pipe)].part = 2
       /\ \A i \in 1..Len(pipe) :
             LET m == pipe[i].msg IN
             pipe[i].part = 1 /\ m.tag = "Report" /\ m.slot \in Slots =>
                m.dev = InForce(pipe, device, i - 1, m.slot)

\* What was replayed was replayed over this connection or an earlier one.
Replayed ==
    replay # NoReplay =>
       /\ replay.report \in DeviceInfo /\ replay.to \in DeviceInfo
       /\ replay.report.conn <= conn

CInv == Types /\ Turns /\ Current /\ Whole /\ Replayed /\ Mirrors /\ ReplayedOnItsDevice

-----------------------------------------------------------------------------
(* What a sequence of pieces does to a slot *)

\* What a message about the device of a slot makes of it.
Effect(m) == IF m.tag = "Info" THEN m.dev ELSE NoDevice

\* Only the first n pieces count.
LEMMA InForceSame ==
    ASSUME NEW n \in Nat, NEW p, NEW q, NEW devs, NEW s, \A i \in 1..n : p[i] = q[i]
    PROVE  InForce(p, devs, n, s) = InForce(q, devs, n, s)
<1> DEFINE S == {i \in 1..n : Changes(p[i], s)}
<1>1. S = {i \in 1..n : Changes(q[i], s)}
  OBVIOUS
<1>2. CASE S = {}
  BY <1>1, <1>2 DEF InForce
<1>3. CASE S # {}
  <2>1. Max(S) \in 1..n
    BY <1>3, MaxIsGreatest
  <2>2. p[Max(S)] = q[Max(S)]
    BY <2>1
  <2> HIDE DEF S
  <2>3. InForce(p, devs, n, s) = Effect(p[Max(S)].msg)
    BY <1>3 DEF InForce, Effect, S
  <2>4. InForce(q, devs, n, s) = Effect(q[Max(S)].msg)
    BY <1>1, <1>3 DEF InForce, Effect
  <2> QED BY <2>2, <2>3, <2>4
<1> QED BY <1>2, <1>3

\* One piece more.
LEMMA InForceStep ==
    ASSUME NEW n \in Nat, NEW p, NEW devs, NEW s
    PROVE  InForce(p, devs, n + 1, s) =
              IF Changes(p[n + 1], s) THEN Effect(p[n + 1].msg) ELSE InForce(p, devs, n, s)
<1> DEFINE S == {i \in 1..n : Changes(p[i], s)}
           T == {i \in 1..(n + 1) : Changes(p[i], s)}
<1>1. CASE Changes(p[n + 1], s)
  <2>1. n + 1 \in T /\ n + 1 \in Nat /\ T \in SUBSET (1..(n + 1)) /\ T # {}
    BY <1>1
  <2> HIDE DEF T
  <2>2. Max(T) \in T /\ \A y \in T : y <= Max(T)
    BY <2>1, MaxIsGreatest
  <2>3. Max(T) = n + 1
    <3>1. Max(T) \in 1..(n + 1) /\ n + 1 <= Max(T)
      BY <2>1, <2>2
    <3> QED BY <3>1
  <2>4. InForce(p, devs, n + 1, s) = Effect(p[Max(T)].msg)
    BY <2>1 DEF InForce, Effect, T
  <2> QED BY <1>1, <2>3, <2>4
<1>2. CASE ~Changes(p[n + 1], s)
  <2>1. S = T
    <3>1. \A i \in 1..(n + 1) : i \in 1..n \/ i = n + 1
      OBVIOUS
    <3> QED BY <3>1, <1>2
  <2> QED BY <2>1, <1>2 DEF InForce
<1> QED BY <1>1, <1>2

\* No piece at all.
LEMMA InForceNone ==
    ASSUME NEW p, NEW devs, NEW s
    PROVE  InForce(p, devs, 0, s) = devs[s]
BY DEF InForce

\* The first message is taken off the pieces and handled.
LEMMA InForceShift ==
    ASSUME NEW n \in Nat, NEW p, NEW q, NEW old, NEW new, NEW s,
           \A i \in 1..n : q[i] = p[i + 2],
           ~Changes(p[2], s),
           new[s] = IF Changes(p[1], s) THEN Effect(p[1].msg) ELSE old[s]
    PROVE  InForce(q, new, n, s) = InForce(p, old, n + 2, s)
<1> DEFINE S == {i \in 1..n : Changes(q[i], s)}
           T == {i \in 1..(n + 2) : Changes(p[i], s)}
<1>1. \A i \in 1..(n + 2) : i = 1 \/ i = 2 \/ (i - 2 \in 1..n /\ (i - 2) + 2 = i)
  OBVIOUS
<1>2. \A i \in S : i + 2 \in T
  OBVIOUS
<1>3. \A i \in T : i = 1 \/ i - 2 \in S
  BY <1>1
<1>4. S \in SUBSET (1..n) /\ T \in SUBSET (1..(n + 2)) /\ n + 2 \in Nat
  OBVIOUS
<1>5. CASE S # {}
  <2>1. T # {}
    BY <1>5, <1>2
  <2>2. /\ InForce(q, new, n, s) = Effect(q[Max(S)].msg)
        /\ InForce(p, old, n + 2, s) = Effect(p[Max(T)].msg)
    BY <1>5, <2>1 DEF InForce, Effect
  <2> HIDE DEF S, T
  <2>3. Max(S) \in S /\ \A y \in S : y <= Max(S)
    BY <1>4, <1>5, MaxIsGreatest
  <2>4. Max(T) \in T /\ \A y \in T : y <= Max(T)
    BY <1>4, <2>1, MaxIsGreatest
  <2>5. Max(T) = Max(S) + 2
    <3>1. Max(S) \in 1..n /\ Max(T) \in 1..(n + 2)
      BY <2>3, <2>4, <1>4
    <3>2. Max(S) + 2 <= Max(T)
      BY <2>3, <2>4, <1>2
    <3>3. Max(T) = 1 \/ Max(T) - 2 <= Max(S)
      BY <2>3, <2>4, <1>3
    <3> QED BY <3>1, <3>2, <3>3
  <2>6. q[Max(S)] = p[Max(T)]
    BY <2>5, <2>3, <1>4
  <2> QED BY <2>2, <2>6
<1>6. CASE S = {}
  <2>1. \A i \in T : i = 1
    BY <1>6, <1>3
  <2>2. InForce(q, new, n, s) = new[s]
    BY <1>6 DEF InForce
  <2>3. CASE Changes(p[1], s)
    <3>1. T = {1}
      BY <2>1, <2>3
    <3>2. Max(T) = 1
      BY <3>1, <1>4, MaxIsGreatest
    <3>3. InForce(p, old, n + 2, s) = Effect(p[Max(T)].msg)
      BY <3>1 DEF InForce, Effect
    <3> QED BY <2>2, <2>3, <3>2, <3>3
  <2>4. CASE ~Changes(p[1], s)
    <3>1. T = {}
      BY <2>1, <2>4
    <3> QED BY <2>2, <2>4, <3>1 DEF InForce
  <2> QED BY <2>3, <2>4
<1> QED BY <1>5, <1>6

\* A message about a device of a slot carries the device: no stray message is one.
LEMMA MessageDevice ==
    ASSUME NEW m \in Message, m.tag \in {"Info", "Report"}, m.slot \in Slots
    PROVE  m.dev \in DeviceInfo
<1>1. CASE m \in [tag : {"Info", "Report"}, slot : Slots, dev : DeviceInfo]
  BY <1>1
<1>2. CASE m \in [tag : {"Destroy"}, slot : Slots]
  BY <1>2
<1>3. CASE m \in Strays
  BY <1>3, ClientAssumption
<1> QED BY <1>1, <1>2, <1>3 DEF Message

\* A message is written behind the others.
LEMMA Written ==
    ASSUME NEW p \in Seq(Piece), NEW m \in Message
    PROVE  LET q == p \o Pieces(m)
           IN  /\ q \in Seq(Piece)
               /\ Len(q) = Len(p) + 2
               /\ \A i \in 1..Len(p) : q[i] = p[i]
               /\ q[Len(p) + 1] = [msg |-> m, part |-> 1]
               /\ q[Len(p) + 2] = [msg |-> m, part |-> 2]
<1>1. Pieces(m) \in Seq(Piece) /\ Len(Pieces(m)) = 2
  BY DEF Pieces, Piece
<1>2. Pieces(m)[1] = [msg |-> m, part |-> 1] /\ Pieces(m)[2] = [msg |-> m, part |-> 2]
  BY DEF Pieces
<1> DEFINE w == Pieces(m)
           q == p \o w
<1> HIDE DEF w
<1>3. /\ q \in Seq(Piece) /\ Len(q) = Len(p) + Len(w)
      /\ \A i \in 1..(Len(p) + Len(w)) : q[i] = IF i <= Len(p) THEN p[i] ELSE w[i - Len(p)]
  BY <1>1, ConcatProperties DEF w
<1>4. Len(p) \in Nat /\ Len(w) = 2
  BY <1>1 DEF w
<1>5. (Len(p) + 1) - Len(p) = 1 /\ (Len(p) + 2) - Len(p) = 2
  BY <1>4
<1>6. q[Len(p) + 1] = w[1] /\ q[Len(p) + 2] = w[2]
  BY <1>3, <1>4, <1>5
<1>7. \A i \in 1..Len(p) : q[i] = p[i]
  BY <1>3, <1>4
<1>8. Len(q) = Len(p) + 2
  BY <1>3, <1>4
<1> QED BY <1>2, <1>3, <1>6, <1>7, <1>8 DEF w

\* What it does to a slot.
LEMMA InForceWritten ==
    ASSUME NEW p \in Seq(Piece), NEW m \in Message, NEW devs, NEW s
    PROVE  InForce(p \o Pieces(m), devs, Len(p) + 2, s) =
              IF Changes([msg |-> m, part |-> 1], s) THEN Effect(m)
              ELSE InForce(p, devs, Len(p), s)
<1> DEFINE q == p \o Pieces(m)
<1>1. /\ \A i \in 1..Len(p) : p[i] = q[i]
      /\ q[Len(p) + 1] = [msg |-> m, part |-> 1]
      /\ q[Len(p) + 2] = [msg |-> m, part |-> 2]
      /\ Len(p) \in Nat
  BY Written
<1> HIDE DEF q
<1>2. InForce(q, devs, (Len(p) + 1) + 1, s) = InForce(q, devs, Len(p) + 1, s)
  <2>1. q[(Len(p) + 1) + 1] = [msg |-> m, part |-> 2]
    BY <1>1
  <2>2. ~Changes(q[(Len(p) + 1) + 1], s)
    BY <2>1 DEF Changes
  <2> QED BY <1>1, <2>2, InForceStep
<1>3. InForce(q, devs, Len(p) + 1, s) =
         IF Changes([msg |-> m, part |-> 1], s) THEN Effect(m) ELSE InForce(q, devs, Len(p), s)
  <2>1. q[Len(p) + 1].msg = m
    BY <1>1
  <2> QED BY <1>1, <2>1, InForceStep
<1>4. InForce(q, devs, Len(p), s) = InForce(p, devs, Len(p), s)
  BY <1>1, InForceSame
<1>5. (Len(p) + 1) + 1 = Len(p) + 2
  BY <1>1
<1> QED BY <1>2, <1>3, <1>4, <1>5 DEF q

-----------------------------------------------------------------------------
(* The steps *)

\* NoDevice is no announcement.
LEMMA NoDeviceApart == NoDevice \notin DeviceInfo
<1>1. NoDevice.gen = 0
  BY DEF NoDevice
<1>2. \A d \in DeviceInfo : d.gen # 0
  BY DEF DeviceInfo
<1> QED BY <1>1, <1>2

\* What a step keeps that touches neither the devices nor the pieces.
LEMMA Quiet ==
    ASSUME CInv, UNCHANGED <<device, announced, pipe, conn, gen, sock, lost>>
    PROVE  Current' /\ Whole' /\ Mirrors'
<1>1. Current'
  BY DEF CInv, Current
<1>2. Whole'
  BY DEF CInv, Whole
<1>3. Mirrors'
  BY DEF CInv, Mirrors
<1> QED BY <1>1, <1>2, <1>3

\* A message is written that says what becomes of its slot; a report is about the device
\* that is announced.
LEMMA WriteStep ==
    ASSUME CInv, NEW m \in Message, Write(m),
           announced' \in [Slots -> DeviceInfo \cup {NoDevice}], gen' \in Nat,
           \A s \in Slots : announced'[s] =
              IF Changes([msg |-> m, part |-> 1], s) THEN Effect(m) ELSE announced[s],
           m.tag \in {"Info", "Report"} /\ m.slot \in Slots => m.dev.conn = conn,
           m.tag = "Report" /\ m.slot \in Slots => m.dev = announced[m.slot]
    PROVE  CInv'
<1> DEFINE n == Len(pipe)
<1>1. /\ pipe \in Seq(Piece) /\ n \in Nat /\ arrived \in 0..n
      /\ pipe' = pipe \o Pieces(m)
      /\ sock = "up"
      /\ UNCHANGED <<pc, device, ready, replay, sock, conn, arrived, lost>>
  BY DEF CInv, Types, Write, client
<1>2. /\ pipe' \in Seq(Piece)
      /\ Len(pipe') = n + 2
      /\ \A i \in 1..n : pipe'[i] = pipe[i]
      /\ pipe'[n + 1] = [msg |-> m, part |-> 1]
      /\ pipe'[n + 2] = [msg |-> m, part |-> 2]
  BY <1>1, Written
<1>3. Types'
  <2>1. arrived' \in 0..Len(pipe')
    BY <1>1, <1>2
  <2> QED BY <1>1, <1>2, <2>1 DEF CInv, Types
<1>4. Turns'
  BY <1>1 DEF CInv, Turns
<1>5. Current'
  <2>1. ASSUME NEW s \in Slots, announced'[s] # NoDevice PROVE announced'[s].conn = conn'
    <3>1. CASE Changes([msg |-> m, part |-> 1], s)
      <4>1. m.tag = "Info" /\ m.slot = s /\ announced'[s] = m.dev
        BY <2>1, <3>1 DEF Changes, Effect
      <4> QED BY <4>1, <1>1
    <3>2. CASE ~Changes([msg |-> m, part |-> 1], s)
      BY <2>1, <3>2, <1>1 DEF CInv, Current
    <3> QED BY <3>1, <3>2
  <2>2. ASSUME NEW i \in 1..Len(pipe'),
               pipe'[i].msg.tag \in {"Info", "Report"}, pipe'[i].msg.slot \in Slots
        PROVE  pipe'[i].msg.dev.conn = conn'
    <3>1. i \in 1..n \/ i = n + 1 \/ i = n + 2
      BY <1>1, <1>2, SMTT(40)
    <3>2. CASE i \in 1..n
      BY <3>2, <2>2, <1>1, <1>2 DEF CInv, Current
    <3>3. CASE i = n + 1 \/ i = n + 2
      <4>1. pipe'[i].msg = m
        BY <3>3, <1>2
      <4> QED BY <4>1, <2>2, <1>1
    <3> QED BY <3>1, <3>2, <3>3
  <2>3. \A s \in Slots : device'[s] # NoDevice => device'[s].conn = conn'
    BY <1>1 DEF CInv, Current
  <2> QED BY <2>1, <2>2, <2>3 DEF Current
<1>6. ASSUME ~lost', NEW s \in Slots PROVE InForce(pipe', device', Len(pipe'), s) = announced'[s]
  <2>1. InForce(pipe, device, n, s) = announced[s]
    BY <1>1, <1>6 DEF CInv, Mirrors
  <2>2. InForce(pipe', device', n + 2, s) =
           IF Changes([msg |-> m, part |-> 1], s) THEN Effect(m)
           ELSE InForce(pipe, device, n, s)
    BY <1>1, InForceWritten
  <2> QED BY <2>1, <2>2, <1>2
<1>7. Mirrors'
  BY <1>6 DEF Mirrors
<1>8. Whole'
  <2> SUFFICES ASSUME ~lost
               PROVE  /\ Len(pipe') > 0 => pipe'[1].part = 1
                      /\ \A i \in 1..(Len(pipe') - 1) : pipe'[i].part # pipe'[i + 1].part
                      /\ sock' = "up" /\ Len(pipe') > 0 => pipe'[Len(pipe')].part = 2
                      /\ \A i \in 1..Len(pipe') :
                            pipe'[i].part = 1 /\ pipe'[i].msg.tag = "Report"
                               /\ pipe'[i].msg.slot \in Slots =>
                            pipe'[i].msg.dev = InForce(pipe', device', i - 1, pipe'[i].msg.slot)
    BY <1>1 DEF Whole
  <2>1. /\ n > 0 => pipe[1].part = 1 /\ pipe[n].part = 2
        /\ \A i \in 1..(n - 1) : pipe[i].part # pipe[i + 1].part
    BY <1>1 DEF CInv, Whole
  <2>2. pipe'[n + 1].part = 1 /\ pipe'[n + 2].part = 2
    BY <1>2
  <2>3. Len(pipe') > 0 => pipe'[1].part = 1
    <3>1. CASE n = 0
      BY <3>1, <2>2, <1>1
    <3>2. CASE n > 0
      <4>1. pipe'[1] = pipe[1]
        BY <3>2, <1>1, <1>2
      <4> QED BY <3>2, <4>1, <2>1
    <3> QED BY <3>1, <3>2, <1>1
  <2>4. ASSUME NEW i \in 1..(Len(pipe') - 1) PROVE pipe'[i].part # pipe'[i + 1].part
    <3>1. i \in 1..(n - 1) \/ (i = n /\ n > 0) \/ i = n + 1
      BY <1>1, <1>2
    <3>2. CASE i \in 1..(n - 1)
      <4>1. pipe'[i] = pipe[i] /\ pipe'[i + 1] = pipe[i + 1]
        BY <3>2, <1>1, <1>2
      <4> QED BY <3>2, <4>1, <2>1
    <3>3. CASE i = n /\ n > 0
      <4>1. pipe'[i] = pipe[n] /\ pipe'[i + 1].part = 1
        BY <3>3, <1>1, <1>2, <2>2
      <4> QED BY <3>3, <4>1, <2>1
    <3>4. CASE i = n + 1
      <4>1. i + 1 = n + 2
        BY <3>4, <1>1
      <4> QED BY <3>4, <4>1, <2>2
    <3> QED BY <3>1, <3>2, <3>3, <3>4
  <2>5. pipe'[Len(pipe')].part = 2
    BY <1>2, <2>2
  <2>6. ASSUME NEW i \in 1..Len(pipe'),
               pipe'[i].part = 1, pipe'[i].msg.tag = "Report", pipe'[i].msg.slot \in Slots
        PROVE  pipe'[i].msg.dev = InForce(pipe', device', i - 1, pipe'[i].msg.slot)
    <3> DEFINE s == pipe'[i].msg.slot
    <3>1. i \in 1..n \/ i = n + 1 \/ i = n + 2
      BY <1>1, <1>2
    <3>2. ASSUME i \in 1..(n + 1)
          PROVE  InForce(pipe', device', i - 1, s) = InForce(pipe, device, i - 1, s)
      <4>1. i - 1 \in Nat /\ \A j \in 1..(i - 1) : pipe'[j] = pipe[j]
        BY <3>2, <1>1, <1>2
      <4> HIDE DEF s
      <4>2. InForce(pipe', device', i - 1, s) = InForce(pipe, device', i - 1, s)
        BY <4>1, InForceSame
      <4> QED BY <4>2, <1>1
    <3>3. CASE i \in 1..n
      <4>1. pipe'[i] = pipe[i] /\ i \in 1..(n + 1)
        BY <3>3, <1>1, <1>2
      <4>2. pipe[i].msg.dev = InForce(pipe, device, i - 1, pipe[i].msg.slot)
        BY <3>3, <4>1, <2>6, <1>1 DEF CInv, Whole
      <4> QED BY <4>1, <4>2, <3>2
    <3>4. CASE i = n + 1
      <4>1. pipe'[i].msg = m /\ i - 1 = n /\ i \in 1..(n + 1)
        BY <3>4, <1>1, <1>2
      <4>2. m.dev = announced[m.slot] /\ s = m.slot
        BY <4>1, <2>6
      <4>3. InForce(pipe, device, n, m.slot) = announced[m.slot]
        BY <1>1, <4>1, <2>6 DEF CInv, Mirrors
      <4> QED BY <4>1, <4>2, <4>3, <3>2
    <3>5. CASE i = n + 2
      BY <3>5, <2>2, <2>6
    <3> QED BY <3>1, <3>3, <3>4, <3>5
  <2> QED BY <2>3, <2>4, <2>5, <2>6
<1>9. Replayed' /\ ReplayedOnItsDevice'
  BY <1>1 DEF CInv, Replayed, ReplayedOnItsDevice
<1> QED BY <1>3, <1>4, <1>5, <1>7, <1>8, <1>9 DEF CInv

\* The server announces a device, reports on it or takes it back, or says something else.
LEMMA ServerSteps ==
    ASSUME CInv,
           \/ \E s \in Slots : (\E shape \in Shapes : Announce(s, shape)) \/ Report(s) \/ Withdraw(s)
           \/ \E m \in Strays : Stray(m)
    PROVE  CInv'
<1>1. /\ announced \in [Slots -> DeviceInfo \cup {NoDevice}]
      /\ conn \in Nat /\ gen \in Nat
  BY DEF CInv, Types
<1>2. ASSUME NEW s \in Slots, NEW shape \in Shapes, Announce(s, shape) PROVE CInv'
  <2> DEFINE d == [gen |-> gen + 1, conn |-> conn, shape |-> shape]
             m == [tag |-> "Info", slot |-> s, dev |-> d]
  <2>1. d \in DeviceInfo /\ d.conn = conn
    BY <1>1 DEF DeviceInfo
  <2> HIDE DEF d
  <2>2. m \in Message /\ m.tag = "Info" /\ m.slot = s /\ m.dev = d
    BY <2>1 DEF Message
  <2>3. gen' \in Nat /\ announced' = [announced EXCEPT ![s] = d] /\ Write(m)
    BY <1>1, <1>2 DEF Announce, d
  <2> HIDE DEF m
  <2>4. announced' \in [Slots -> DeviceInfo \cup {NoDevice}]
    BY <1>1, <2>1, <2>3
  <2>5. \A x \in Slots : announced'[x] =
           IF Changes([msg |-> m, part |-> 1], x) THEN Effect(m) ELSE announced[x]
    BY <1>1, <2>2, <2>3 DEF Changes, Effect
  <2> QED BY <2>1, <2>2, <2>3, <2>4, <2>5, WriteStep
<1>3. ASSUME NEW s \in Slots, Report(s) PROVE CInv'
  <2> DEFINE m == [tag |-> "Report", slot |-> s, dev |-> announced[s]]
  <2>1. announced[s] \in DeviceInfo /\ announced[s].conn = conn
    BY <1>1, <1>3 DEF Report, CInv, Current
  <2>2. m \in Message /\ m.tag = "Report" /\ m.slot = s /\ m.dev = announced[s]
    BY <2>1 DEF Message
  <2>3. UNCHANGED <<announced, gen>> /\ Write(m)
    BY <1>3 DEF Report
  <2> HIDE DEF m
  <2>4. \A x \in Slots : announced'[x] =
           IF Changes([msg |-> m, part |-> 1], x) THEN Effect(m) ELSE announced[x]
    BY <2>2, <2>3 DEF Changes
  <2> QED BY <1>1, <2>1, <2>2, <2>3, <2>4, WriteStep
<1>4. ASSUME NEW s \in Slots, Withdraw(s) PROVE CInv'
  <2> DEFINE m == [tag |-> "Destroy", slot |-> s]
  <2>1. m \in Message /\ m.tag = "Destroy" /\ m.slot = s
    BY DEF Message
  <2>2. gen' = gen /\ announced' = [announced EXCEPT ![s] = NoDevice] /\ Write(m)
    BY <1>4 DEF Withdraw
  <2> HIDE DEF m
  <2>3. announced' \in [Slots -> DeviceInfo \cup {NoDevice}]
    BY <1>1, <2>2
  <2>4. \A x \in Slots : announced'[x] =
           IF Changes([msg |-> m, part |-> 1], x) THEN Effect(m) ELSE announced[x]
    BY <1>1, <2>1, <2>2 DEF Changes, Effect
  <2> QED BY <1>1, <2>1, <2>2, <2>3, <2>4, WriteStep
<1>5. ASSUME NEW m \in Strays, Stray(m) PROVE CInv'
  <2>1. m \in Message /\ (m.tag = "Request" \/ m.slot \notin Slots)
    BY ClientAssumption DEF Message
  <2>2. UNCHANGED <<announced, gen>> /\ Write(m)
    BY <1>5 DEF Stray
  <2>3. \A x \in Slots : announced'[x] =
           IF Changes([msg |-> m, part |-> 1], x) THEN Effect(m) ELSE announced[x]
    BY <2>1, <2>2 DEF Changes
  <2> QED BY <1>1, <2>1, <2>2, <2>3, WriteStep
<1> QED BY <1>2, <1>3, <1>4, <1>5

\* Steps of the network, of other programs and of the client that leave the devices and
\* the pieces alone.
LEMMA QuietSteps ==
    ASSUME CInv,
           \/ Arrive \/ Return \/ WriterLeaves \/ \E x \in Lines : WriteLine(x)
           \/ SendRequest \/ Poll \/ FifoTurn
    PROVE  CInv'
<1>1. UNCHANGED <<device, announced, pipe, conn, gen, sock, lost>>
  BY DEF Arrive, Return, WriterLeaves, WriteLine, SendRequest, Poll, FifoTurn, client, network
<1>2. Current' /\ Whole' /\ Mirrors'
  BY <1>1, Quiet
<1>3. Types'
  <2>1. arrived' \in 0..Len(pipe)
    <3>1. arrived \in 0..Len(pipe) /\ Len(pipe) \in Nat
      BY DEF CInv, Types
    <3> QED BY <3>1 DEF Arrive, Return, WriterLeaves, WriteLine, SendRequest, Poll, FifoTurn,
                         client, network
  <2> QED BY <1>1, <2>1 DEF CInv, Types
<1>4. Turns'
  <2> USE DEF CInv, Turns
  <2>1. CASE Arrive
    <3>1. arrived \in Nat
      BY DEF Types
    <3> QED BY <2>1, <3>1 DEF Arrive, client
  <2>2. CASE Return \/ WriterLeaves \/ \E x \in Lines : WriteLine(x)
    BY <2>2 DEF Return, WriterLeaves, WriteLine, client, network
  <2>3. CASE SendRequest
    BY <2>3 DEF SendRequest, send
  <2>4. CASE Poll
    BY <2>4 DEF Poll, Ready, network
  <2>5. CASE FifoTurn
    BY <2>5 DEF FifoTurn, open_fifo, send, network
  <2> QED BY <2>1, <2>2, <2>3, <2>4, <2>5
<1>5. Replayed' /\ ReplayedOnItsDevice'
  <2>1. replay' = replay \/ replay' = NoReplay
    BY DEF Arrive, Return, WriterLeaves, WriteLine, SendRequest, Poll, FifoTurn, client, network
  <2> QED BY <1>1, <2>1 DEF CInv, Replayed, ReplayedOnItsDevice
<1> QED BY <1>2, <1>3, <1>4, <1>5 DEF CInv

\* The pieces up to n of a sequence.
LEMMA Prefix ==
    ASSUME NEW p \in Seq(Piece), NEW n \in 0..Len(p)
    PROVE  /\ SubSeq(p, 1, n) \in Seq(Piece)
           /\ Len(SubSeq(p, 1, n)) = n
           /\ \A i \in 1..n : SubSeq(p, 1, n)[i] = p[i]
<1>1. \A i \in 1..n : p[i] \in Piece
  OBVIOUS
<1>2. /\ SubSeq(p, 1, n) \in Seq(Piece)
      /\ Len(SubSeq(p, 1, n)) = IF 1 <= n THEN n - 1 + 1 ELSE 0
      /\ \A i \in 1..(n - 1 + 1) : SubSeq(p, 1, n)[i] = p[1 + i - 1]
  BY <1>1, SubSeqProperties
<1>3. n - 1 + 1 = n /\ \A i \in 1..n : 1 + i - 1 = i
  OBVIOUS
<1> QED BY <1>2, <1>3

\* The pieces of a sequence behind the first n.
LEMMA Suffix ==
    ASSUME NEW p \in Seq(Piece), NEW n \in 0..Len(p)
    PROVE  /\ SubSeq(p, n + 1, Len(p)) \in Seq(Piece)
           /\ Len(SubSeq(p, n + 1, Len(p))) = Len(p) - n
           /\ \A i \in 1..(Len(p) - n) : SubSeq(p, n + 1, Len(p))[i] = p[i + n]
<1> DEFINE l == Len(p)
<1>1. l \in Nat /\ n \in Nat /\ n + 1 \in Int
  OBVIOUS
<1>2. \A i \in (n + 1)..l : p[i] \in Piece
  OBVIOUS
<1> HIDE DEF l
<1>3. /\ SubSeq(p, n + 1, l) \in Seq(Piece)
      /\ Len(SubSeq(p, n + 1, l)) = IF n + 1 <= l THEN l - (n + 1) + 1 ELSE 0
      /\ \A i \in 1..(l - (n + 1) + 1) : SubSeq(p, n + 1, l)[i] = p[n + 1 + i - 1]
  BY <1>1, <1>2, SubSeqProperties
<1>4. n <= l
  BY DEF l
<1>5. /\ l - (n + 1) + 1 = l - n /\ (n + 1 <= l \/ l - n = 0)
      /\ \A i \in 1..(l - n) : n + 1 + i - 1 = i + n
  BY <1>1, <1>4
<1>6. \A i \in 1..(l - n) : SubSeq(p, n + 1, l)[i] = p[i + n]
  BY <1>3, <1>5
<1>7. Len(SubSeq(p, n + 1, l)) = l - n
  BY <1>3, <1>5
<1> QED BY <1>3, <1>6, <1>7 DEF l

\* The connection ends: a prefix of the pieces is left.
LEMMA BreakStep == ASSUME CInv, Break PROVE CInv'
<1>0. /\ pipe \in Seq(Piece) /\ Len(pipe) \in Nat
      /\ arrived \in 0..Len(pipe) /\ 0 \in 0..Len(pipe)
  BY DEF CInv, Types
<1>1. PICK n \in 0..Len(pipe) :
      /\ arrived' = n
      /\ pipe' = SubSeq(pipe, 1, n)
      /\ sock' = "closed" /\ announced' = Nobody
      /\ UNCHANGED <<pc, device, ready, replay, conn, gen, lost>>
  BY <1>0 DEF Break, client
<1>2. /\ pipe' \in Seq(Piece)
      /\ Len(pipe') = n
      /\ \A i \in 1..n : pipe'[i] = pipe[i]
  BY <1>0, <1>1, Prefix
<1>3. \A s \in Slots : announced'[s] = NoDevice
  BY <1>0, <1>1 DEF Nobody
<1>4. Types'
  BY <1>0, <1>1, <1>2 DEF CInv, Types, Nobody
<1>5. Turns'
  BY <1>0, <1>1 DEF CInv, Turns
<1>6. Current'
  <2>1. \A i \in 1..Len(pipe') : pipe'[i] = pipe[i] /\ i \in 1..Len(pipe)
    BY <1>0, <1>1, <1>2
  <2> QED BY <1>0, <1>1, <1>3, <2>1 DEF CInv, Current
<1>7. Whole'
  <2> SUFFICES ASSUME ~lost
               PROVE  /\ n > 0 => pipe'[1].part = 1
                      /\ \A i \in 1..(n - 1) : pipe'[i].part # pipe'[i + 1].part
                      /\ \A i \in 1..n :
                            pipe'[i].part = 1 /\ pipe'[i].msg.tag = "Report"
                               /\ pipe'[i].msg.slot \in Slots =>
                            pipe'[i].msg.dev = InForce(pipe', device', i - 1, pipe'[i].msg.slot)
    BY <1>0, <1>1, <1>2 DEF Whole
  <2>1. n > 0 => pipe'[1].part = 1
    BY <1>0, <1>1, <1>2 DEF CInv, Whole
  <2>2. ASSUME NEW i \in 1..(n - 1) PROVE pipe'[i].part # pipe'[i + 1].part
    <3>1. /\ pipe'[i] = pipe[i] /\ pipe'[i + 1] = pipe[i + 1]
          /\ i \in 1..(Len(pipe) - 1)
      BY <1>0, <1>1, <1>2
    <3> QED BY <3>1 DEF CInv, Whole
  <2>3. ASSUME NEW i \in 1..n,
               pipe'[i].part = 1, pipe'[i].msg.tag = "Report", pipe'[i].msg.slot \in Slots
        PROVE  pipe'[i].msg.dev = InForce(pipe', device', i - 1, pipe'[i].msg.slot)
    <3> DEFINE s == pipe[i].msg.slot
    <3>1. pipe'[i] = pipe[i] /\ i \in 1..Len(pipe)
      BY <1>0, <1>1, <1>2
    <3>2. pipe[i].msg.dev = InForce(pipe, device, i - 1, s)
      BY <3>1, <2>3 DEF CInv, Whole
    <3>3. i - 1 \in Nat /\ \A j \in 1..(i - 1) : pipe[j] = pipe'[j]
      BY <1>0, <1>1, <1>2
    <3> HIDE DEF s
    <3>4. InForce(pipe, device, i - 1, s) = InForce(pipe', device, i - 1, s)
      BY <3>3, InForceSame
    <3> QED BY <1>0, <1>1, <3>1, <3>2, <3>4 DEF s
  <2> QED BY <2>1, <2>2, <2>3
<1>8. Mirrors'
  BY <1>0, <1>1 DEF Mirrors
<1>9. Replayed' /\ ReplayedOnItsDevice'
  BY <1>0, <1>1 DEF CInv, Replayed, ReplayedOnItsDevice
<1> QED BY <1>4, <1>5, <1>6, <1>7, <1>8, <1>9 DEF CInv

\* A turn of connect_server: the devices of the connection that was lost go.
LEMMA ConnectStep == ASSUME CInv, ConnectFails \/ Connect PROVE CInv'
<1>1. /\ device' = Nobody /\ announced' = Nobody
      /\ pipe' = <<>> /\ arrived' = 0
      /\ ready = {} /\ UNCHANGED <<ready, replay, gen>>
  BY DEF CInv, Turns, ConnectFails, Connect, destroy_devices
<1>2. \A s \in Slots : announced'[s] = NoDevice /\ device'[s] = NoDevice
  BY <1>1 DEF Nobody
<1>3. /\ conn \in Nat /\ gen \in Nat
      /\ \/ conn' = conn /\ lost' = lost /\ sock' = "closed"
         \/ conn' = conn + 1 /\ lost' = FALSE /\ sock' = "up" /\ pc' = "request"
  BY DEF CInv, Types, ConnectFails, Connect
<1>4. Len(pipe') = 0
  BY <1>1
<1>5. Types'
  <2>1. pipe' \in Seq(Piece)
    BY <1>1
  <2> QED BY <1>1, <1>3, <1>4, <2>1 DEF Types, Nobody
<1>6. Turns'
  BY <1>1, <1>3 DEF Turns
<1>7. Current'
  BY <1>2, <1>4 DEF Current
<1>8. Whole'
  BY <1>4 DEF Whole
<1>9. Mirrors'
  BY <1>2, <1>4, InForceNone DEF Mirrors
<1>10. Replayed' /\ ReplayedOnItsDevice'
  <2> SUFFICES ASSUME replay # NoReplay
               PROVE  Replayed' /\ ReplayedOnItsDevice'
    BY <1>1 DEF Replayed, ReplayedOnItsDevice
  <2>1. /\ replay.report \in DeviceInfo /\ replay.to \in DeviceInfo
        /\ replay.report.conn <= conn
        /\ replay.to.conn = replay.report.conn /\ replay.to.shape = replay.report.shape
        /\ replay.report.conn = conn /\ ~lost => replay.to.gen = replay.report.gen
    BY DEF CInv, Replayed, ReplayedOnItsDevice
  <2>2. replay.report.conn \in Nat
    BY <2>1 DEF DeviceInfo
  <2>3. replay.report.conn <= conn' /\ (conn' = conn + 1 => replay.report.conn # conn')
    BY <1>3, <2>1, <2>2
  <2> QED BY <1>1, <1>3, <2>1, <2>3 DEF Replayed, ReplayedOnItsDevice
<1> QED BY <1>5, <1>6, <1>7, <1>8, <1>9, <1>10 DEF CInv

\* What recv(MSG_PEEK) shows is a prefix of what has arrived.
LEMMA PeekedPrefix ==
    ASSUME CInv
    PROVE  /\ Len(Peeked) \in 0..arrived
           /\ \A i \in 1..Len(Peeked) : Peeked[i] = pipe[i]
<1> DEFINE n == IF arrived < Room THEN arrived ELSE Room
<1>1. pipe \in Seq(Piece) /\ arrived \in 0..Len(pipe) /\ Len(pipe) \in Nat /\ arrived \in Nat
  BY DEF CInv, Types
<1>2. n \in 0..Len(pipe) /\ n \in 0..arrived
  BY <1>1, ClientAssumption
<1> HIDE DEF n
<1>3. Len(SubSeq(pipe, 1, n)) = n /\ \A i \in 1..n : SubSeq(pipe, 1, n)[i] = pipe[i]
  BY <1>1, <1>2, Prefix
<1> QED BY <1>2, <1>3 DEF Peeked, n

\* Bytes are thrown away: all that was promised about the order of the pieces is off, but
\* they are still of this connection.
LEMMA DiscardStep == ASSUME CInv, Discard PROVE CInv'
<1> DEFINE n == Len(Peeked)
<1>1. /\ pipe \in Seq(Piece) /\ Len(pipe) \in Nat /\ arrived \in 0..Len(pipe)
      /\ n \in 0..arrived
      /\ pipe' = SubSeq(pipe, n + 1, Len(pipe)) /\ arrived' = arrived - n
      /\ lost' = TRUE /\ pc = "discard" /\ pc' = "poll"
      /\ UNCHANGED <<device, ready, replay, sock, conn, announced, gen>>
  BY PeekedPrefix DEF CInv, Types, Discard
<1> HIDE DEF n
<1>2. n \in 0..Len(pipe) /\ n \in Nat
  BY <1>1
<1>3. /\ pipe' \in Seq(Piece)
      /\ Len(pipe') = Len(pipe) - n
      /\ \A i \in 1..(Len(pipe) - n) : pipe'[i] = pipe[i + n]
  BY <1>1, <1>2, Suffix
<1>4. Types'
  <2>1. arrived' \in 0..Len(pipe')
    BY <1>1, <1>2, <1>3
  <2> QED BY <1>1, <1>3, <2>1 DEF CInv, Types
<1>5. Turns'
  BY <1>1 DEF CInv, Turns
<1>6. Current'
  <2>1. \A i \in 1..Len(pipe') : pipe'[i] = pipe[i + n] /\ i + n \in 1..Len(pipe)
    BY <1>1, <1>2, <1>3
  <2> QED BY <1>1, <2>1 DEF CInv, Current
<1>7. Whole' /\ Mirrors'
  BY <1>1 DEF Whole, Mirrors
<1>8. Replayed' /\ ReplayedOnItsDevice'
  BY <1>1 DEF CInv, Replayed, ReplayedOnItsDevice
<1> QED BY <1>4, <1>5, <1>6, <1>7, <1>8 DEF CInv

\* A whole message is taken from the front of the pipe and handled.
LEMMA MessageStep ==
    ASSUME CInv, SocketTurn, "socket" \in ready, Parses
    PROVE  CInv'
<1> DEFINE m == pipe[1].msg
           l == Len(pipe)
<1>1. /\ pipe \in Seq(Piece) /\ l \in Nat /\ arrived \in 0..l
      /\ device \in [Slots -> DeviceInfo \cup {NoDevice}]
  BY DEF CInv, Types
<1>2. arrived >= 2 /\ l >= 2 /\ pipe[1].part = 1
  BY <1>1, PeekedPrefix DEF Parses
<1>3. /\ pipe' = SubSeq(pipe, 2 + 1, l) /\ arrived' = arrived - 2
      /\ pc' = "poll" /\ ready' = {}
      /\ UNCHANGED <<sock, conn, announced, gen, lost>>
      /\ device' = CASE m.tag = "Info"    -> device_init(m)
                     [] m.tag = "Destroy" -> device_destroy(m.slot)
                     [] OTHER             -> device
      /\ replay' = IF m.tag = "Report" THEN device_handle_report(m) ELSE replay
  BY <1>1, <1>2 DEF SocketTurn, Taken
<1>4. /\ pipe' \in Seq(Piece)
      /\ Len(pipe') = l - 2
      /\ \A i \in 1..(l - 2) : pipe'[i] = pipe[i + 2]
  <2>1. 2 \in 0..l
    BY <1>1, <1>2
  <2> QED BY <1>1, <1>3, <2>1, Suffix
<1>5. pipe[1] \in Piece /\ pipe[2] \in Piece /\ m \in Message
  <2>1. pipe[1] \in Piece /\ pipe[2] \in Piece
    BY <1>1, <1>2
  <2> QED BY <2>1 DEF Piece
<1>6. m.tag \in {"Info", "Report"} /\ m.slot \in Slots => m.dev \in DeviceInfo /\ m.dev.conn = conn
  <2>1. 1 \in 1..l
    BY <1>1, <1>2
  <2> QED BY <2>1, <1>5, MessageDevice DEF CInv, Current
<1> HIDE DEF m
<1>7. /\ device' \in [Slots -> DeviceInfo \cup {NoDevice}]
      /\ \A s \in Slots : device'[s] = IF Changes(pipe[1], s) THEN Effect(m) ELSE device[s]
  <2>1. CASE m.tag = "Info"
    <3>1. device' = device_init(m)
      BY <2>1, <1>3
    <3>2. \A s \in Slots : Changes(pipe[1], s) <=> m.slot = s
      BY <2>1, <1>2 DEF Changes, m
    <3> QED BY <1>1, <1>6, <2>1, <3>1, <3>2 DEF device_init, Effect
  <2>2. CASE m.tag = "Destroy"
    <3>1. device' = device_destroy(m.slot)
      BY <2>2, <1>3
    <3>2. \A s \in Slots : Changes(pipe[1], s) <=> m.slot = s
      BY <2>2, <1>2 DEF Changes, m
    <3> QED BY <1>1, <2>2, <3>1, <3>2 DEF device_destroy, Effect
  <2>3. CASE m.tag \notin {"Info", "Destroy"}
    <3>1. device' = device
      BY <2>3, <1>3
    <3>2. \A s \in Slots : ~Changes(pipe[1], s)
      BY <2>3 DEF Changes, m
    <3> QED BY <1>1, <3>1, <3>2
  <2> QED BY <2>1, <2>2, <2>3
<1>8. Types'
  <2>1. arrived' \in 0..Len(pipe')
    BY <1>1, <1>2, <1>3, <1>4
  <2> QED BY <1>3, <1>4, <1>7, <2>1 DEF CInv, Types
<1>9. Turns'
  <2>1. sock # "none"
    BY <1>2 DEF CInv, Turns
  <2> QED BY <2>1, <1>3 DEF CInv, Turns
<1>10. Current'
  <2>1. \A i \in 1..Len(pipe') : pipe'[i] = pipe[i + 2] /\ i + 2 \in 1..l
    BY <1>1, <1>4
  <2>2. ASSUME NEW s \in Slots, device'[s] # NoDevice PROVE device'[s].conn = conn'
    <3>1. CASE Changes(pipe[1], s)
      <4>1. m.tag = "Info" /\ m.slot = s /\ device'[s] = m.dev
        BY <2>2, <3>1, <1>7 DEF Changes, Effect, m
      <4> QED BY <4>1, <1>3, <1>6
    <3>2. CASE ~Changes(pipe[1], s)
      BY <2>2, <3>2, <1>3, <1>7 DEF CInv, Current
    <3> QED BY <3>1, <3>2
  <2> QED BY <1>3, <2>1, <2>2 DEF CInv, Current
<1>11. ASSUME ~lost PROVE pipe[2].part = 2 /\ \A s : ~Changes(pipe[2], s)
  <2>1. 1 \in 1..(l - 1)
    BY <1>1, <1>2
  <2>2. pipe[2].part # pipe[1].part
    BY <2>1, <1>11 DEF CInv, Whole
  <2> QED BY <2>2, <1>2, <1>5 DEF Piece, Changes
<1>12. ASSUME ~lost, NEW n \in 0..(l - 2), NEW s \in Slots
       PROVE  InForce(pipe', device', n, s) = InForce(pipe, device, n + 2, s)
  <2>1. n \in Nat /\ \A i \in 1..n : pipe'[i] = pipe[i + 2]
    BY <1>1, <1>4
  <2>2. ~Changes(pipe[2], s)
    BY <1>11, <1>12
  <2>3. device'[s] = IF Changes(pipe[1], s) THEN Effect(pipe[1].msg) ELSE device[s]
    BY <1>7 DEF m
  <2> QED BY <2>1, <2>2, <2>3, InForceShift
<1>13. Mirrors'
  <2> SUFFICES ASSUME sock = "up", ~lost, NEW s \in Slots
               PROVE  InForce(pipe', device', Len(pipe'), s) = announced[s]
    BY <1>3 DEF Mirrors
  <2>1. InForce(pipe, device, l, s) = announced[s]
    BY DEF CInv, Mirrors
  <2>2. l - 2 \in 0..(l - 2) /\ (l - 2) + 2 = l
    BY <1>1, <1>2
  <2> QED BY <2>1, <2>2, <1>4, <1>12
<1>14. Whole'
  <2> SUFFICES ASSUME ~lost
               PROVE  /\ l - 2 > 0 => pipe'[1].part = 1
                      /\ \A i \in 1..(l - 2 - 1) : pipe'[i].part # pipe'[i + 1].part
                      /\ sock = "up" /\ l - 2 > 0 => pipe'[l - 2].part = 2
                      /\ \A i \in 1..(l - 2) :
                            pipe'[i].part = 1 /\ pipe'[i].msg.tag = "Report"
                               /\ pipe'[i].msg.slot \in Slots =>
                            pipe'[i].msg.dev = InForce(pipe', device', i - 1, pipe'[i].msg.slot)
    BY <1>3, <1>4 DEF Whole
  <2>1. /\ \A i \in 1..(l - 1) : pipe[i].part # pipe[i + 1].part
        /\ sock = "up" => pipe[l].part = 2
    BY <1>1, <1>2 DEF CInv, Whole
  <2>2. ASSUME l - 2 > 0 PROVE pipe'[1].part = 1
    <3>1. pipe'[1] = pipe[3] /\ 2 \in 1..(l - 1) /\ pipe[3] \in Piece
      BY <1>1, <1>4, <2>2
    <3>2. pipe[3].part # 2
      BY <3>1, <2>1, <1>11
    <3> QED BY <3>1, <3>2 DEF Piece
  <2>3. ASSUME NEW i \in 1..(l - 2 - 1) PROVE pipe'[i].part # pipe'[i + 1].part
    <3>1. /\ pipe'[i] = pipe[i + 2] /\ pipe'[i + 1] = pipe[(i + 1) + 2]
          /\ (i + 1) + 2 = (i + 2) + 1 /\ i + 2 \in 1..(l - 1)
      BY <1>1, <1>4
    <3> QED BY <3>1, <2>1
  <2>4. ASSUME sock = "up", l - 2 > 0 PROVE pipe'[l - 2].part = 2
    <3>1. l - 2 \in 1..(l - 2) /\ (l - 2) + 2 = l
      BY <1>1, <2>4
    <3> QED BY <3>1, <1>4, <2>1, <2>4
  <2>5. ASSUME NEW i \in 1..(l - 2),
               pipe'[i].part = 1, pipe'[i].msg.tag = "Report", pipe'[i].msg.slot \in Slots
        PROVE  pipe'[i].msg.dev = InForce(pipe', device', i - 1, pipe'[i].msg.slot)
    <3> DEFINE s == pipe[i + 2].msg.slot
    <3>1. pipe'[i] = pipe[i + 2] /\ i + 2 \in 1..l /\ s \in Slots
      BY <1>1, <1>4, <2>5
    <3>2. pipe[i + 2].msg.dev = InForce(pipe, device, (i + 2) - 1, s)
      BY <3>1, <2>5 DEF CInv, Whole
    <3>3. i - 1 \in 0..(l - 2) /\ (i - 1) + 2 = (i + 2) - 1
      BY <1>1
    <3> HIDE DEF s
    <3>4. InForce(pipe', device', i - 1, s) = InForce(pipe, device, (i + 2) - 1, s)
      BY <3>1, <3>3, <1>12
    <3> QED BY <3>1, <3>2, <3>4 DEF s
  <2> QED BY <2>2, <2>3, <2>4, <2>5
<1>15. Replayed' /\ ReplayedOnItsDevice'
  <2>1. CASE replay' = replay
    BY <2>1, <1>3 DEF CInv, Replayed, ReplayedOnItsDevice
  <2>2. CASE replay' # replay
    <3> DEFINE s == m.slot
               d == device[s]
    <3>1. /\ m.tag = "Report" /\ s \in Slots /\ d # NoDevice /\ d.shape = m.dev.shape
          /\ replay' = [report |-> m.dev, to |-> d]
      BY <2>2, <1>3 DEF device_handle_report, device_exists
    <3>2. m.dev \in DeviceInfo /\ m.dev.conn = conn /\ d \in DeviceInfo /\ d.conn = conn
      BY <3>1, <1>1, <1>6 DEF CInv, Current
    <3>3. ~lost => m.dev = d
      <4>1. 1 \in 1..l /\ 1 - 1 = 0
        BY <1>1, <1>2
      <4>2. ~lost => m.dev = InForce(pipe, device, 0, s)
        BY <4>1, <3>1, <1>2 DEF CInv, Whole, m
      <4> QED BY <4>2, InForceNone
    <3>4. replay'.report = m.dev /\ replay'.to = d
      BY <3>1
    <3>5. m.dev.conn <= conn
      BY <3>2 DEF CInv, Types
    <3> HIDE DEF s, d
    <3> QED BY <1>3, <3>1, <3>2, <3>3, <3>4, <3>5 DEF Replayed, ReplayedOnItsDevice, s, d
  <2> QED BY <2>1, <2>2
<1> QED BY <1>8, <1>9, <1>10, <1>13, <1>14, <1>15 DEF CInv

\* A turn on the socket: a message, bytes that are none, the end of the connection, or
\* nothing to do.
LEMMA SocketStep == ASSUME CInv, SocketTurn PROVE CInv'
<1>1. CASE "socket" \in ready /\ Parses
  BY <1>1, MessageStep
<1>2. CASE ~("socket" \in ready /\ Parses)
  <2>1. /\ UNCHANGED <<device, replay, pipe, arrived, sock, conn, announced, gen, lost>>
        /\ ready' = {}
        /\ pc' \in {"poll", "connect", "discard"}
        /\ pc' = "connect" => "socket" \in ready /\ arrived = 0
    BY <1>2 DEF SocketTurn
  <2>2. Current' /\ Whole' /\ Mirrors'
    BY <2>1, Quiet
  <2>3. Types' /\ Replayed' /\ ReplayedOnItsDevice'
    BY <2>1 DEF CInv, Types, Replayed, ReplayedOnItsDevice
  <2>4. Turns'
    BY <2>1 DEF CInv, Turns
  <2> QED BY <2>2, <2>3, <2>4 DEF CInv
<1> QED BY <1>1, <1>2

\* Every step of the client, its server and the network keeps the invariant.
LEMMA ClientInductive == CInv /\ [Next]_vars => CInv'
<1> SUFFICES ASSUME CInv, [Next]_vars PROVE CInv'
  OBVIOUS
<1>1. CASE Next
  BY <1>1, ServerSteps, QuietSteps, BreakStep, ConnectStep, SocketStep, DiscardStep
  DEF Next, ClientStep
<1>2. CASE UNCHANGED vars
  <2>1. UNCHANGED <<pc, device, ready, replay, sock, conn, pipe, arrived, announced, gen, lost>>
    BY <1>2 DEF vars, client, network
  <2>2. Current' /\ Whole' /\ Mirrors'
    BY <2>1, Quiet
  <2> QED BY <2>1, <2>2 DEF CInv, Types, Turns, Replayed, ReplayedOnItsDevice
<1> QED BY <1>1, <1>2

\* It holds at the start, before the first connection.
LEMMA ClientInitial == Init => CInv
<1> SUFFICES ASSUME Init PROVE CInv
  OBVIOUS
<1>1. pipe = <<>> /\ Len(pipe) = 0 /\ pipe \in Seq(Piece)
  BY DEF Init
<1>2. \A s \in Slots : announced[s] = NoDevice /\ device[s] = NoDevice
  BY DEF Init, Nobody
<1>3. Types /\ Turns /\ Current /\ Whole /\ Replayed /\ ReplayedOnItsDevice
  BY <1>1, <1>2 DEF Init, Nobody, Types, Turns, Current, Whole, Replayed, ReplayedOnItsDevice
<1>4. Mirrors
  BY <1>1, <1>2, InForceNone DEF Mirrors
<1> QED BY <1>3, <1>4 DEF CInv

-----------------------------------------------------------------------------
(* The theorems *)

\* Everything the argument needs holds whatever the server, the network and the programs
\* that write to the fifo do.
THEOREM ClientInvariance == Spec => []CInv
BY ClientInitial, ClientInductive, PTL DEF Spec

\* As long as client_run has thrown no bytes away, devices_info is what the server had
\* announced over this connection when it wrote what the client has read.
THEOREM Mirrored == Spec => []Mirrors
<1>1. CInv => Mirrors
  BY DEF CInv
<1> QED BY ClientInvariance, <1>1, PTL

\* device_handle_report replays a report only on a device of the same connection and
\* shape, and on the device the report is about unless bytes were thrown away.
THEOREM ReplayedRight == Spec => []ReplayedOnItsDevice
<1>1. CInv => ReplayedOnItsDevice
  BY DEF CInv
<1> QED BY ClientInvariance, <1>1, PTL
===============================================================================
