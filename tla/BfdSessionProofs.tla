-------------------------- MODULE BfdSessionProofs --------------------------
(***************************************************************************)
(* Proofs about BfdSession, for every two systems, intervals, multipliers  *)
(* and jitters, and for every number of faults and restarts.               *)
(***************************************************************************)
EXTENDS BfdSession, SequenceTheorems, FiniteSetTheorems, TLAPS

LEMMA OtherNode ==
    ASSUME NEW n \in Nodes
    PROVE  /\ other(n) \in Nodes /\ other(n) # n /\ other(other(n)) = n
           /\ \A m \in Nodes : m # n => m = other(n)
<1>1. PICK a \in Nodes, b \in Nodes : a # b /\ Nodes = {a, b}
  BY NodesAssumption
<1>2. \A m \in Nodes : \E o \in Nodes : o # m
  BY <1>1
<1>3. \A m \in Nodes : other(m) \in Nodes /\ other(m) # m
  BY <1>2 DEF other
<1> QED
  BY <1>1, <1>3

\* The jittered interval is not longer than the interval.
LEMMA JitterBound ==
    ASSUME NEW e \in Nat, NEW j \in Jitters
    PROVE  (e * j) \div 100 \in Nat /\ (e * j) \div 100 <= e
<1>1. j \in 75 .. 100
  BY TimeAssumption
<1>2. e * j \in Nat /\ e * j <= e * 100
  BY <1>1
<1>3. \A x \in Nat : x <= e * 100 => x \div 100 \in Nat /\ x \div 100 <= e
  OBVIOUS
<1> QED
  BY <1>2, <1>3

-----------------------------------------------------------------------------
(* The invariant.                                                          *)

\* What bfdPeer.loop keeps to, whatever it receives.
Sound(r) ==
    /\ r.st # "Up" => r.desired >= Slow
    /\ r.poll => r.st = "Up" /\ r.your # 0
    /\ r.st = "Down" <=> r.left = Off
    /\ r.age + r.timer <= effectiveTxInterval(r)

\* What its packets say.
Packets ==
    {p \in Packet : (p.st # "Up" => p.tx >= Slow) /\ (p.poll => p.your # 0 /\ ~p.final)}

SoundInv ==
    /\ TypeOK
    /\ net \in [Nodes -> Seq(Packets)]
    /\ \A n \in Nodes : Sound(sys[n]) /\ sys[n].my <= restarts + 1
    /\ \A n \in Nodes : sys[n].st # "Down" => silence[n] + sys[n].left <= sys[n].detect

LEMMA SoundImplies == SoundInv => UpOnly /\ TxOnTime /\ SilenceDetected
<1> SUFFICES ASSUME SoundInv PROVE UpOnly /\ TxOnTime /\ SilenceDetected
  OBVIOUS
<1>1. \A n \in Nodes : sys[n] \in BfdPeer /\ Sound(sys[n])
  BY DEF SoundInv, TypeOK
<1>2. \A p \in InFlight : p \in Packets
  <2>1. ASSUME NEW n \in Nodes, NEW i \in DOMAIN net[n] PROVE net[n][i] \in Packets
    <3>1. net[n] \in Seq(Packets)
      BY DEF SoundInv
    <3> QED
      BY <3>1, LenProperties, ElementOfSeq
  <2> QED
    BY <2>1 DEF InFlight
<1>3. UpOnly
  BY <1>1, <1>2 DEF UpOnly, SlowUnlessUp, PollsBound, Sound, Packets, SoundInv
<1>4. ASSUME NEW n \in Nodes PROVE sys[n].age <= effectiveTxInterval(sys[n])
  <2>1. /\ sys[n].age \in Nat /\ sys[n].timer \in Nat /\ sys[n].desired \in Nat
        /\ sys[n].remoteRx \in Nat
    BY <1>1 DEF BfdPeer
  <2>2. sys[n].age + sys[n].timer <= effectiveTxInterval(sys[n])
    BY <1>1 DEF Sound
  <2> QED
    BY <2>1, <2>2 DEF effectiveTxInterval, larger
<1>5. ASSUME NEW n \in Nodes, sys[n].st # "Down" PROVE silence[n] <= sys[n].detect
  <2>1. /\ sys[n].left \in Nat \cup {Off} /\ sys[n].left # Off /\ sys[n].detect \in Nat
        /\ silence[n] \in Nat
    BY <1>1, <1>5 DEF BfdPeer, Sound, SoundInv, TypeOK
  <2>2. silence[n] + sys[n].left <= sys[n].detect
    BY <1>5 DEF SoundInv
  <2> QED
    BY <2>1, <2>2
<1> QED
  BY <1>3, <1>4, <1>5 DEF TxOnTime, SilenceDetected

-----------------------------------------------------------------------------
(* The operators: what tx, the setters and rxPacket make of a session.     *)

\* The fields that tx leaves alone.
SameSession(t, r) ==
    /\ t.st = r.st /\ t.my = r.my /\ t.your = r.your /\ t.desired = r.desired
    /\ t.remoteRx = r.remoteRx /\ t.detect = r.detect /\ t.left = r.left
    /\ t.poll = r.poll /\ t.client = r.client

LEMMA IntervalType ==
    ASSUME NEW r \in BfdPeer
    PROVE  /\ effectiveTxInterval(r) \in Nat
           /\ jitteredTxInterval(r) \in Nat /\ jitteredTxInterval(r) <= effectiveTxInterval(r)
<1>1. r.desired \in Nat /\ r.remoteRx \in Nat /\ r.jitter \in Jitters
  BY DEF BfdPeer
<1>2. effectiveTxInterval(r) \in Nat
  BY <1>1 DEF effectiveTxInterval, larger
<1> QED
  BY <1>1, <1>2, JitterBound DEF jitteredTxInterval

LEMMA TxFacts ==
    ASSUME NEW r \in BfdPeer, NEW j \in Jitters
    PROVE  /\ Tx(r, j) \in BfdPeer /\ SameSession(Tx(r, j), r)
           /\ Tx(r, j).age + Tx(r, j).timer <= effectiveTxInterval(Tx(r, j))
<1> DEFINE drawn == [r EXCEPT !.jitter = j]
           t == [drawn EXCEPT !.age = 0, !.timer = jitteredTxInterval(drawn)]
<1>1. drawn \in BfdPeer /\ SameSession(drawn, r)
  BY DEF BfdPeer, SameSession
<1>2. /\ jitteredTxInterval(drawn) \in Nat
      /\ jitteredTxInterval(drawn) <= effectiveTxInterval(drawn)
  BY <1>1, IntervalType
<1> HIDE DEF drawn
<1>3. t \in BfdPeer /\ SameSession(t, drawn) /\ t.age = 0 /\ t.timer = jitteredTxInterval(drawn)
  BY <1>1, <1>2, Zenon DEF BfdPeer, SameSession
<1>4. Tx(r, j) = t
  BY DEF Tx, drawn
<1> HIDE DEF t
<1>5. effectiveTxInterval(t) = effectiveTxInterval(drawn)
  BY <1>3 DEF effectiveTxInterval, SameSession
<1>6. SameSession(t, r)
  BY <1>1, <1>3 DEF SameSession
<1> QED
  BY <1>2, <1>3, <1>4, <1>5, <1>6

\* What Sound says of everything but the transmit timer.
Calm(r) ==
    /\ r.st # "Up" => r.desired >= Slow
    /\ r.poll => r.st = "Up" /\ r.your # 0

\* The fields that the setters leave alone.
SameTimers(t, r) ==
    /\ t.my = r.my /\ t.remoteRx = r.remoteRx /\ t.detect = r.detect /\ t.age = r.age
    /\ t.jitter = r.jitter /\ t.client = r.client

LEMMA IntervalsNat ==
    ASSUME NEW n \in Nodes
    PROVE  /\ TxInterval[n] \in Nat /\ RxInterval[n] \in Nat /\ Multiplier[n] \in Nat
           /\ larger(TxInterval[n], Slow) \in Nat /\ larger(TxInterval[n], Slow) >= Slow
BY TimeAssumption DEF larger

LEMMA DownFacts ==
    ASSUME NEW n \in Nodes, NEW r \in BfdPeer
    PROVE  LET d == setStateDown(n, r) IN
           /\ d \in BfdPeer /\ d.st = "Down" /\ d.your = 0 /\ d.left = Off
           /\ Calm(d) /\ SameTimers(d, r)
<1> DEFINE x == [r EXCEPT !.st = "Down", !.your = 0, !.poll = FALSE, !.left = Off]
           w == larger(TxInterval[n], Slow)
           d == [x EXCEPT !.desired = w, !.poll = FALSE]
<1>1. /\ x \in BfdPeer /\ x.st = "Down" /\ x.your = 0 /\ x.poll = FALSE /\ x.left = Off
      /\ SameTimers(x, r)
  BY Zenon DEF BfdPeer, States, SameTimers
<1>2. w \in Nat /\ w >= Slow
  BY IntervalsNat
<1> HIDE DEF x, w
<1>3. setStateDown(n, r) = d
  BY <1>1, Zenon DEF setStateDown, setDesiredMinTx, x, w
<1>4. /\ d \in BfdPeer /\ d.st = "Down" /\ d.your = 0 /\ d.left = Off /\ d.desired = w
      /\ d.poll = FALSE /\ SameTimers(d, x)
  BY <1>1, <1>2, Zenon DEF BfdPeer, SameTimers
<1> HIDE DEF d
<1>5. Calm(d) /\ SameTimers(d, r)
  BY <1>1, <1>2, <1>4 DEF Calm, SameTimers
<1> QED
  BY <1>3, <1>4, <1>5

LEMMA InitFacts ==
    ASSUME NEW r \in BfdPeer, r.st # "Up", Calm(r), NEW your \in Discriminators
    PROVE  LET d == setStateInit(r, your) IN
           d \in BfdPeer /\ d.st = "Init" /\ d.your = your /\ Calm(d) /\ SameTimers(d, r)
BY Zenon DEF setStateInit, BfdPeer, States, Calm, SameTimers

LEMMA UpFacts ==
    ASSUME NEW n \in Nodes, NEW r \in BfdPeer, NEW your \in Discriminators
    PROVE  LET d == setStateUp(n, r, your) IN
           d \in BfdPeer /\ d.st = "Up" /\ d.your = your /\ Calm(d) /\ SameTimers(d, r)
<1> DEFINE x == [r EXCEPT !.st = "Up", !.your = your, !.left = r.detect]
           w == TxInterval[n]
           d == setDesiredMinTx(x, w)
<1>1. x \in BfdPeer /\ x.st = "Up" /\ x.your = your /\ SameTimers(x, r)
  BY Zenon DEF BfdPeer, States, SameTimers
<1>2. w \in Nat /\ your # 0
  BY IntervalsNat DEF Discriminators
<1> HIDE DEF x, w
<1>3. d \in BfdPeer /\ d.st = "Up" /\ d.your = your /\ SameTimers(d, x)
  BY <1>1, <1>2, Zenon DEF setDesiredMinTx, BfdPeer, SameTimers
<1>4. setStateUp(n, r, your) = d
  BY DEF setStateUp, x, w
<1> HIDE DEF d
<1> QED
  BY <1>1, <1>2, <1>3, <1>4 DEF Calm, SameTimers

\* What the state machine of rxPacket may make of r on a packet h: only a system
\* that is Init or Up takes a session Up, with its own session.
Moves(m, r, h) ==
    /\ m \in BfdPeer /\ Calm(m) /\ SameTimers(m, r)
    /\ m.st = "Down" => m.left = Off
    /\ m.your \in {0, r.your, h.my}
    /\ m.st = "Up" => IF r.st = "Up" THEN m.your = r.your ELSE h.st # "Down" /\ m.your = h.my

LEMMA TransitionFacts ==
    ASSUME NEW n \in Nodes, NEW r \in BfdPeer, Calm(r), r.st = "Down" => r.left = Off,
           NEW h \in Packet
    PROVE  Moves(Transition(n, r, h), r, h)
<1>1. h.my \in Discriminators /\ h.st \in States /\ r.st \in States
  BY DEF Packet, BfdPeer
<1>2. PICK m : m = Transition(n, r, h)
  OBVIOUS
<1>3. CASE h.st = "Down" /\ r.st = "Down"
  <2>1. m = setStateInit(r, h.my)
    BY <1>2, <1>3, Zenon DEF Transition
  <2>2. m \in BfdPeer /\ m.st = "Init" /\ m.your = h.my /\ Calm(m) /\ SameTimers(m, r)
    BY <1>1, <1>3, <2>1, InitFacts, Zenon
  <2> QED
    BY <1>2, <2>2 DEF Moves
<1>4. CASE h.st = "Down" /\ r.st = "Up"
  <2>1. m = setStateDown(n, r)
    BY <1>2, <1>4 DEF Transition
  <2>2. m \in BfdPeer /\ m.st = "Down" /\ m.your = 0 /\ m.left = Off /\ Calm(m) /\ SameTimers(m, r)
    BY <2>1, DownFacts, Zenon
  <2> QED
    BY <1>2, <2>2 DEF Moves
<1>5. CASE (h.st = "Init" /\ r.st # "Up") \/ (h.st = "Up" /\ r.st = "Init")
  <2>1. m = setStateUp(n, r, h.my)
    BY <1>2, <1>5 DEF Transition
  <2>2. m \in BfdPeer /\ m.st = "Up" /\ m.your = h.my /\ Calm(m) /\ SameTimers(m, r)
    BY <1>1, <2>1, UpFacts, Zenon
  <2> QED
    BY <1>2, <1>5, <2>2, Zenon DEF Moves
<1>6. CASE /\ ~(h.st = "Down" /\ r.st = "Down") /\ ~(h.st = "Down" /\ r.st = "Up")
           /\ ~(h.st = "Init" /\ r.st # "Up") /\ ~(h.st = "Up" /\ r.st = "Init")
  <2>1. m = r
    BY <1>2, <1>6 DEF Transition
  <2> QED
    BY <1>2, <1>6, <2>1, Zenon DEF Moves, SameTimers
<1> QED
  BY <1>3, <1>4, <1>5, <1>6

LEMMA OneOrNone ==
    ASSUME NEW S, NEW p \in S, NEW b
    PROVE  (IF b THEN <<>> ELSE <<p>>) \in Seq(S)
<1>1. <<>> \in Seq(S) /\ <<p>> \in Seq(S)
  OBVIOUS
<1> QED
  BY <1>1

\* The packets of r that name one of the sessions in Y.
From(r, Y) == {p \in Packets : p.my = r.my /\ p.your \in Y}

LEMMA TxPacketFacts ==
    ASSUME NEW r \in BfdPeer, Calm(r)
    PROVE  TxPacket(r) \in Seq(From(r, {0, r.your}))
<1> DEFINE y == IF r.st = "Down" THEN 0 ELSE r.your
           p == [st |-> r.st, poll |-> r.poll, final |-> FALSE,
                 my |-> r.my, your |-> y, tx |-> r.desired, age |-> 0]
<1>1. /\ r.st \in States /\ r.poll \in BOOLEAN /\ r.my \in Discriminators
      /\ r.your \in Discriminators \cup {0} /\ r.desired \in Nat
  BY DEF BfdPeer
<1>2. p \in Packet
  BY <1>1, TimeAssumption DEF Packet
<1>3. p \in From(r, {0, r.your})
  BY <1>2 DEF From, Packets, Calm
<1>4. TxPacket(r) = IF ~r.client THEN <<>> ELSE <<p>>
  BY DEF TxPacket, sendPacket
<1> HIDE DEF p
<1> QED
  BY <1>3, <1>4, OneOrNone, Zenon

LEMMA ReplyFacts ==
    ASSUME NEW r \in BfdPeer, Calm(r), NEW your \in Discriminators
    PROVE  sendPacket(r, FALSE, TRUE, your) \in Seq(From(r, {your}))
<1> DEFINE p == [st |-> r.st, poll |-> FALSE, final |-> TRUE,
                 my |-> r.my, your |-> your, tx |-> r.desired, age |-> 0]
<1>1. r.st \in States /\ r.my \in Discriminators /\ r.desired \in Nat
  BY DEF BfdPeer
<1>2. p \in Packet
  BY <1>1, TimeAssumption DEF Packet
<1>3. p \in From(r, {your})
  BY <1>2 DEF From, Packets, Calm
<1>4. sendPacket(r, FALSE, TRUE, your) = IF ~r.client THEN <<>> ELSE <<p>>
  BY DEF sendPacket
<1> HIDE DEF p
<1> QED
  BY <1>3, <1>4, OneOrNone, Zenon

LEMMA NotedFacts ==
    ASSUME NEW n \in Nodes, NEW r \in BfdPeer, Calm(r), NEW h \in Packet
    PROVE  /\ Noted(n, r, h) \in BfdPeer /\ Calm(Noted(n, r, h))
           /\ Noted(n, r, h).st = r.st /\ Noted(n, r, h).my = r.my
           /\ Noted(n, r, h).your = r.your /\ Noted(n, r, h).left = r.left
<1> DEFINE o == other(n)
           d == DetectionTime(n, h)
           x == RxInterval[o]
           f == r.poll /\ ~h.final
           t == [r EXCEPT !.detect = d, !.remoteRx = x, !.poll = f]
<1>1. o \in Nodes
  BY OtherNode
<1>2. x \in Nat /\ Multiplier[o] \in Nat /\ RxInterval[n] \in Nat /\ h.tx \in Nat
  BY <1>1, IntervalsNat, Zenon DEF Packet
<1>3. larger(RxInterval[n], h.tx) \in Nat
  BY <1>2 DEF larger
<1>4. d \in Nat
  BY <1>2, <1>3 DEF DetectionTime
<1>5. f \in BOOLEAN /\ (f => r.poll)
  OBVIOUS
<1>6. Noted(n, r, h) = t
  BY DEF Noted
<1> HIDE DEF d, x, f
<1>7. /\ t \in BfdPeer /\ t.st = r.st /\ t.my = r.my /\ t.your = r.your /\ t.left = r.left
      /\ t.desired = r.desired /\ t.poll = f
  BY <1>2, <1>4, <1>5, Zenon DEF BfdPeer
<1> HIDE DEF t
<1>8. Calm(t)
  BY <1>5, <1>7 DEF Calm
<1> QED
  BY <1>6, <1>7, <1>8

\* What is set once the packet has been noted and the state machine has run.
LEMMA WatchedFacts ==
    ASSUME NEW n \in Nodes, NEW j \in Jitters, NEW h, NEW r, Moved(n, r, h) \in BfdPeer,
           Moved(n, r, h).st = "Down" => Moved(n, r, h).left = Off
    PROVE  LET w == Watched(n, r, h, j)
               m == Moved(n, r, h)
           IN  /\ w \in BfdPeer /\ w.st = m.st /\ w.my = m.my /\ w.your = m.your
               /\ w.desired = m.desired /\ w.poll = m.poll
               /\ w.left = IF w.st = "Down" THEN Off ELSE w.detect
<1>1. PICK m : m = Moved(n, r, h)
  OBVIOUS
<1>2. PICK a : a = Announced(n, r, h, j)
  OBVIOUS
<1>3. m \in BfdPeer /\ (m.st = "Down" => m.left = Off)
  BY <1>1
<1>4. a \in BfdPeer /\ SameSession(a, m)
  BY <1>1, <1>2, <1>3, TxFacts DEF Announced, SameSession
<1>5. PICK w : w = IF a.st # "Down" THEN [a EXCEPT !.left = a.detect] ELSE a
  BY Zenon
<1>6. w = Watched(n, r, h, j)
  BY <1>2, <1>5 DEF Watched
<1>7. /\ w \in BfdPeer /\ w.st = a.st /\ w.my = a.my /\ w.your = a.your
      /\ w.desired = a.desired /\ w.poll = a.poll
      /\ w.left = IF w.st = "Down" THEN a.left ELSE w.detect
  BY <1>4, <1>5 DEF BfdPeer
<1>8. /\ w \in BfdPeer /\ w.st = m.st /\ w.my = m.my /\ w.your = m.your
      /\ w.desired = m.desired /\ w.poll = m.poll
      /\ w.left = IF w.st = "Down" THEN Off ELSE w.detect
  BY <1>3, <1>4, <1>7 DEF SameSession
<1> QED
  BY <1>1, <1>6, <1>8

LEMMA PacedFacts ==
    ASSUME NEW j \in Jitters, NEW w \in BfdPeer
    PROVE  /\ Paced(w, j) \in BfdPeer /\ SameSession(Paced(w, j), w)
           /\ Paced(w, j).age + Paced(w, j).timer <= effectiveTxInterval(Paced(w, j))
<1>1. CASE Remaining(w) <= 0
  BY <1>1, TxFacts DEF Paced
<1>2. CASE ~(Remaining(w) <= 0)
  <2>1. PICK x : x = Remaining(w)
    OBVIOUS
  <2>2. PICK t : t = [w EXCEPT !.timer = x]
    BY Zenon
  <2>3. /\ w.age \in Nat /\ jitteredTxInterval(w) \in Nat
        /\ jitteredTxInterval(w) <= effectiveTxInterval(w) /\ effectiveTxInterval(w) \in Nat
    BY IntervalType DEF BfdPeer
  <2>4. x \in Nat /\ w.age + x <= effectiveTxInterval(w)
    BY <1>2, <2>1, <2>3 DEF Remaining
  <2>5. t \in BfdPeer /\ SameSession(t, w) /\ t.age = w.age /\ t.timer = x
    BY <2>2, <2>4 DEF BfdPeer, SameSession
  <2>6. effectiveTxInterval(t) = effectiveTxInterval(w)
    BY <2>5 DEF effectiveTxInterval, SameSession
  <2>7. Paced(w, j) = t
    BY <1>2, <2>1, <2>2, SMTT(30) DEF Paced
  <2> QED
    BY <2>4, <2>5, <2>6, <2>7
<1> QED
  BY <1>1, <1>2

\* The session after an accepted packet.
LEMMA ReceptionFacts ==
    ASSUME NEW n \in Nodes, NEW j \in Jitters, NEW r \in BfdPeer, Sound(r), NEW h \in Packet
    PROVE  LET m == Moved(n, r, h)
               f == Paced(Watched(n, r, h, j), j)
           IN  /\ m \in BfdPeer /\ Calm(m) /\ m.my = r.my /\ m.your \in {0, r.your, h.my}
               /\ f \in BfdPeer /\ Sound(f) /\ f.my = r.my /\ f.your = m.your
               /\ f.st # "Down" => f.left = f.detect
               /\ f.st = "Up" => IF r.st = "Up" THEN f.your = r.your
                                 ELSE h.st # "Down" /\ f.your = h.my
<1>1. PICK x : x = Noted(n, r, h)
  OBVIOUS
<1>2. PICK m : m = Moved(n, r, h)
  OBVIOUS
<1>3. PICK w : w = Watched(n, r, h, j)
  OBVIOUS
<1>4. PICK f : f = Paced(w, j)
  OBVIOUS
<1>5. /\ x \in BfdPeer /\ Calm(x) /\ x.st = r.st /\ x.my = r.my /\ x.your = r.your
      /\ x.left = r.left
  BY <1>1, NotedFacts, Zenon DEF Sound, Calm
<1>6. Moves(m, x, h)
  BY <1>1, <1>2, <1>5, TransitionFacts, Zenon DEF Moved, Sound
<1>7. /\ m \in BfdPeer /\ Calm(m) /\ m.my = r.my /\ m.your \in {0, r.your, h.my}
      /\ m.st = "Down" => m.left = Off
      /\ m.st = "Up" => IF r.st = "Up" THEN m.your = r.your ELSE h.st # "Down" /\ m.your = h.my
  BY <1>5, <1>6, Zenon DEF Moves, SameTimers
<1>8. /\ w \in BfdPeer /\ w.st = m.st /\ w.my = m.my /\ w.your = m.your
      /\ w.desired = m.desired /\ w.poll = m.poll
      /\ w.left = IF w.st = "Down" THEN Off ELSE w.detect
  BY <1>2, <1>3, <1>7, WatchedFacts, SMTT(30)
<1>9. /\ f \in BfdPeer /\ SameSession(f, w)
      /\ f.age + f.timer <= effectiveTxInterval(f)
  BY <1>4, <1>8, PacedFacts, Zenon
<1>10. w.detect # Off
  BY <1>8 DEF BfdPeer, Off
<1>11. Sound(f)
  BY <1>7, <1>8, <1>9, <1>10, Zenon DEF Sound, Calm, SameSession
<1>12. /\ f.my = r.my /\ f.your = m.your /\ f.st = m.st
       /\ f.st # "Down" => f.left = f.detect
  BY <1>7, <1>8, <1>9, Zenon DEF SameSession
<1> QED
  BY <1>2, <1>3, <1>4, <1>7, <1>9, <1>11, <1>12, SMTT(30)

-----------------------------------------------------------------------------
(* Every step keeps the invariant.                                         *)

LEMMA RemoveAtSeq ==
    ASSUME NEW S, NEW s \in Seq(S), NEW i \in DOMAIN s
    PROVE  RemoveAt(s, i) \in Seq(S)
<1>1. Len(s) \in Nat /\ i \in 1 .. Len(s) /\ \A k \in 1 .. Len(s) : s[k] \in S
  BY LenProperties, ElementOfSeq, Zenon
<1>2. SubSeq(s, 1, i - 1) \in Seq(S)
  BY <1>1, SubSeqProperties
<1>3. SubSeq(s, i + 1, Len(s)) \in Seq(S)
  BY <1>1, SubSeqProperties
<1> QED
  BY <1>2, <1>3, ConcatProperties, Zenon DEF RemoveAt

\* One system goes on to f.
LEMMA SystemStep ==
    ASSUME SoundInv, NEW n \in Nodes, NEW f \in BfdPeer, Sound(f), sys' = [sys EXCEPT ![n] = f],
           restarts' \in 0 .. MaxRestarts, restarts <= restarts', f.my <= restarts' + 1,
           silence' \in [Nodes -> Nat], \A m \in Nodes \ {n} : silence'[m] = silence[m],
           f.st # "Down" => silence'[n] + f.left <= f.detect,
           net' \in [Nodes -> Seq(Packets)],
           rxq' = rxq \/ rxq' = [rxq EXCEPT ![n] = {}],
           heard' \in [Nodes -> SUBSET Discriminators], faults' = faults
    PROVE  SoundInv'
<1>1. /\ sys \in [Nodes -> BfdPeer] /\ rxq \in [Nodes -> SUBSET Packet]
      /\ \A m \in Nodes : Cardinality(rxq[m]) <= 1
      /\ faults \in 0 .. MaxFaults /\ restarts \in 0 .. MaxRestarts
  BY DEF SoundInv, TypeOK
<1>2. /\ sys' \in [Nodes -> BfdPeer] /\ sys'[n] = f
      /\ \A m \in Nodes \ {n} : sys'[m] = sys[m]
  BY <1>1
<1>3. rxq' \in [Nodes -> SUBSET Packet] /\ \A m \in Nodes : Cardinality(rxq'[m]) <= 1
  <2>1. Cardinality({}) <= 1
    BY FS_EmptySet
  <2> QED
    BY <1>1, <2>1, Zenon
<1>4. net' \in [Nodes -> Seq(Packet)]
  <2>1. Packets \subseteq Packet
    BY DEF Packets
  <2> QED
    BY <2>1, SeqMonotonic
<1>5. ASSUME NEW m \in Nodes PROVE Sound(sys'[m]) /\ sys'[m].my <= restarts' + 1
  <2>1. CASE m = n
    BY <1>2, <2>1
  <2>2. CASE m # n
    <3>1. sys'[m] = sys[m] /\ Sound(sys[m]) /\ sys[m].my <= restarts + 1 /\ sys[m].my \in Int
      BY <1>1, <1>2, <2>2 DEF SoundInv, BfdPeer, Discriminators
    <3> QED
      BY <1>1, <3>1
  <2> QED
    BY <2>1, <2>2
<1>6. ASSUME NEW m \in Nodes, sys'[m].st # "Down" PROVE silence'[m] + sys'[m].left <= sys'[m].detect
  BY <1>2, <1>6, Zenon DEF SoundInv
<1>7. TypeOK'
  BY <1>1, <1>2, <1>3, <1>4, SMTT(30) DEF TypeOK
<1> QED
  BY <1>5, <1>6, <1>7, Zenon DEF SoundInv, Sound, effectiveTxInterval, larger

\* The network moves and no system does.
LEMMA NetworkStep ==
    ASSUME SoundInv, UNCHANGED <<sys, heard, silence, restarts>>,
           net' \in [Nodes -> Seq(Packets)], rxq' \in [Nodes -> SUBSET Packet],
           \A n \in Nodes : Cardinality(rxq'[n]) <= 1, faults' \in 0 .. MaxFaults
    PROVE  SoundInv'
<1>1. net' \in [Nodes -> Seq(Packet)]
  <2>1. Packets \subseteq Packet
    BY DEF Packets
  <2> QED
    BY <2>1, SeqMonotonic
<1>2. TypeOK'
  BY <1>1 DEF SoundInv, TypeOK
<1> QED
  BY <1>2 DEF SoundInv, Sound, effectiveTxInterval

LEMMA FromPackets == \A r, Y : From(r, Y) \subseteq Packets
BY DEF From

LEMMA SentPackets ==
    ASSUME SoundInv, NEW n \in Nodes, NEW packets \in Seq(Packets), Sent(n, packets)
    PROVE  net' \in [Nodes -> Seq(Packets)]
<1>1. other(n) \in Nodes /\ net \in [Nodes -> Seq(Packets)]
  BY OtherNode DEF SoundInv
<1>2. net[other(n)] \o packets \in Seq(Packets)
  BY <1>1, ConcatProperties, Zenon
<1> QED
  BY <1>1, <1>2, Zenon DEF Sent

\* The facts about the present state that the actions start from.
LEMMA Present ==
    ASSUME SoundInv, NEW n \in Nodes
    PROVE  /\ sys[n] \in BfdPeer /\ Sound(sys[n]) /\ Calm(sys[n]) /\ sys[n].my <= restarts + 1
           /\ sys[n].my \in Nat /\ restarts \in 0 .. MaxRestarts
           /\ silence \in [Nodes -> Nat] /\ heard \in [Nodes -> SUBSET Discriminators]
           /\ net \in [Nodes -> Seq(Packets)] /\ rxq[n] \subseteq Packet
           /\ sys[n].st # "Down" => silence[n] + sys[n].left <= sys[n].detect
BY SMTT(30) DEF SoundInv, TypeOK, BfdPeer, Discriminators, Sound, Calm

\* One system goes on to f and hears nothing.
LEMMA SystemStepAlone ==
    ASSUME SoundInv, NEW n \in Nodes, NEW f \in BfdPeer, Sound(f), sys' = [sys EXCEPT ![n] = f],
           f.my = sys[n].my, f.st # "Down" => silence[n] + f.left <= f.detect,
           UNCHANGED <<rxq, heard, silence, faults, restarts>>, net' \in [Nodes -> Seq(Packets)]
    PROVE  SoundInv'
<1>1. restarts' \in 0 .. MaxRestarts /\ restarts <= restarts' /\ f.my <= restarts' + 1
  BY Present
<1>2. /\ silence' \in [Nodes -> Nat] /\ \A m \in Nodes \ {n} : silence'[m] = silence[m]
      /\ silence' = silence /\ rxq' = rxq /\ heard' \in [Nodes -> SUBSET Discriminators]
      /\ faults' = faults
  BY Present, Zenon
<1> QED
  BY <1>1, <1>2, SystemStep, Zenon

LEMMA SoundSame ==
    ASSUME NEW r \in BfdPeer, NEW t \in BfdPeer, Sound(r), SameSession(t, r),
           t.age + t.timer <= effectiveTxInterval(t)
    PROVE  Sound(t)
BY Zenon DEF Sound, SameSession

LEMMA StartSound ==
    ASSUME SoundInv, NEW n \in Nodes, Start(n)
    PROVE  SoundInv'
<1>1. PICK f : f = [sys[n] EXCEPT !.client = TRUE]
  BY Zenon
<1>2. /\ sys' = [sys EXCEPT ![n] = f] /\ UNCHANGED <<rxq, net, heard, silence, faults, restarts>>
  BY <1>1 DEF Start
<1>3. /\ f \in BfdPeer /\ f.st = sys[n].st /\ f.my = sys[n].my /\ f.your = sys[n].your
      /\ f.desired = sys[n].desired /\ f.remoteRx = sys[n].remoteRx /\ f.detect = sys[n].detect
      /\ f.left = sys[n].left /\ f.poll = sys[n].poll /\ f.age = sys[n].age
      /\ f.timer = sys[n].timer
  BY <1>1, Present, Zenon DEF BfdPeer
<1>4. Sound(f)
  BY <1>3, Present DEF Sound, effectiveTxInterval
<1> QED
  BY <1>2, <1>3, <1>4, Present, SystemStepAlone, Zenon

LEMMA TxTimerSound ==
    ASSUME SoundInv, NEW n \in Nodes, NEW j \in Jitters, TxTimer(n, j)
    PROVE  SoundInv'
<1>1. PICK f : f = Tx(sys[n], j)
  OBVIOUS
<1>2. /\ sys' = [sys EXCEPT ![n] = f] /\ Sent(n, TxPacket(sys[n]))
      /\ UNCHANGED <<rxq, heard, silence, faults, restarts>>
  BY <1>1 DEF TxTimer
<1>3. f \in BfdPeer /\ SameSession(f, sys[n]) /\ f.age + f.timer <= effectiveTxInterval(f)
  BY <1>1, Present, TxFacts
<1>4. Sound(f)
  BY <1>3, Present, SoundSame, Zenon
<1>5. net' \in [Nodes -> Seq(Packets)]
  <2>1. TxPacket(sys[n]) \in Seq(Packets)
    BY Present, TxPacketFacts, FromPackets, SeqMonotonic, Zenon
  <2> QED
    BY <1>2, <2>1, SentPackets, Zenon
<1>6. f.my = sys[n].my /\ f.st = sys[n].st /\ f.left = sys[n].left /\ f.detect = sys[n].detect
  BY <1>3 DEF SameSession
<1> QED
  BY <1>2, <1>3, <1>4, <1>5, <1>6, Present, SystemStepAlone, Zenon

LEMMA ExpirySound ==
    ASSUME SoundInv, NEW n \in Nodes, NEW j \in Jitters, Expiry(n, j)
    PROVE  SoundInv'
<1>1. PICK d : d = setStateDown(n, sys[n])
  OBVIOUS
<1>2. PICK f : f = Tx(d, j)
  OBVIOUS
<1>3. /\ sys' = [sys EXCEPT ![n] = f] /\ Sent(n, TxPacket(d))
      /\ UNCHANGED <<rxq, heard, silence, faults, restarts>>
  BY <1>1, <1>2, Zenon DEF Expiry
<1>4. d \in BfdPeer /\ d.st = "Down" /\ d.left = Off /\ Calm(d) /\ d.my = sys[n].my
  BY <1>1, Present, DownFacts, Zenon DEF SameTimers
<1>5. f \in BfdPeer /\ SameSession(f, d) /\ f.age + f.timer <= effectiveTxInterval(f)
  BY <1>2, <1>4, TxFacts, Zenon
<1>6. Sound(f) /\ f.st = "Down" /\ f.my = sys[n].my
  BY <1>4, <1>5, Zenon DEF Sound, Calm, SameSession
<1>7. net' \in [Nodes -> Seq(Packets)]
  <2>1. TxPacket(d) \in Seq(Packets)
    BY <1>4, TxPacketFacts, FromPackets, SeqMonotonic, Zenon
  <2> QED
    BY <1>3, <2>1, SentPackets, Zenon
<1> QED
  BY <1>3, <1>5, <1>6, <1>7, SystemStepAlone, Zenon

LEMMA NewPeerFacts ==
    ASSUME NEW n \in Nodes, NEW j \in Jitters, NEW d \in Discriminators
    PROVE  LET f == newBfdPeer(n, d, j) IN
           f \in BfdPeer /\ Sound(f) /\ f.st = "Down" /\ f.my = d /\ f.your = 0
<1> DEFINE w == larger(TxInterval[n], Slow)
           e == Multiplier[n] * RxInterval[n]
           x == [st |-> "Down", my |-> d, your |-> 0, desired |-> w,
                 remoteRx |-> 0, detect |-> e, left |-> Off,
                 poll |-> FALSE, age |-> 0, jitter |-> j, timer |-> 0, client |-> FALSE]
<1>1. w \in Nat /\ w >= Slow /\ e \in Nat
  BY IntervalsNat
<1> HIDE DEF w, e
<1>2. /\ x \in BfdPeer /\ x.st = "Down" /\ x.my = d /\ x.your = 0 /\ x.desired = w
      /\ x.left = Off /\ x.poll = FALSE
  BY <1>1 DEF BfdPeer, States
<1>3. PICK f : f = Tx(x, j)
  OBVIOUS
<1>4. f = newBfdPeer(n, d, j)
  BY <1>3, Zenon DEF newBfdPeer, w, e
<1> HIDE DEF x
<1>5. f \in BfdPeer /\ SameSession(f, x) /\ f.age + f.timer <= effectiveTxInterval(f)
  BY <1>2, <1>3, TxFacts, Zenon
<1>6. Sound(f) /\ f.st = "Down" /\ f.my = d /\ f.your = 0
  BY <1>1, <1>2, <1>5, Zenon DEF Sound, SameSession
<1> QED
  BY <1>4, <1>5, <1>6

LEMMA RestartSound ==
    ASSUME SoundInv, NEW n \in Nodes, NEW j \in Jitters, Restart(n, j)
    PROVE  SoundInv'
<1>1. PICK d : d = sys[n].my + 1
  OBVIOUS
<1>2. PICK f : f = newBfdPeer(n, d, j)
  OBVIOUS
<1>3. /\ restarts < MaxRestarts /\ restarts' = restarts + 1
      /\ sys' = [sys EXCEPT ![n] = f] /\ rxq' = [rxq EXCEPT ![n] = {}]
      /\ heard' = [heard EXCEPT ![n] = {}] /\ silence' = [silence EXCEPT ![n] = 0]
      /\ UNCHANGED <<net, faults>>
  BY <1>1, <1>2 DEF Restart
<1>4. d \in Discriminators /\ d <= restarts' + 1 /\ MaxRestarts \in Nat
  <2>1. sys[n].my \in Nat /\ sys[n].my <= restarts + 1 /\ restarts \in 0 .. MaxRestarts
    BY Present, Zenon
  <2>2. MaxRestarts \in Nat
    BY TimeAssumption, Zenon
  <2>3. restarts < MaxRestarts /\ restarts' = restarts + 1
    BY <1>3, Zenon
  <2> QED
    BY <1>1, <2>1, <2>2, <2>3, SMTT(30) DEF Discriminators
<1>5. f \in BfdPeer /\ Sound(f) /\ f.st = "Down" /\ f.my = d
  BY <1>2, <1>4, NewPeerFacts, SMTT(30)
<1>6. /\ silence' \in [Nodes -> Nat] /\ \A m \in Nodes \ {n} : silence'[m] = silence[m]
      /\ heard' \in [Nodes -> SUBSET Discriminators]
  BY <1>3, Present
<1>7. restarts' \in 0 .. MaxRestarts /\ restarts <= restarts'
  BY <1>3, <1>4, Present
<1> QED
  BY <1>3, <1>4, <1>5, <1>6, <1>7, Present, SystemStep, Zenon

\* RxPacket takes a packet from the queue: it is dropped, or it is accepted.
LEMMA RxPacketIs ==
    ASSUME NEW n \in Nodes, NEW j \in Jitters, RxPacket(n, j)
    PROVE  \E h \in rxq[n] :
               /\ rxq' = [rxq EXCEPT ![n] = {}] /\ UNCHANGED <<faults, restarts>>
               /\ \/ UNCHANGED <<sys, net, heard, silence>>
                  \/ /\ Accepts(sys[n], h)
                     /\ sys' = [sys EXCEPT ![n] = Paced(Watched(n, sys[n], h, j), j)]
                     /\ \E a, b \in BOOLEAN :
                           Sent(n, (IF a THEN TxPacket(Moved(n, sys[n], h)) ELSE <<>>)
                                   \o (IF h.poll THEN sendPacket(Moved(n, sys[n], h), FALSE, TRUE, h.my)
                                       ELSE <<>>)
                                   \o (IF b THEN TxPacket(Moved(n, sys[n], h)) ELSE <<>>))
                     /\ heard' = [heard EXCEPT ![n] = @ \cup {h.my}]
                     /\ silence' = [silence EXCEPT ![n] = 0]
<1>1. PICK h \in rxq[n] :
        /\ rxq' = [rxq EXCEPT ![n] = {}]
        /\ IF ~Accepts(sys[n], h) THEN UNCHANGED <<sys, net, heard, silence>>
           ELSE /\ sys' = [sys EXCEPT ![n] = Paced(Watched(n, sys[n], h, j), j)]
                /\ Sent(n, (IF Moved(n, sys[n], h).st # sys[n].st THEN TxPacket(Moved(n, sys[n], h))
                            ELSE <<>>)
                           \o (IF h.poll THEN sendPacket(Moved(n, sys[n], h), FALSE, TRUE, h.my)
                               ELSE <<>>)
                           \o (IF Remaining(Watched(n, sys[n], h, j)) <= 0
                               THEN TxPacket(Moved(n, sys[n], h)) ELSE <<>>))
                /\ heard' = [heard EXCEPT ![n] = @ \cup {h.my}]
                /\ silence' = [silence EXCEPT ![n] = 0]
        /\ UNCHANGED <<faults, restarts>>
  BY Zenon DEF RxPacket
<1>2. PICK a \in BOOLEAN : a = (Moved(n, sys[n], h).st # sys[n].st)
  BY Zenon
<1>3. PICK b \in BOOLEAN : b <=> Remaining(Watched(n, sys[n], h, j)) <= 0
  <2>1. CASE Remaining(Watched(n, sys[n], h, j)) <= 0
    BY <2>1, Zenon
  <2>2. CASE ~(Remaining(Watched(n, sys[n], h, j)) <= 0)
    BY <2>2, Zenon
  <2> QED
    BY <2>1, <2>2
<1> QED
  BY <1>1, <1>2, <1>3, Zenon

\* What an accepted packet makes the system send.
LEMMA RepliesFacts ==
    ASSUME NEW r \in BfdPeer, Calm(r), NEW y \in Discriminators, NEW S,
           From(r, {0, r.your, y}) \subseteq S, NEW a, NEW b, NEW c
    PROVE  (IF a THEN TxPacket(r) ELSE <<>>) \o (IF c THEN sendPacket(r, FALSE, TRUE, y) ELSE <<>>)
           \o (IF b THEN TxPacket(r) ELSE <<>>) \in Seq(S)
<1>1. From(r, {0, r.your}) \subseteq S /\ From(r, {y}) \subseteq S
  BY DEF From
<1>2. TxPacket(r) \in Seq(S) /\ sendPacket(r, FALSE, TRUE, y) \in Seq(S) /\ <<>> \in Seq(S)
  BY <1>1, TxPacketFacts, ReplyFacts, SeqMonotonic, EmptySeq, Zenon
<1>3. PICK u, v, w : /\ u = (IF a THEN TxPacket(r) ELSE <<>>)
                     /\ v = (IF c THEN sendPacket(r, FALSE, TRUE, y) ELSE <<>>)
                     /\ w = (IF b THEN TxPacket(r) ELSE <<>>)
  BY Zenon
<1>4. u \in Seq(S) /\ v \in Seq(S) /\ w \in Seq(S)
  BY <1>2, <1>3, Zenon
<1>5. (u \o v) \o w \in Seq(S)
  BY <1>4, ConcatProperties
<1> QED
  BY <1>3, <1>5, Zenon

LEMMA RxPacketSound ==
    ASSUME SoundInv, NEW n \in Nodes, NEW j \in Jitters, RxPacket(n, j)
    PROVE  SoundInv'
<1>1. PICK h \in rxq[n] :
        /\ rxq' = [rxq EXCEPT ![n] = {}] /\ UNCHANGED <<faults, restarts>>
        /\ \/ UNCHANGED <<sys, net, heard, silence>>
           \/ /\ Accepts(sys[n], h)
              /\ sys' = [sys EXCEPT ![n] = Paced(Watched(n, sys[n], h, j), j)]
              /\ \E a, b \in BOOLEAN :
                    Sent(n, (IF a THEN TxPacket(Moved(n, sys[n], h)) ELSE <<>>)
                            \o (IF h.poll THEN sendPacket(Moved(n, sys[n], h), FALSE, TRUE, h.my)
                                ELSE <<>>)
                            \o (IF b THEN TxPacket(Moved(n, sys[n], h)) ELSE <<>>))
              /\ heard' = [heard EXCEPT ![n] = @ \cup {h.my}]
              /\ silence' = [silence EXCEPT ![n] = 0]
  BY RxPacketIs, Zenon
<1>2. h \in Packet /\ h.my \in Discriminators
  BY Present DEF Packet
<1>3. CASE UNCHANGED <<sys, net, heard, silence>>
  <2>1. rxq \in [Nodes -> SUBSET Packet] /\ \A m \in Nodes : Cardinality(rxq[m]) <= 1
    BY DEF SoundInv, TypeOK
  <2>2. rxq' \in [Nodes -> SUBSET Packet] /\ \A m \in Nodes : Cardinality(rxq'[m]) <= 1
    BY <1>1, <2>1, FS_EmptySet, SMTT(30)
  <2>3. net' \in [Nodes -> Seq(Packets)] /\ faults' \in 0 .. MaxFaults
    BY <1>1, <1>3, Zenon DEF SoundInv, TypeOK
  <2> QED
    BY <1>1, <1>3, <2>2, <2>3, NetworkStep, SMTT(30)
<1>4. CASE ~UNCHANGED <<sys, net, heard, silence>>
  <2>1. PICK f, m : f = Paced(Watched(n, sys[n], h, j), j) /\ m = Moved(n, sys[n], h)
    BY Zenon
  <2>2. /\ sys' = [sys EXCEPT ![n] = f]
        /\ heard' = [heard EXCEPT ![n] = @ \cup {h.my}] /\ silence' = [silence EXCEPT ![n] = 0]
        /\ \E a, b \in BOOLEAN :
              Sent(n, (IF a THEN TxPacket(m) ELSE <<>>)
                      \o (IF h.poll THEN sendPacket(m, FALSE, TRUE, h.my) ELSE <<>>)
                      \o (IF b THEN TxPacket(m) ELSE <<>>))
    BY <1>1, <1>4, <2>1, Zenon
  <2>3. /\ m \in BfdPeer /\ Calm(m) /\ f \in BfdPeer /\ Sound(f) /\ f.my = sys[n].my
        /\ f.st # "Down" => f.left = f.detect
    BY <1>2, <2>1, Present, ReceptionFacts, Zenon
  <2>4. PICK packets \in Seq(Packets) : Sent(n, packets)
    BY <1>2, <2>2, <2>3, RepliesFacts, FromPackets, Zenon
  <2>5. net' \in [Nodes -> Seq(Packets)]
    BY <2>4, SentPackets, Zenon
  <2>6. /\ silence' \in [Nodes -> Nat] /\ \A o \in Nodes \ {n} : silence'[o] = silence[o]
        /\ silence'[n] = 0 /\ heard' \in [Nodes -> SUBSET Discriminators]
    BY <1>2, <2>2, Present, Zenon
  <2>7. f.st # "Down" => silence'[n] + f.left <= f.detect
    BY <2>3, <2>6, SMTT(30) DEF BfdPeer
  <2>8. restarts' \in 0 .. MaxRestarts /\ restarts <= restarts' /\ f.my <= restarts' + 1
    BY <1>1, <2>3, Present, SMTT(30)
  <2>9. faults' = faults /\ rxq' = [rxq EXCEPT ![n] = {}]
    BY <1>1, Zenon
  <2> QED
    BY <2>2, <2>3, <2>5, <2>6, <2>7, <2>8, <2>9, SystemStep, ZenonT(30)
<1> QED
  BY <1>3, <1>4

LEMMA FaultType ==
    ASSUME SoundInv, NEW happens \in BOOLEAN, Fault(happens)
    PROVE  faults' \in 0 .. MaxFaults
BY TimeAssumption DEF Fault, SoundInv, TypeOK

LEMMA NetSound ==
    ASSUME SoundInv, NEW n \in Nodes, NEW i \in DOMAIN net[n],
           Deliver(n, i) \/ Lose(n, i) \/ Repeat(n, i)
    PROVE  SoundInv'
<1>1. /\ net \in [Nodes -> Seq(Packets)] /\ net[n] \in Seq(Packets) /\ net[n][i] \in Packets
      /\ net[n][i] \in Packet
  <2>1. net \in [Nodes -> Seq(Packets)] /\ net[n] \in Seq(Packets)
    BY DEF SoundInv
  <2>2. net[n][i] \in Packets
    BY <2>1, LenProperties, ElementOfSeq, Zenon
  <2> QED
    BY <2>1, <2>2, Zenon DEF Packets
<1>2. /\ rxq \in [Nodes -> SUBSET Packet] /\ \A m \in Nodes : Cardinality(rxq[m]) <= 1
  BY Zenon DEF SoundInv, TypeOK
<1>3. RemoveAt(net[n], i) \in Seq(Packets) /\ Append(net[n], net[n][i]) \in Seq(Packets)
  BY <1>1, RemoveAtSeq, AppendProperties, Zenon
<1>4. net' \in [Nodes -> Seq(Packets)] /\ faults' \in 0 .. MaxFaults
  <2>1. net' \in [Nodes -> Seq(Packets)]
    BY <1>1, <1>3, Zenon DEF Deliver, Lose, Repeat
  <2>2. faults' \in 0 .. MaxFaults
    BY FaultType, Zenon DEF Deliver, Lose, Repeat
  <2> QED
    BY <2>1, <2>2, Zenon
<1>5. rxq' \in [Nodes -> SUBSET Packet] /\ \A m \in Nodes : Cardinality(rxq'[m]) <= 1
  <2>1. Cardinality({net[n][i]}) <= 1
    <3>1. \A x : Cardinality({x}) = 1
      BY FS_Singleton, Zenon
    <3>2. Cardinality({net[n][i]}) = 1
      BY <3>1, Zenon
    <3> QED
      BY <3>2
  <2>2. CASE rxq' = rxq
    BY <1>2, <2>2
  <2>3. CASE rxq' = [rxq EXCEPT ![n] = IF @ = {} THEN {net[n][i]} ELSE @]
    <3>1. PICK q : q = IF rxq[n] = {} THEN {net[n][i]} ELSE rxq[n]
      BY Zenon
    <3>2. q \in SUBSET Packet /\ Cardinality(q) <= 1
      BY <1>1, <1>2, <2>1, <3>1, SMTT(30)
    <3> QED
      BY <1>2, <2>3, <3>1, <3>2, Zenon
  <2> QED
    BY <2>2, <2>3, Zenon DEF Deliver, Lose, Repeat
<1>6. UNCHANGED <<sys, heard, silence, restarts>>
  BY Zenon DEF Deliver, Lose, Repeat
<1> QED
  BY <1>4, <1>5, <1>6, NetworkStep, Zenon

\* A packet that has been on its way one tick longer.
Older(p) == [p EXCEPT !.age = @ + 1]

LEMMA OlderFacts ==
    ASSUME NEW p \in Packets, p.age < MaxDelay
    PROVE  /\ Older(p) \in Packets /\ Older(p).my = p.my /\ Older(p).your = p.your
           /\ Older(p).st = p.st
<1>1. p \in Packet /\ p.age \in 0 .. MaxDelay /\ p.age + 1 \in 0 .. MaxDelay
  BY TimeAssumption DEF Packets, Packet
<1>2. PICK q : q = Older(p)
  OBVIOUS
<1>3. /\ q \in Packet /\ q.my = p.my /\ q.your = p.your /\ q.st = p.st /\ q.poll = p.poll
      /\ q.final = p.final /\ q.tx = p.tx
  BY <1>1, <1>2, Zenon DEF Older, Packet
<1>4. q \in Packets
  BY <1>3, Zenon DEF Packets
<1> QED
  BY <1>2, <1>3, <1>4, SMTT(30)

LEMMA OlderSeq ==
    ASSUME NEW S, NEW T, NEW s \in Seq(S), \A i \in DOMAIN s : Older(s[i]) \in T
    PROVE  [i \in DOMAIN s |-> Older(s[i])] \in Seq(T)
<1>1. DOMAIN s = 1 .. Len(s) /\ Len(s) \in Nat
  BY LenProperties, Zenon
<1>2. PICK l \in Nat : l = Len(s)
  BY <1>1, Zenon
<1>3. [i \in 1 .. l |-> Older(s[i])] \in [1 .. l -> T]
  BY <1>1, <1>2, Zenon
<1>4. \A u \in [1 .. l -> T] : u \in Seq(T)
  BY <1>2, SeqDef
<1> QED
  BY <1>1, <1>2, <1>3, <1>4, Zenon

\* A session one tick later.
Later(r) ==
    [r EXCEPT !.timer = @ - 1, !.age = @ + 1, !.left = IF @ = Off THEN Off ELSE @ - 1]

LEMMA LaterFacts ==
    ASSUME NEW r \in BfdPeer, Sound(r), r.timer > 0, r.left # 0
    PROVE  /\ Later(r) \in BfdPeer /\ Sound(Later(r)) /\ Later(r).my = r.my
           /\ Later(r).st = r.st /\ Later(r).your = r.your /\ Later(r).detect = r.detect
           /\ r.st # "Down" => r.left \in Nat /\ Later(r).left = r.left - 1
<1>1. /\ r.timer \in Nat /\ r.age \in Nat /\ r.left \in Nat \cup {Off}
      /\ r.timer - 1 \in Nat /\ r.age + 1 \in Nat
  BY DEF BfdPeer
<1>2. PICK x : x = IF r.left = Off THEN Off ELSE r.left - 1
  OBVIOUS
<1>3. /\ x \in Nat \cup {Off} /\ (x = Off <=> r.left = Off)
      /\ r.left # Off => r.left \in Nat /\ x = r.left - 1
  BY <1>1, <1>2 DEF Off
<1>4. PICK a, b : a = r.timer - 1 /\ b = r.age + 1
  OBVIOUS
<1>5. PICK t : t = [r EXCEPT !.timer = a, !.age = b, !.left = x]
  OBVIOUS
<1>6. t = Later(r)
  BY <1>2, <1>4, <1>5, Zenon DEF Later
<1>7. /\ t \in BfdPeer /\ t.my = r.my /\ t.st = r.st /\ t.your = r.your /\ t.detect = r.detect
      /\ t.desired = r.desired /\ t.remoteRx = r.remoteRx /\ t.poll = r.poll
      /\ t.timer = a /\ t.age = b /\ t.left = x
  BY <1>1, <1>3, <1>4, <1>5, Zenon DEF BfdPeer
<1>8. a + b = r.age + r.timer
  BY <1>1, <1>4
<1>9. a \in Int /\ b \in Int
  BY <1>1, <1>4, SMTT(30)
<1>10. Sound(t)
  <2>1. t.age + t.timer = r.age + r.timer
    BY <1>7, <1>8, <1>9, SMTT(30)
  <2> QED
    BY <1>3, <1>7, <2>1, SMTT(30) DEF Sound, effectiveTxInterval
<1>11. r.st # "Down" => r.left # Off
  BY DEF Sound
<1> QED
  BY <1>3, <1>6, <1>7, <1>10, <1>11, Zenon

LEMMA TickIs ==
    ASSUME SoundInv, Tick
    PROVE  /\ \A n \in Nodes : sys[n].timer > 0 /\ sys[n].left # 0
           /\ \A n \in Nodes : \A i \in DOMAIN net[n] : net[n][i].age < MaxDelay
           /\ sys' = [n \in Nodes |-> Later(sys[n])]
           /\ net' = [n \in Nodes |-> [i \in DOMAIN net[n] |-> Older(net[n][i])]]
           /\ silence' = [n \in Nodes |-> IF sys[n].st = "Down" THEN 0 ELSE silence[n] + 1]
           /\ UNCHANGED <<rxq, heard, faults, restarts>>
BY Zenon DEF Tick, Later, Older

LEMMA TickSound ==
    ASSUME SoundInv, Tick
    PROVE  SoundInv'
<1>1. ASSUME NEW n \in Nodes
      PROVE  /\ Later(sys[n]) \in BfdPeer /\ Sound(Later(sys[n])) /\ Later(sys[n]).my = sys[n].my
             /\ Later(sys[n]).st = sys[n].st /\ Later(sys[n]).detect = sys[n].detect
             /\ sys[n].st # "Down" => sys[n].left \in Nat /\ Later(sys[n]).left = sys[n].left - 1
  BY Present, LaterFacts, TickIs, Zenon
<1>2. sys' \in [Nodes -> BfdPeer] /\ \A n \in Nodes : sys'[n] = Later(sys[n])
  BY <1>1, TickIs, SMTT(30)
<1>3. net' \in [Nodes -> Seq(Packets)]
  <2>1. ASSUME NEW n \in Nodes PROVE [i \in DOMAIN net[n] |-> Older(net[n][i])] \in Seq(Packets)
    <3>1. net[n] \in Seq(Packets)
      BY Present, Zenon
    <3>2. \A i \in DOMAIN net[n] : net[n][i] \in Packets /\ net[n][i].age < MaxDelay
      BY <3>1, LenProperties, ElementOfSeq, TickIs, SMTT(30)
    <3>3. \A i \in DOMAIN net[n] : Older(net[n][i]) \in Packets
      BY <3>2, OlderFacts, Zenon
    <3> QED
      BY <3>1, <3>3, OlderSeq, Zenon
  <2> QED
    BY <2>1, TickIs
<1>4. net' \in [Nodes -> Seq(Packet)]
  <2>1. Packets \subseteq Packet
    BY Zenon DEF Packets
  <2> QED
    BY <1>3, <2>1, SeqMonotonic, Zenon
<1>5. silence' \in [Nodes -> Nat]
      /\ \A n \in Nodes : sys[n].st # "Down" => silence'[n] = silence[n] + 1
  <2>1. silence \in [Nodes -> Nat]
    BY Zenon DEF SoundInv, TypeOK
  <2> QED
    BY <2>1, TickIs
<1>6. /\ rxq' \in [Nodes -> SUBSET Packet] /\ \A n \in Nodes : Cardinality(rxq'[n]) <= 1
      /\ heard' \in [Nodes -> SUBSET Discriminators]
      /\ faults' \in 0 .. MaxFaults /\ restarts' \in 0 .. MaxRestarts
  BY TickIs, Zenon DEF SoundInv, TypeOK
<1>7. TypeOK'
  BY <1>2, <1>4, <1>5, <1>6, Zenon DEF TypeOK
<1>8. ASSUME NEW n \in Nodes PROVE Sound(sys'[n]) /\ sys'[n].my <= restarts' + 1
  BY <1>1, <1>2, Present, TickIs, Zenon
<1>9. ASSUME NEW n \in Nodes, sys'[n].st # "Down"
      PROVE  silence'[n] + sys'[n].left <= sys'[n].detect
  <2>1. /\ sys[n].st # "Down" /\ sys'[n].detect = sys[n].detect /\ sys[n].left \in Nat
        /\ sys'[n].left = sys[n].left - 1
    BY <1>1, <1>2, <1>9, Zenon
  <2>2. silence'[n] = silence[n] + 1 /\ silence[n] \in Nat
    BY <1>5, <2>1, Present, Zenon
  <2>3. silence[n] + sys[n].left <= sys[n].detect
    BY <2>1, Present, Zenon
  <2>4. silence'[n] + sys'[n].left = silence[n] + sys[n].left
    BY <2>1, <2>2, SMTT(30)
  <2> QED
    BY <2>1, <2>3, <2>4, Zenon
<1> QED
  BY <1>3, <1>7, <1>8, <1>9, Zenon DEF SoundInv, Sound, effectiveTxInterval, larger

LEMMA SoundInit == Init => SoundInv
<1> SUFFICES ASSUME Init PROVE SoundInv
  BY Zenon
<1>1. PICK j \in [Nodes -> Jitters] : sys = [n \in Nodes |-> newBfdPeer(n, 1, j[n])]
  BY DEF Init
<1>2. 1 \in Discriminators
  BY TimeAssumption DEF Discriminators
<1>3. \A n \in Nodes : /\ newBfdPeer(n, 1, j[n]) \in BfdPeer /\ Sound(newBfdPeer(n, 1, j[n]))
                       /\ newBfdPeer(n, 1, j[n]).st = "Down" /\ newBfdPeer(n, 1, j[n]).my = 1
  BY <1>2, NewPeerFacts
<1>4. /\ sys \in [Nodes -> BfdPeer]
      /\ \A n \in Nodes : Sound(sys[n]) /\ sys[n].st = "Down" /\ sys[n].my = 1
  BY <1>1, <1>3, Zenon
<1>5. <<>> \in Seq(Packets) /\ <<>> \in Seq(Packet)
  BY EmptySeq, Zenon
<1>6. net \in [Nodes -> Seq(Packets)] /\ net \in [Nodes -> Seq(Packet)]
  BY <1>5, Zenon DEF Init
<1>7. Cardinality({}) <= 1
  BY FS_EmptySet
<1>8. TypeOK
  BY <1>4, <1>6, <1>7, TimeAssumption, SMTT(30) DEF Init, TypeOK
<1> QED
  BY <1>4, <1>6, <1>8, SMTT(30) DEF SoundInv, Init

LEMMA SoundNext == SoundInv /\ [Next]_vars => SoundInv'
<1> SUFFICES ASSUME SoundInv, [Next]_vars PROVE SoundInv'
  BY Zenon
<1>1. CASE UNCHANGED vars
  BY <1>1, Zenon DEF vars, SoundInv, TypeOK, Sound, effectiveTxInterval, larger
<1>2. ASSUME NEW n \in Nodes, NEW j \in Jitters,
             TxTimer(n, j) \/ RxPacket(n, j) \/ Expiry(n, j) \/ Restart(n, j)
      PROVE  SoundInv'
  BY <1>2, TxTimerSound, RxPacketSound, ExpirySound, RestartSound, Zenon
<1>3. ASSUME NEW n \in Nodes, Start(n) PROVE SoundInv'
  BY <1>3, StartSound, Zenon
<1>4. ASSUME NEW n \in Nodes, NEW i \in DOMAIN net[n], Deliver(n, i) \/ Lose(n, i) \/ Repeat(n, i)
      PROVE  SoundInv'
  BY <1>4, NetSound, Zenon
<1>5. CASE Tick
  BY <1>5, TickSound, Zenon
<1> QED
  BY <1>1, <1>2, <1>3, <1>4, <1>5, Zenon DEF Next

LEMMA SoundCorrect == Spec => []SoundInv
<1>1. Init => SoundInv
  BY SoundInit
<1>2. SoundInv /\ [Next]_vars => SoundInv'
  BY SoundNext, Zenon
<1> QED
  BY <1>1, <1>2, PTL DEF Spec

\* Whatever is lost, repeated, overtaken or restarted, a system sends fast, says
\* that it will, and polls only while its session is Up, and every timer and
\* queue keeps its bounds (setStateDown, setStateUp, rxPacket).
THEOREM UpOnlyCorrect == Spec => []UpOnly
BY SoundCorrect, SoundImplies, PTL

\* Received packets never put off the next transmission past the transmit
\* interval, for any intervals and jitters (tx and the pacing of rxPacket).
THEOREM TxOnTimeCorrect == Spec => []TxOnTime
BY SoundCorrect, SoundImplies, PTL

\* No system holds a session in Init or Up longer than the detection time after
\* the last packet it accepted, although that time changes with every packet
\* (rxPacket, eventExpiry).
THEOREM SilenceDetectedCorrect == Spec => []SilenceDetected
BY SoundCorrect, SoundImplies, PTL

-----------------------------------------------------------------------------
(* The handshake.                                                          *)

\* The packets on their way to n: those of the other system's present session
\* name only what it has heard.
Told(n) ==
    {p \in Packets : /\ p.my <= sys[other(n)].my
                     /\ p.my = sys[other(n)].my /\ p.your # 0 => p.your \in heard[other(n)]}

HeardInv ==
    /\ \A n \in Nodes : net[n] \in Seq(Told(n)) /\ rxq[n] \subseteq Told(n)
    /\ \A n \in Nodes : sys[n].your # 0 =>
           sys[n].your \in heard[n] /\ sys[n].your <= sys[other(n)].my
    /\ UpWasHeard

\* The packets on their way stay covered: the other system's session is the
\* same and has heard no less, or it is a later one.
LEMMA ToldGrows ==
    ASSUME SoundInv, NEW n \in Nodes, sys'[other(n)].my \in Nat,
           \/ sys'[other(n)].my = sys[other(n)].my /\ heard[other(n)] \subseteq heard'[other(n)]
           \/ sys'[other(n)].my > sys[other(n)].my
    PROVE  Told(n) \subseteq Told(n)'
<1>1. sys[other(n)].my \in Nat
  BY OtherNode, Present, Zenon
<1>2. \A p \in Packets : p.my \in Nat
  BY DEF Packets, Packet, Discriminators
<1> QED
  BY <1>1, <1>2 DEF Told

LEMMA HeardFacts ==
    ASSUME SoundInv, HeardInv, NEW n \in Nodes
    PROVE  /\ net[n] \in Seq(Told(n)) /\ rxq[n] \subseteq Told(n)
           /\ sys[n].your # 0 => sys[n].your \in heard[n] /\ sys[n].your <= sys[other(n)].my
           /\ sys[n].st = "Up" /\ sys[n].your = sys[other(n)].my => sys[n].my \in heard[other(n)]
BY DEF HeardInv, UpWasHeard

\* What the invariant says of one system.
HeardOf(n) ==
    /\ net[n] \in Seq(Told(n)) /\ rxq[n] \subseteq Told(n)
    /\ sys[n].your # 0 => sys[n].your \in heard[n] /\ sys[n].your <= sys[other(n)].my
    /\ sys[n].st = "Up" /\ sys[n].your = sys[other(n)].my => sys[n].my \in heard[other(n)]

LEMMA HeardOfAll == HeardInv <=> \A n \in Nodes : HeardOf(n)
BY Zenon DEF HeardInv, UpWasHeard, HeardOf

LEMMA HeardOfBoth ==
    ASSUME NEW n \in Nodes, HeardOf(n)', HeardOf(other(n))'
    PROVE  HeardInv'
<1>1. \A m \in Nodes : m = n \/ m = other(n)
  BY OtherNode, Zenon
<1>2. \A m \in Nodes : HeardOf(m)'
  BY <1>1, Zenon
<1> QED
  BY <1>2, Zenon DEF HeardInv, UpWasHeard, HeardOf

\* A session goes on to f and sends packets.
LEMMA HeardStep ==
    ASSUME SoundInv, HeardInv, NEW n \in Nodes, NEW f \in BfdPeer, sys' = [sys EXCEPT ![n] = f],
           f.my = sys[n].my, heard[n] \subseteq heard'[n], heard'[other(n)] = heard[other(n)],
           rxq' = rxq \/ rxq' = [rxq EXCEPT ![n] = {}],
           NEW packets \in Seq(From(f, heard'[n] \cup {0})), Sent(n, packets),
           f.your # 0 => f.your \in heard'[n] /\ f.your <= sys[other(n)].my,
           f.st = "Up" /\ f.your = sys[other(n)].my => f.my \in heard[other(n)]
    PROVE  HeardInv'
<1>1. PICK o \in Nodes : o = other(n) /\ o # n /\ n = other(o)
  BY OtherNode, Zenon
<1>2. /\ sys \in [Nodes -> BfdPeer] /\ rxq \in [Nodes -> SUBSET Packet]
      /\ net \in [Nodes -> Seq(Packets)]
  BY Zenon DEF SoundInv, TypeOK
<1>3. sys'[n] = f /\ sys'[o] = sys[o]
  BY <1>1, <1>2, Zenon
<1>4. sys[n].my \in Nat /\ sys[o].my \in Nat
  BY Present, Zenon
<1>5. Told(n) \subseteq Told(n)' /\ Told(o) \subseteq Told(o)'
  BY <1>1, <1>3, <1>4, ToldGrows, Zenon
<1>6. HeardOf(n) /\ HeardOf(o)
  BY HeardOfAll, Zenon
<1>7. net'[n] = net[n] /\ net'[o] = net[o] \o packets
  BY <1>1, <1>2, Zenon DEF Sent
<1>8. rxq'[n] \subseteq rxq[n] /\ rxq'[o] = rxq[o]
  BY <1>1, <1>2, Zenon
<1>9. HeardOf(n)'
  <2>1. net'[n] \in Seq(Told(n)') /\ rxq'[n] \subseteq Told(n)'
    BY <1>5, <1>6, <1>7, <1>8, SeqMonotonic, Zenon DEF HeardOf
  <2> QED
    BY <1>1, <1>3, <2>1, Zenon DEF HeardOf
<1>10. HeardOf(o)'
  <2>1. From(f, heard'[n] \cup {0}) \subseteq Told(o)'
    BY <1>1, <1>3, <1>4, SMTT(30) DEF From, Told
  <2>2. packets \in Seq(Told(o)') /\ net[o] \in Seq(Told(o)')
    BY <1>5, <1>6, <2>1, SeqMonotonic, ZenonT(30) DEF HeardOf
  <2>3. net'[o] \in Seq(Told(o)') /\ rxq'[o] \subseteq Told(o)'
    BY <1>5, <1>6, <1>7, <1>8, <2>2, ConcatProperties, SMTT(30) DEF HeardOf
  <2> QED
    BY <1>1, <1>3, <1>6, <2>3, ZenonT(30) DEF HeardOf
<1> QED
  BY <1>1, <1>9, <1>10, HeardOfBoth, Zenon

\* Nothing is sent and no session changes its state or its peer.
LEMMA HeardSame ==
    ASSUME SoundInv, HeardInv, heard' = heard,
           \A n \in Nodes : /\ sys'[n].st = sys[n].st /\ sys'[n].my = sys[n].my
                            /\ sys'[n].your = sys[n].your
                            /\ net'[n] \in Seq(Told(n)) /\ rxq'[n] \subseteq Told(n)
    PROVE  HeardInv'
<1> SUFFICES ASSUME NEW n \in Nodes PROVE HeardOf(n)'
  BY OtherNode, HeardOfBoth, Zenon DEF HeardInv, UpWasHeard, HeardOf
<1>1. PICK o \in Nodes : o = other(n)
  BY OtherNode, Zenon
<1>2. Told(n)' = Told(n)
  BY <1>1, Zenon DEF Told
<1>3. HeardOf(n)
  BY HeardOfAll
<1> QED
  BY <1>1, <1>2, <1>3, Zenon DEF HeardOf

LEMMA StartHeard ==
    ASSUME SoundInv, HeardInv, NEW n \in Nodes, Start(n)
    PROVE  HeardInv'
<1>1. \A m \in Nodes :
        sys'[m].st = sys[m].st /\ sys'[m].my = sys[m].my /\ sys'[m].your = sys[m].your
  <2>1. sys \in [Nodes -> BfdPeer]
    BY DEF SoundInv, TypeOK
  <2>2. PICK f : f = [sys[n] EXCEPT !.client = TRUE]
    BY Zenon
  <2>3. f.st = sys[n].st /\ f.my = sys[n].my /\ f.your = sys[n].your
    BY <2>1, <2>2 DEF BfdPeer
  <2>4. sys' = [sys EXCEPT ![n] = f]
    BY <2>2 DEF Start
  <2> QED
    BY <2>1, <2>3, <2>4, SMTT(30)
<1>2. UNCHANGED <<rxq, net, heard>>
  BY DEF Start
<1> QED
  BY <1>1, <1>2, HeardFacts, HeardSame, SMTT(30)

LEMMA TxTimerHeard ==
    ASSUME SoundInv, HeardInv, NEW n \in Nodes, NEW j \in Jitters, TxTimer(n, j)
    PROVE  HeardInv'
<1>1. PICK f : f = Tx(sys[n], j)
  OBVIOUS
<1>2. sys' = [sys EXCEPT ![n] = f] /\ Sent(n, TxPacket(sys[n])) /\ UNCHANGED <<rxq, heard>>
  BY <1>1, SMTT(30) DEF TxTimer
<1>3. f \in BfdPeer /\ f.my = sys[n].my /\ f.st = sys[n].st /\ f.your = sys[n].your
  BY <1>1, Present, TxFacts, SMTT(30) DEF SameSession
<1>4. From(sys[n], {0, sys[n].your}) \subseteq From(f, heard'[n] \cup {0})
  BY <1>2, <1>3, HeardFacts, Zenon DEF From
<1>5. TxPacket(sys[n]) \in Seq(From(f, heard'[n] \cup {0}))
  <2>1. PICK S, T : S = From(sys[n], {0, sys[n].your}) /\ T = From(f, heard'[n] \cup {0})
    BY Zenon
  <2>2. TxPacket(sys[n]) \in Seq(S)
    BY <2>1, Present, TxPacketFacts, Zenon
  <2>3. S \subseteq T
    BY <1>4, <2>1, Zenon
  <2>4. TxPacket(sys[n]) \in Seq(T)
    BY <2>2, <2>3, SeqMonotonic, Zenon
  <2> QED
    BY <2>1, <2>4, Zenon
<1> QED
  BY <1>2, <1>3, <1>5, HeardFacts, HeardStep, ZenonT(30)

LEMMA ExpiryHeard ==
    ASSUME SoundInv, HeardInv, NEW n \in Nodes, NEW j \in Jitters, Expiry(n, j)
    PROVE  HeardInv'
<1>1. PICK d : d = setStateDown(n, sys[n])
  OBVIOUS
<1>2. PICK f : f = Tx(d, j)
  OBVIOUS
<1>3. sys' = [sys EXCEPT ![n] = f] /\ Sent(n, TxPacket(d)) /\ UNCHANGED <<rxq, heard>>
  BY <1>1, <1>2, SMTT(30) DEF Expiry
<1>4. d \in BfdPeer /\ d.st = "Down" /\ d.your = 0 /\ Calm(d) /\ d.my = sys[n].my
  BY <1>1, Present, DownFacts, SMTT(30) DEF SameTimers
<1>5. f \in BfdPeer /\ f.my = sys[n].my /\ f.st = "Down" /\ f.your = 0
  BY <1>2, <1>4, TxFacts, Zenon DEF SameSession
<1>6. From(d, {0, d.your}) \subseteq From(f, heard'[n] \cup {0})
  BY <1>4, <1>5, Zenon DEF From
<1>7. TxPacket(d) \in Seq(From(f, heard'[n] \cup {0}))
  <2>1. TxPacket(d) \in Seq(From(d, {0, d.your}))
    BY <1>4, TxPacketFacts, Zenon
  <2> QED
    BY <1>6, <2>1, SeqMonotonic, Zenon
<1> QED
  BY <1>3, <1>5, <1>7, HeardStep, Zenon

\* A session is taken Up on a packet that names it, which the sender's present
\* session sends only when it has heard it.
LEMMA RxPacketHeard ==
    ASSUME SoundInv, HeardInv, NEW n \in Nodes, NEW j \in Jitters, RxPacket(n, j)
    PROVE  HeardInv'
<1>1. PICK h \in rxq[n] :
        /\ rxq' = [rxq EXCEPT ![n] = {}] /\ UNCHANGED <<faults, restarts>>
        /\ \/ UNCHANGED <<sys, net, heard, silence>>
           \/ /\ Accepts(sys[n], h)
              /\ sys' = [sys EXCEPT ![n] = Paced(Watched(n, sys[n], h, j), j)]
              /\ \E a, b \in BOOLEAN :
                    Sent(n, (IF a THEN TxPacket(Moved(n, sys[n], h)) ELSE <<>>)
                            \o (IF h.poll THEN sendPacket(Moved(n, sys[n], h), FALSE, TRUE, h.my)
                                ELSE <<>>)
                            \o (IF b THEN TxPacket(Moved(n, sys[n], h)) ELSE <<>>))
              /\ heard' = [heard EXCEPT ![n] = @ \cup {h.my}]
              /\ silence' = [silence EXCEPT ![n] = 0]
  BY RxPacketIs, Zenon
<1>2. h \in Packet /\ h.my \in Discriminators /\ h \in Told(n)
  BY Present, HeardFacts, SMTT(30) DEF Packet
<1>3. CASE UNCHANGED <<sys, net, heard, silence>>
  <2>1. rxq \in [Nodes -> SUBSET Packet]
    BY Zenon DEF SoundInv, TypeOK
  <2>2. \A m \in Nodes : rxq'[m] \subseteq rxq[m]
    BY <1>1, <2>1, Zenon
  <2> QED
    BY <1>3, <2>2, HeardFacts, HeardSame, SMTT(30)
<1>4. CASE ~UNCHANGED <<sys, net, heard, silence>>
  <2>1. PICK f, m : f = Paced(Watched(n, sys[n], h, j), j) /\ m = Moved(n, sys[n], h)
    BY Zenon
  <2>2. /\ Accepts(sys[n], h) /\ sys' = [sys EXCEPT ![n] = f]
        /\ heard' = [heard EXCEPT ![n] = @ \cup {h.my}]
        /\ \E a, b \in BOOLEAN :
              Sent(n, (IF a THEN TxPacket(m) ELSE <<>>)
                      \o (IF h.poll THEN sendPacket(m, FALSE, TRUE, h.my) ELSE <<>>)
                      \o (IF b THEN TxPacket(m) ELSE <<>>))
    BY <1>1, <1>4, <2>1, ZenonT(30)
  <2>3. /\ m \in BfdPeer /\ Calm(m) /\ m.my = sys[n].my /\ m.your \in {0, sys[n].your, h.my}
        /\ f \in BfdPeer /\ f.my = sys[n].my /\ f.your = m.your
        /\ f.st = "Up" => IF sys[n].st = "Up" THEN f.your = sys[n].your
                          ELSE h.st # "Down" /\ f.your = h.my
    BY <1>2, <2>1, Present, ReceptionFacts, SMTT(90)
  <2>4. /\ heard'[n] = heard[n] \cup {h.my} /\ heard'[other(n)] = heard[other(n)]
    BY <2>2, Present, OtherNode, Zenon
  <2>5. f.your # 0 => f.your \in heard'[n] /\ f.your <= sys[other(n)].my
    BY <1>2, <2>3, <2>4, HeardFacts, ZenonT(30) DEF Told
  <2>6. f.st = "Up" /\ f.your = sys[other(n)].my => f.my \in heard[other(n)]
    <3>1. CASE sys[n].st = "Up"
      BY <2>3, <3>1, HeardFacts, SMTT(30)
    <3>2. CASE sys[n].st # "Up"
      BY <1>2, <2>2, <2>3, <3>2, Zenon DEF Accepts, Told
    <3> QED
      BY <3>1, <3>2, SMTT(30)
  <2>7. From(m, {0, m.your, h.my}) \subseteq From(f, heard'[n] \cup {0})
    BY <2>3, <2>4, <2>5, Zenon DEF From
  <2>8. PICK packets \in Seq(From(f, heard'[n] \cup {0})) : Sent(n, packets)
    BY <1>2, <2>2, <2>3, <2>7, RepliesFacts, ZenonT(30)
  <2>9. heard[n] \subseteq heard'[n] /\ rxq' = [rxq EXCEPT ![n] = {}]
    BY <1>1, <2>4, Zenon
  <2> QED
    BY <2>2, <2>3, <2>4, <2>5, <2>6, <2>8, <2>9, HeardStep, ZenonT(30)
<1> QED
  BY <1>3, <1>4, Zenon

\* A new session has a discriminator that no packet names and no system holds.
LEMMA RestartHeard ==
    ASSUME SoundInv, HeardInv, NEW n \in Nodes, NEW j \in Jitters, Restart(n, j)
    PROVE  HeardInv'
<1>1. PICK d : d = sys[n].my + 1
  OBVIOUS
<1>2. PICK f : f = newBfdPeer(n, d, j)
  OBVIOUS
<1>3. /\ sys' = [sys EXCEPT ![n] = f] /\ restarts < MaxRestarts
      /\ rxq' = [rxq EXCEPT ![n] = {}] /\ heard' = [heard EXCEPT ![n] = {}] /\ net' = net
  BY <1>1, <1>2, Zenon DEF Restart
<1>4. PICK o \in Nodes : o = other(n) /\ o # n /\ n = other(o)
  BY OtherNode, Zenon
<1>5. /\ sys \in [Nodes -> BfdPeer] /\ rxq \in [Nodes -> SUBSET Packet]
      /\ heard \in [Nodes -> SUBSET Discriminators]
  BY Zenon DEF SoundInv, TypeOK
<1>6. sys[n].my \in Nat /\ sys[o].my \in Nat /\ d \in Discriminators
  <2>1. /\ sys[n].my \in Nat /\ sys[o].my \in Nat /\ sys[n].my <= restarts + 1
        /\ restarts \in Nat /\ MaxRestarts \in Nat
    BY Present, TimeAssumption
  <2> QED
    BY <1>1, <1>3, <2>1, SMTT(30) DEF Discriminators
<1>7. f.my = d /\ f.st = "Down" /\ f.your = 0
  BY <1>2, <1>6, NewPeerFacts, Zenon
<1>8. /\ sys'[n] = f /\ sys'[o] = sys[o] /\ heard'[o] = heard[o] /\ rxq'[n] = {} /\ rxq'[o] = rxq[o]
  BY <1>3, <1>4, <1>5, Zenon
<1>9. Told(n) \subseteq Told(n)' /\ Told(o) \subseteq Told(o)'
  BY <1>1, <1>4, <1>6, <1>7, <1>8, ToldGrows, SMTT(30)
<1>10. HeardOf(n) /\ HeardOf(o)
  BY HeardOfAll, Zenon
<1>11. net'[n] \in Seq(Told(n)') /\ net'[o] \in Seq(Told(o)')
  BY <1>3, <1>9, <1>10, SeqMonotonic, Zenon DEF HeardOf
<1>12. HeardOf(n)'
  BY <1>7, <1>8, <1>11, Zenon DEF HeardOf
<1>13. HeardOf(o)'
  <2>1. sys[o].your \in Nat /\ (sys[o].your # 0 => sys[o].your <= sys[n].my) /\ sys[n].my > 0
    BY <1>4, <1>5, <1>10, SMTT(30) DEF HeardOf, BfdPeer, Discriminators
  <2>2. sys'[o].your # sys'[n].my /\ sys'[o].your <= sys'[n].my
    BY <1>1, <1>6, <1>7, <1>8, <2>1, SMTT(30)
  <2>3. rxq'[o] \subseteq Told(o)'
    BY <1>8, <1>9, <1>10, Zenon DEF HeardOf
  <2>4. sys'[o].your # 0 => sys'[o].your \in heard'[o]
    BY <1>8, <1>10, Zenon DEF HeardOf
  <2> QED
    BY <1>4, <1>11, <2>2, <2>3, <2>4, ZenonT(30) DEF HeardOf
<1> QED
  BY <1>4, <1>12, <1>13, HeardOfBoth, Zenon

LEMMA NetHeard ==
    ASSUME SoundInv, HeardInv, NEW n \in Nodes, NEW i \in DOMAIN net[n],
           Deliver(n, i) \/ Lose(n, i) \/ Repeat(n, i)
    PROVE  HeardInv'
<1>1. /\ net \in [Nodes -> Seq(Packets)] /\ rxq \in [Nodes -> SUBSET Packet]
  BY Zenon DEF SoundInv, TypeOK
<1>2. net[n] \in Seq(Told(n)) /\ net[n][i] \in Told(n)
  BY HeardFacts, LenProperties, ElementOfSeq, Zenon
<1>3. RemoveAt(net[n], i) \in Seq(Told(n)) /\ Append(net[n], net[n][i]) \in Seq(Told(n))
  BY <1>2, RemoveAtSeq, AppendProperties, Zenon
<1>4. ASSUME NEW m \in Nodes PROVE net'[m] \in Seq(Told(m))
  <2>1. net'[n] \in Seq(Told(n)) /\ (m # n => net'[m] = net[m])
    BY <1>1, <1>3, Zenon DEF Deliver, Lose, Repeat
  <2> QED
    BY <2>1, HeardFacts, Zenon
<1>5. ASSUME NEW m \in Nodes PROVE rxq'[m] \subseteq Told(m)
  <2>1. rxq'[n] \in {rxq[n], {net[n][i]}} /\ (m # n => rxq'[m] = rxq[m])
    BY <1>1, Zenon DEF Deliver, Lose, Repeat
  <2> QED
    BY <1>2, <2>1, HeardFacts, SMTT(30)
<1>6. sys' = sys /\ heard' = heard
  BY Zenon DEF Deliver, Lose, Repeat
<1> QED
  BY <1>4, <1>5, <1>6, HeardSame, Zenon

LEMMA TickHeard ==
    ASSUME SoundInv, HeardInv, Tick
    PROVE  HeardInv'
<1>1. ASSUME NEW n \in Nodes
      PROVE  sys'[n].st = sys[n].st /\ sys'[n].my = sys[n].my /\ sys'[n].your = sys[n].your
  BY Present, LaterFacts, TickIs, ZenonT(30)
<1>2. ASSUME NEW n \in Nodes PROVE net'[n] \in Seq(Told(n))
  <2>1. net[n] \in Seq(Told(n))
    BY HeardFacts
  <2>2. \A i \in DOMAIN net[n] : net[n][i] \in Told(n) /\ net[n][i].age < MaxDelay
    BY <2>1, LenProperties, ElementOfSeq, TickIs
  <2>3. \A i \in DOMAIN net[n] : Older(net[n][i]) \in Told(n)
    BY <2>2, OlderFacts, Zenon DEF Told
  <2>4. net'[n] = [i \in DOMAIN net[n] |-> Older(net[n][i])]
    BY TickIs, Zenon
  <2> QED
    BY <2>1, <2>3, <2>4, OlderSeq
<1>3. \A n \in Nodes : rxq'[n] \subseteq Told(n)
  BY TickIs, HeardFacts, Zenon
<1>4. heard' = heard
  BY TickIs, Zenon
<1> QED
  BY <1>1, <1>2, <1>3, <1>4, HeardSame, SMTT(30)

LEMMA HeardInit == Init => HeardInv
<1> SUFFICES ASSUME Init PROVE HeardInv
  OBVIOUS
<1>1. PICK j \in [Nodes -> Jitters] : sys = [n \in Nodes |-> newBfdPeer(n, 1, j[n])]
  BY DEF Init
<1>2. 1 \in Discriminators
  BY TimeAssumption DEF Discriminators
<1>3. \A n \in Nodes : sys[n].st = "Down" /\ sys[n].your = 0
  BY <1>1, <1>2, NewPeerFacts, SMTT(30)
<1>4. ASSUME NEW n \in Nodes PROVE net[n] \in Seq(Told(n)) /\ rxq[n] \subseteq Told(n)
  BY EmptySeq, Zenon DEF Init
<1> QED
  BY <1>3, <1>4, Zenon DEF HeardInv, UpWasHeard

LEMMA HeardNext == SoundInv /\ HeardInv /\ [Next]_vars => HeardInv'
<1> SUFFICES ASSUME SoundInv, HeardInv, [Next]_vars PROVE HeardInv'
  BY Zenon
<1>1. CASE UNCHANGED vars
  BY <1>1, HeardFacts, HeardSame, Zenon DEF vars
<1>2. ASSUME NEW n \in Nodes, NEW j \in Jitters,
             TxTimer(n, j) \/ RxPacket(n, j) \/ Expiry(n, j) \/ Restart(n, j)
      PROVE  HeardInv'
  BY <1>2, TxTimerHeard, RxPacketHeard, ExpiryHeard, RestartHeard, Zenon
<1>3. ASSUME NEW n \in Nodes, Start(n) PROVE HeardInv'
  BY <1>3, StartHeard, Zenon
<1>4. ASSUME NEW n \in Nodes, NEW i \in DOMAIN net[n], Deliver(n, i) \/ Lose(n, i) \/ Repeat(n, i)
      PROVE  HeardInv'
  BY <1>4, NetHeard, Zenon
<1>5. CASE Tick
  BY <1>5, TickHeard, Zenon
<1> QED
  BY <1>1, <1>2, <1>3, <1>4, <1>5, Zenon DEF Next

\* The handshake is sound whatever the network does and however often a system
\* restarts: no packet of an earlier session, and no repeated or late one, takes
\* a session Up with a system that has not heard it (the discriminator checks
\* and the state machine of rxPacket).
THEOREM UpWasHeardCorrect == Spec => []UpWasHeard
<1>1. Init => SoundInv /\ HeardInv
  BY SoundInit, HeardInit, Zenon
<1>2. SoundInv /\ HeardInv /\ [Next]_vars => (SoundInv /\ HeardInv)'
  BY SoundNext, HeardNext, Zenon
<1>3. HeardInv => UpWasHeard
  BY DEF HeardInv
<1> QED
  BY <1>1, <1>2, <1>3, PTL DEF Spec

=============================================================================
