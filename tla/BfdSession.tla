----------------------------- MODULE BfdSession -----------------------------
(***************************************************************************)
(* A BFD session between two systems that both run bfdPeer, over a network *)
(* that delays, reorders, repeats and loses packets, in discrete time.     *)
(* The state of a system is what bfdPeer.loop keeps; an action is one case *)
(* of its select.  Time passes (Tick) only when no timer has fired and no  *)
(* packet is overdue, so that a handler runs at the instant of its event,  *)
(* and events of the same instant are handled in any order.                *)
(*                                                                         *)
(* ResetPeer is taken to return at once; what happens when it has to wait  *)
(* is the subject of BfdControl.                                           *)
(***************************************************************************)
EXTENDS Integers, SequencesExt

CONSTANTS
    Nodes,        \* the two systems
    Slow,         \* bfdSlowTxInterval: one second, in ticks
    TxInterval,   \* TxInterval[n], RxInterval[n], Multiplier[n]: the configuration
    RxInterval,
    Multiplier,
    Jitters,      \* percentages that drawTxJitter may draw
    MaxDelay,     \* bound on the time a packet is on its way
    MaxFaults,    \* bound on the packets that are lost, repeated, overtaken or dropped
    MaxRestarts   \* bound on the times a system is started again

ASSUME NodesAssumption == \E m, n \in Nodes : m # n /\ Nodes = {m, n}
ASSUME TimeAssumption ==
    /\ Slow \in Nat \ {0} /\ MaxDelay \in Nat /\ MaxFaults \in Nat /\ MaxRestarts \in Nat
    /\ TxInterval \in [Nodes -> Nat \ {0}]
    /\ RxInterval \in [Nodes -> Nat \ {0}]
    /\ Multiplier \in [Nodes -> Nat \ {0}]
    /\ Jitters \subseteq 75 .. 100 /\ Jitters # {}

Off == -1    \* a ticker that is stopped

VARIABLES
    sys,       \* sys[n]: the bfdPeer of n
    rxq,       \* rxq[n]: eventRxPacket, at most one packet
    net,       \* net[n]: packets on their way to n
    heard,     \* heard[n]: remote discriminators n has accepted a packet from
    silence,   \* silence[n]: time since n accepted a packet
    faults,    \* faults of the network so far
    restarts   \* restarts so far

vars == <<sys, rxq, net, heard, silence, faults, restarts>>

other(n) == CHOOSE o \in Nodes : o # n

larger(x, y) == IF x > y THEN x ELSE y

States == {"Down", "Init", "Up"}

Discriminators == 1 .. (MaxRestarts + 1)

BfdPeer == [st: States, my: Discriminators, your: Discriminators \cup {0},
            desired: Nat, remoteRx: Nat, detect: Nat, left: Nat \cup {Off},
            poll: BOOLEAN, age: Nat, jitter: Jitters, timer: Nat, client: BOOLEAN]

\* tx is the Desired Min TX Interval.  Required Min RX Interval and Detect Mult
\* are those of the sender's configuration.
Packet == [st: States, poll: BOOLEAN, final: BOOLEAN, my: Discriminators,
           your: Discriminators \cup {0}, tx: Nat, age: 0 .. MaxDelay]

TypeOK ==
    /\ sys \in [Nodes -> BfdPeer]
    /\ rxq \in [Nodes -> SUBSET Packet] /\ \A n \in Nodes : Cardinality(rxq[n]) <= 1
    /\ net \in [Nodes -> Seq(Packet)]
    /\ heard \in [Nodes -> SUBSET Discriminators]
    /\ silence \in [Nodes -> Nat]
    /\ faults \in 0 .. MaxFaults /\ restarts \in 0 .. MaxRestarts

-----------------------------------------------------------------------------
(* Transmission.                                                           *)

effectiveTxInterval(r) == larger(r.desired, r.remoteRx)

jitteredTxInterval(r) == (effectiveTxInterval(r) * r.jitter) \div 100

\* tx: the timer starts again with a new jitter, from this moment.
Tx(r, j) ==
    LET drawn == [r EXCEPT !.jitter = j]
    IN  [drawn EXCEPT !.age = 0, !.timer = jitteredTxInterval(drawn)]

\* Mutant: the reply to a poll does not carry the Final bit.
sendPacket_NoFinal(r, poll, final, your) ==
    IF ~r.client THEN <<>>
    ELSE <<[st |-> r.st, poll |-> poll, final |-> FALSE,
            my |-> r.my, your |-> your, tx |-> r.desired, age |-> 0]>>

\* What sendPacket puts on the network: nothing while there is no socket.
sendPacket(r, poll, final, your) ==
    IF ~r.client THEN <<>>
    ELSE <<[st |-> r.st, poll |-> poll, final |-> final,
            my |-> r.my, your |-> your, tx |-> r.desired, age |-> 0]>>

TxPacket(r) == sendPacket(r, r.poll, FALSE, IF r.st = "Down" THEN 0 ELSE r.your)

Sent(n, packets) == net' = [net EXCEPT ![other(n)] = @ \o packets]

\* Mutant: the deadline is counted from now.
Remaining_FromNow(r) == jitteredTxInterval(r)

\* The time to the pacing deadline, which is counted from the last transmission.
Remaining(r) == jitteredTxInterval(r) - r.age

-----------------------------------------------------------------------------
(* The state setters, without the transmission that ends each of them.     *)

setDesiredMinTx(r, d) ==
    [r EXCEPT !.desired = d, !.poll = @ \/ (d # r.desired /\ r.your # 0)]

\* Mutant: the transmit interval and the Poll Sequence of the session that was
\* Up are kept.
setStateDown_Keeps(n, r) == [r EXCEPT !.st = "Down", !.your = 0, !.left = Off]

setStateDown(n, r) ==
    setDesiredMinTx([r EXCEPT !.st = "Down", !.your = 0, !.poll = FALSE, !.left = Off],
                    larger(TxInterval[n], Slow))

setStateInit(r, your) == [r EXCEPT !.st = "Init", !.your = your]

setStateUp(n, r, your) ==
    setDesiredMinTx([r EXCEPT !.st = "Up", !.your = your, !.left = r.detect], TxInterval[n])

\* Mutant: a system in Init waits for the other one to be Up.
Transition_WaitsForUp(n, r, h) ==
    CASE h.st = "Down" /\ r.st = "Down" -> setStateInit(r, h.my)
      [] h.st = "Down" /\ r.st = "Up" -> setStateDown(n, r)
      [] h.st = "Init" /\ r.st = "Down" -> setStateUp(n, r, h.my)
      [] h.st = "Up" /\ r.st = "Init" -> setStateUp(n, r, h.my)
      [] OTHER -> r

\* The state machine of rxPacket, for the state the remote system is in.
Transition(n, r, h) ==
    CASE h.st = "Down" /\ r.st = "Down" -> setStateInit(r, h.my)
      [] h.st = "Down" /\ r.st = "Up" -> setStateDown(n, r)
      [] h.st = "Init" /\ r.st # "Up" -> setStateUp(n, r, h.my)
      [] h.st = "Up" /\ r.st = "Init" -> setStateUp(n, r, h.my)
      [] OTHER -> r

-----------------------------------------------------------------------------
(* The cases of bfdPeer.loop.                                              *)

\* newBfdPeer, with a discriminator of its own: the code draws 32 random bits,
\* here no two sessions of a system draw the same.  There is no socket yet, and
\* remoteMinRxInterval is one microsecond, which is less than a tick.
newBfdPeer(n, d, j) ==
    Tx([st |-> "Down", my |-> d, your |-> 0, desired |-> larger(TxInterval[n], Slow),
        remoteRx |-> 0, detect |-> Multiplier[n] * RxInterval[n], left |-> Off,
        poll |-> FALSE, age |-> 0, jitter |-> j, timer |-> 0, client |-> FALSE], j)

Init ==
    /\ sys \in {[n \in Nodes |-> newBfdPeer(n, 1, j[n])] : j \in [Nodes -> Jitters]}
    /\ rxq = [n \in Nodes |-> {}]
    /\ net = [n \in Nodes |-> <<>>]
    /\ heard = [n \in Nodes |-> {}]
    /\ silence = [n \in Nodes |-> 0]
    /\ faults = 0 /\ restarts = 0

\* eventStart: the socket is opened; when that fails it is tried again.
Start(n) ==
    /\ ~sys[n].client
    /\ sys' = [sys EXCEPT ![n].client = TRUE]
    /\ UNCHANGED <<rxq, net, heard, silence, faults, restarts>>

\* eventTx: the periodic packet.
TxTimer(n, j) ==
    /\ sys[n].timer = 0
    /\ sys' = [sys EXCEPT ![n] = Tx(@, j)]
    /\ Sent(n, TxPacket(sys[n]))
    /\ UNCHANGED <<rxq, heard, silence, faults, restarts>>

\* Mutant: a Your Discriminator is not compared with that of the session.
Accepts_AnySession(r, h) == h.your # 0 \/ (h.st = "Down" /\ r.your \in {0, h.my})

\* The checks of rxPacket on the discriminators.
Accepts(r, h) ==
    IF h.your # 0 THEN h.your = r.my
    ELSE h.st = "Down" /\ r.your \in {0, h.my}

\* Mutant: the detection time of the documentation.
DetectionTime_Local(n, h) == Multiplier[n] * RxInterval[n]

DetectionTime(n, h) == Multiplier[other(n)] * larger(RxInterval[n], h.tx)

\* An accepted packet updates the timers and ends a Poll Sequence,
Noted(n, r, h) ==
    [r EXCEPT !.detect = DetectionTime(n, h), !.remoteRx = RxInterval[other(n)],
              !.poll = @ /\ ~h.final]

\* runs the state machine, a change of state being sent at once,
Moved(n, r, h) == Transition(n, Noted(n, r, h), h)

Announced(n, r, h, j) ==
    IF Moved(n, r, h).st # r.st THEN Tx(Moved(n, r, h), j) ELSE Moved(n, r, h)

\* and re-arms the detection timer
Watched(n, r, h, j) ==
    LET a == Announced(n, r, h, j) IN IF a.st # "Down" THEN [a EXCEPT !.left = a.detect] ELSE a

\* and the transmit timer, or sends when the pacing deadline has passed.
Paced(w, j) ==
    IF Remaining(w) <= 0 THEN Tx(w, j) ELSE [w EXCEPT !.timer = Remaining(w)]

\* eventRxPacket: what an accepted packet does; it is answered when it polls.
RxPacket(n, j) ==
    \E h \in rxq[n] :
        LET moved == Moved(n, sys[n], h)
            watched == Watched(n, sys[n], h, j)
            reply == IF h.poll THEN sendPacket(moved, FALSE, TRUE, h.my) ELSE <<>>
        IN  /\ rxq' = [rxq EXCEPT ![n] = {}]
            /\ IF ~Accepts(sys[n], h) THEN UNCHANGED <<sys, net, heard, silence>>
               ELSE /\ sys' = [sys EXCEPT ![n] = Paced(watched, j)]
                    /\ Sent(n, (IF moved.st # sys[n].st THEN TxPacket(moved) ELSE <<>>) \o reply
                               \o (IF Remaining(watched) <= 0 THEN TxPacket(moved) ELSE <<>>))
                    /\ heard' = [heard EXCEPT ![n] = @ \cup {h.my}]
                    /\ silence' = [silence EXCEPT ![n] = 0]
            /\ UNCHANGED <<faults, restarts>>

\* Mutant: the neighbor is reset and the session left as it is.
Expiry_Stays(n, j) ==
    /\ sys[n].left = 0
    /\ sys' = [sys EXCEPT ![n].left = sys[n].detect]
    /\ UNCHANGED <<rxq, net, heard, silence, faults, restarts>>

\* eventExpiry: the neighbor is reset and the session goes Down.
Expiry(n, j) ==
    LET down == setStateDown(n, sys[n])
    IN  /\ sys[n].left = 0
        /\ sys' = [sys EXCEPT ![n] = Tx(down, j)]
        /\ Sent(n, TxPacket(down))
        /\ UNCHANGED <<rxq, heard, silence, faults, restarts>>

\* The session is deleted and created again (a configuration change, or a
\* restart of the daemon).  Packets of the old session are still on their way.
Restart(n, j) ==
    /\ restarts < MaxRestarts
    /\ restarts' = restarts + 1
    /\ sys' = [sys EXCEPT ![n] = newBfdPeer(n, @.my + 1, j)]
    /\ rxq' = [rxq EXCEPT ![n] = {}]
    /\ heard' = [heard EXCEPT ![n] = {}]
    /\ silence' = [silence EXCEPT ![n] = 0]
    /\ UNCHANGED <<net, faults>>

-----------------------------------------------------------------------------
(* The network and time.                                                   *)

\* A fault of the network, counted against the bound.
Fault(happens) == faults' = faults + (IF happens THEN 1 ELSE 0) /\ faults' <= MaxFaults

\* The i-th packet on its way to n arrives.  bfdPeer.Rx drops a packet that
\* finds the queue full.
Deliver(n, i) ==
    /\ net' = [net EXCEPT ![n] = RemoveAt(@, i)]
    /\ rxq' = [rxq EXCEPT ![n] = IF @ = {} THEN {net[n][i]} ELSE @]
    /\ Fault(i > 1 \/ rxq[n] # {})
    /\ UNCHANGED <<sys, heard, silence, restarts>>

Lose(n, i) ==
    /\ net' = [net EXCEPT ![n] = RemoveAt(@, i)]
    /\ Fault(TRUE)
    /\ UNCHANGED <<sys, rxq, heard, silence, restarts>>

Repeat(n, i) ==
    /\ net' = [net EXCEPT ![n] = Append(@, @[i])]
    /\ Fault(TRUE)
    /\ UNCHANGED <<sys, rxq, heard, silence, restarts>>

Tick ==
    /\ \A n \in Nodes : sys[n].timer > 0 /\ sys[n].left # 0 /\ rxq[n] = {}
    /\ \A n \in Nodes : \A i \in DOMAIN net[n] : net[n][i].age < MaxDelay
    /\ sys' = [n \in Nodes |->
                 [sys[n] EXCEPT !.timer = @ - 1, !.age = @ + 1,
                                !.left = IF @ = Off THEN Off ELSE @ - 1]]
    /\ net' = [n \in Nodes |-> [i \in DOMAIN net[n] |-> [net[n][i] EXCEPT !.age = @ + 1]]]
    /\ silence' = [n \in Nodes |-> IF sys[n].st = "Down" THEN 0 ELSE silence[n] + 1]
    /\ UNCHANGED <<rxq, heard, faults, restarts>>

Next ==
    \/ \E n \in Nodes, j \in Jitters :
          TxTimer(n, j) \/ RxPacket(n, j) \/ Expiry(n, j) \/ Restart(n, j)
    \/ \E n \in Nodes : Start(n)
    \/ \E n \in Nodes : \E i \in DOMAIN net[n] : Deliver(n, i) \/ Lose(n, i) \/ Repeat(n, i)
    \/ Tick

Spec == Init /\ [][Next]_vars

\* Time goes on, timers and packets are served (some step can always be taken,
\* as deadlock is checked), and the socket can be opened.
FairSpec == Spec /\ []<><<TRUE>>_vars /\ \A n \in Nodes : SF_vars(Start(n))

-----------------------------------------------------------------------------
(* Properties.                                                             *)

InFlight == UNION {{net[n][i] : i \in DOMAIN net[n]} : n \in Nodes}

\* While a session is not Up, its system neither sends faster than once a
\* second nor says in a packet that it will.
SlowUnlessUp ==
    /\ \A n \in Nodes : sys[n].st # "Up" => sys[n].desired >= Slow
    /\ \A p \in InFlight : p.st # "Up" => p.tx >= Slow

\* A Poll Sequence runs only while the session is Up, so that no poll goes to a
\* system that holds no session; a reply to a poll is not a poll itself.
PollsBound ==
    /\ \A n \in Nodes : sys[n].poll => sys[n].st = "Up" /\ sys[n].your # 0
    /\ \A p \in InFlight : p.poll => p.your # 0 /\ ~p.final

\* What belongs to the Up state stays in it: fast transmission and polls; and
\* timers and queues keep their bounds in every state.
UpOnly == TypeOK /\ SlowUnlessUp /\ PollsBound

\* Received packets do not hold up transmission: the next packet is sent when
\* the transmit interval has passed since the last one, at the latest.
TxOnTime == \A n \in Nodes : sys[n].age <= effectiveTxInterval(sys[n])

\* A system counts the session as Init or Up no longer than the detection time
\* after the last packet it accepted.
SilenceDetected ==
    \A n \in Nodes : sys[n].st # "Down" => silence[n] <= sys[n].detect

\* A session that is Up never comes to the end of its detection time as long as
\* neither system restarts, when fewer packets in a row are lost than the
\* multiplier allows for and the delay varies by less than what is left of the
\* detection time then.
NoFalseAlarm ==
    restarts = 0 => \A n \in Nodes : sys[n].st = "Up" => sys[n].left > 0

\* The handshake: a system whose session is Up with the present session of the
\* other one has been heard by it.
UpWasHeard ==
    \A n \in Nodes :
        sys[n].st = "Up" /\ sys[n].your = sys[other(n)].my =>
            sys[n].my \in heard[other(n)]

\* When there are no more faults and restarts, both systems come up for good,
\* whatever state they left each other in.
ComesUp == <>[](\A n \in Nodes : sys[n].st = "Up")

\* Every Poll Sequence ends.
PollEnds == \A n \in Nodes : sys[n].poll ~> ~sys[n].poll

=============================================================================
