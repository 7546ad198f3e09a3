----------------------------- MODULE BfdControl -----------------------------
(***************************************************************************)
(* How BFD sessions are created and removed: the management operations and *)
(* FSM callbacks that hold the write side of shared.mu, the channel of the *)
(* BFD server, its loop, and the loop of every session.  A session that    *)
(* fails asks the dispatcher to reset the neighbor and waits for the       *)
(* answer; the BFD server waits for the session it stops; the dispatcher   *)
(* waits for room in the channel of the BFD server.                        *)
(*                                                                         *)
(* What a session sends and receives is the subject of BfdSession; here it *)
(* is up or down and may fail at any time.                                 *)
(***************************************************************************)
EXTENDS Naturals, Sequences, FiniteSets

CONSTANTS
    Addresses,   \* addresses of neighbors
    Dynamic,     \* the ones a dynamic neighbor may connect from
    Ids,         \* identities of the peer objects of BgpServer
    Sessions,    \* identities of the bfdPeer objects
    Confs,       \* BFD configurations
    NoConf,      \* BFD is not enabled
    None,        \* no neighbor, no session
    MaxOps       \* bound on the management operations of a behavior

ASSUME ConfAssumption == NoConf \notin Confs
ASSUME DynamicAssumption == Dynamic \subseteq Addresses

\* The buffer of eventPeerUpdate.
ChanCap == 1

VARIABLES
    nbr,        \* nbr[a]: the neighbor in neighborMap, or None
    leaving,    \* dynamic neighbors whose callback is about to call stopNeighbor
    section,    \* events the holder of shared.mu has still to send
    stopping,   \* StopBgp holds shared.mu and deletes the neighbors
    serving,    \* the dispatcher (BgpServer.Serve) runs
    chan,       \* eventPeerUpdate
    peers,      \* peers[a]: the session in bfdServer.peers, or None
    joining,    \* the session the BFD server waits for, or None
    rest,       \* sessions that shutdown has still to stop
    sess,       \* sess[x]: the session object x, or None
    loop,       \* the BFD server's loop: "run", "shutdown" or "done"
    config,     \* the BFD server has its configuration
    listening,  \* its UDP socket is open and serverLoop runs
    armed,      \* eventStartStop ticks
    stopped,    \* Stop was called
    ops         \* number of management operations so far

lockVars == <<nbr, leaving, section, stopping, serving, ops>>
loopVars == <<peers, joining, rest, loop, config, listening, armed>>
vars == <<lockVars, chan, loopVars, sess, stopped>>

Events == [add: {TRUE}, addr: Addresses, conf: Confs]
          \cup [add: {FALSE}, addr: Addresses, conf: {NoConf}]
Add(a, c) == [add |-> TRUE, addr |-> a, conf |-> c]
Delete(a) == [add |-> FALSE, addr |-> a, conf |-> NoConf]

Neighbor == [id: Ids, dynamic: BOOLEAN, bfd: Confs \cup {NoConf}]

\* A bfdPeer: it is up in the states Init and Up; its goroutine is in "loop", or
\* waits in ResetPeer ("reset"), or has ended.
Session == [addr: Addresses, conf: Confs, up: BOOLEAN, closed: BOOLEAN,
            phase: {"loop", "reset", "done"}]

ASSUME NoneAssumption == None \notin Sessions \cup Session \cup Neighbor

TypeOK ==
    /\ nbr \in [Addresses -> Neighbor \cup {None}]
    /\ leaving \subseteq Addresses \X Ids
    /\ section \in Seq(Events) /\ chan \in Seq(Events)
    /\ stopping \in BOOLEAN /\ serving \in BOOLEAN /\ stopped \in BOOLEAN
    /\ peers \in [Addresses -> Sessions \cup {None}]
    /\ joining \in Sessions \cup {None}
    /\ rest \subseteq Sessions
    /\ sess \in [Sessions -> Session \cup {None}]
    /\ loop \in {"run", "shutdown", "done"}
    /\ config \in BOOLEAN /\ listening \in BOOLEAN /\ armed \in BOOLEAN
    /\ ops \in Nat

Init ==
    /\ nbr = [a \in Addresses |-> None]
    /\ leaving = {} /\ section = <<>> /\ stopping = FALSE /\ serving = TRUE
    /\ chan = <<>>
    /\ peers = [a \in Addresses |-> None]
    /\ joining = None /\ rest = {} /\ loop = "run"
    /\ sess = [x \in Sessions |-> None]
    /\ config = FALSE /\ listening = FALSE /\ armed = TRUE
    /\ stopped = FALSE
    /\ ops = 0

-----------------------------------------------------------------------------
(* Operations under the write side of shared.mu.                           *)

LockFree == section = <<>> /\ ~stopping

Operation == LockFree /\ serving /\ ops < MaxOps /\ ops' = ops + 1

\* addPeer sends nothing when BFD is not enabled.
AddEvents(a, c) == IF c = NoConf THEN <<>> ELSE <<Add(a, c)>>

\* Used: identities of the neighbors that still exist somewhere.
Used == {nbr[a].id : a \in {b \in Addresses : nbr[b] # None}} \cup {l[2] : l \in leaving}

\* A static neighbor is configured, or a dynamic one connects.
addNeighbor(a, i, dynamic, c) ==
    /\ Operation
    /\ nbr[a] = None /\ i \notin Used
    /\ dynamic => a \in Dynamic
    /\ nbr' = [nbr EXCEPT ![a] = [id |-> i, dynamic |-> dynamic, bfd |-> c]]
    /\ section' = AddEvents(a, c)
    /\ UNCHANGED <<leaving, stopping, serving, chan, loopVars, sess, stopped>>

\* Mutant: the new session is added before the old one is deleted.
updateBfdPeer_AddFirst(a, c) == AddEvents(a, c) \o (IF nbr[a].bfd # NoConf THEN <<Delete(a)>> ELSE <<>>)

updateBfdPeer(a, c) == (IF nbr[a].bfd # NoConf THEN <<Delete(a)>> ELSE <<>>) \o AddEvents(a, c)

updateNeighbor(a, c) ==
    /\ Operation
    /\ nbr[a] # None /\ nbr[a].bfd # c
    /\ nbr' = [nbr EXCEPT ![a].bfd = c]
    /\ section' = updateBfdPeer(a, c)
    /\ UNCHANGED <<leaving, stopping, serving, chan, loopVars, sess, stopped>>

\* DeletePeer is sent for a neighbor without BFD too.
deleteNeighbor(a) ==
    /\ Operation
    /\ nbr[a] # None
    /\ nbr' = [nbr EXCEPT ![a] = None]
    /\ section' = <<Delete(a)>>
    /\ UNCHANGED <<leaving, stopping, serving, chan, loopVars, sess, stopped>>

\* StopBgp deletes one neighbor after the other and then ends the dispatcher.
StopBgp ==
    /\ Operation
    /\ stopping' = TRUE
    /\ UNCHANGED <<nbr, leaving, section, serving, chan, loopVars, sess, stopped>>

StopBgpNext(a) ==
    /\ stopping /\ section = <<>> /\ nbr[a] # None
    /\ nbr' = [nbr EXCEPT ![a] = None]
    /\ section' = <<Delete(a)>>
    /\ UNCHANGED <<leaving, stopping, serving, ops, chan, loopVars, sess, stopped>>

StopBgpEnd ==
    /\ stopping /\ section = <<>> /\ \A a \in Addresses : nbr[a] = None
    /\ stopping' = FALSE /\ serving' = FALSE
    /\ UNCHANGED <<nbr, leaving, section, ops, chan, loopVars, sess, stopped>>

\* The session of a dynamic neighbor ends: its callback has released the read
\* lock and has still to take the write lock.
DynamicDown(a) ==
    /\ nbr[a] # None /\ nbr[a].dynamic
    /\ LockFree
    /\ leaving' = leaving \cup {<<a, nbr[a].id>>}
    /\ <<a, nbr[a].id>> \notin leaving
    /\ UNCHANGED <<nbr, section, stopping, serving, ops, chan, loopVars, sess, stopped>>

\* The callback goes on.  The neighbor map is only changed if it still holds
\* this very neighbor; the BFD session of the address is deleted in any case.
stopNeighbor(a, i) ==
    /\ LockFree
    /\ <<a, i>> \in leaving
    /\ leaving' = leaving \ {<<a, i>>}
    /\ nbr' = IF nbr[a] # None /\ nbr[a].id = i THEN [nbr EXCEPT ![a] = None] ELSE nbr
    /\ section' = <<Delete(a)>>
    /\ UNCHANGED <<stopping, serving, ops, chan, loopVars, sess, stopped>>

\* The holder of the lock sends its next event, when there is room.
Send ==
    /\ section # <<>> /\ Len(chan) < ChanCap
    /\ chan' = Append(chan, Head(section))
    /\ section' = Tail(section)
    /\ UNCHANGED <<nbr, leaving, stopping, serving, ops, loopVars, sess, stopped>>

-----------------------------------------------------------------------------
(* The loop of the BFD server.                                             *)

Idle == loop = "run" /\ joining = None

NewSession(a, c) == [addr |-> a, conf |-> c, up |-> FALSE, closed |-> FALSE, phase |-> "loop"]

\* A session that exists already is left alone.
addBfdPeer(e, x) ==
    /\ e.add
    /\ IF peers[e.addr] # None
       THEN UNCHANGED <<peers, sess>>
       ELSE /\ peers' = [peers EXCEPT ![e.addr] = x]
            /\ sess' = [sess EXCEPT ![x] = NewSession(e.addr, e.conf)]
    /\ UNCHANGED joining

\* Mutant: Stop closes the channel and does not wait for the goroutine.
deleteBfdPeer_NoWait(e) ==
    /\ ~e.add
    /\ IF peers[e.addr] = None
       THEN UNCHANGED <<peers, sess>>
       ELSE /\ peers' = [peers EXCEPT ![e.addr] = None]
            /\ sess' = [sess EXCEPT ![peers[e.addr]].closed = TRUE]
    /\ UNCHANGED joining

\* Stop closes eventShutdown and waits for the session's goroutine.
deleteBfdPeer(e) ==
    /\ ~e.add
    /\ IF peers[e.addr] = None
       THEN UNCHANGED <<peers, sess, joining>>
       ELSE /\ peers' = [peers EXCEPT ![e.addr] = None]
            /\ sess' = [sess EXCEPT ![peers[e.addr]].closed = TRUE]
            /\ joining' = peers[e.addr]

\* The loop takes an event; the ticker is set again afterwards.  The identity
\* of a new session is any unused one.
PeerUpdate ==
    /\ Idle /\ chan # <<>>
    /\ chan' = Tail(chan)
    /\ armed' = TRUE
    /\ \/ \E x \in {y \in Sessions : sess[y] = None} : addBfdPeer(Head(chan), x)
       \/ deleteBfdPeer(Head(chan))
    /\ UNCHANGED <<lockVars, rest, loop, config, listening, stopped>>

\* The goroutine the loop waits for has ended.
Joined ==
    /\ joining # None /\ sess[joining].phase = "done"
    /\ sess' = [sess EXCEPT ![joining] = None]
    /\ joining' = None
    /\ UNCHANGED <<lockVars, chan, peers, rest, loop, config, listening, armed, stopped>>

\* The configuration arrives (StartBgp).
Config ==
    /\ Idle /\ ~config
    /\ config' = TRUE
    /\ UNCHANGED <<lockVars, chan, peers, joining, rest, loop, listening, armed, sess, stopped>>

\* Mutant: the ticker is stopped whether or not the socket could be opened.
StartStop_GivesUp(ok) ==
    /\ Idle /\ armed
    /\ listening' = ((\E a \in Addresses : peers[a] # None) /\ (listening \/ (config /\ ok)))
    /\ armed' = FALSE
    /\ UNCHANGED <<lockVars, chan, peers, joining, rest, loop, config, sess, stopped>>

\* eventStartStop: open the socket when there are sessions, close it when
\* there are none, and try again later when it cannot be opened.
StartStop(ok) ==
    /\ Idle /\ armed
    /\ listening' = ((\E a \in Addresses : peers[a] # None) /\ (listening \/ (config /\ ok)))
    /\ armed' = ((\E a \in Addresses : peers[a] # None) /\ ~listening')
    /\ UNCHANGED <<lockVars, chan, peers, joining, rest, loop, config, sess, stopped>>

\* BgpServer.Stop goes on to the BFD server when StopBgp has returned, which
\* waits for the dispatcher and the callbacks.
Stop ==
    /\ ~serving /\ leaving = {} /\ LockFree /\ ~stopped
    /\ stopped' = TRUE
    /\ UNCHANGED <<lockVars, chan, loopVars, sess>>

\* The loop sees that eventShutdown is closed: the sessions left are stopped
\* one after the other.
Shutdown ==
    /\ Idle /\ stopped
    /\ loop' = "shutdown"
    /\ rest' = {peers[a] : a \in Addresses} \ {None}
    /\ peers' = [a \in Addresses |-> None]
    /\ UNCHANGED <<lockVars, chan, joining, config, listening, armed, sess, stopped>>

ShutdownNext ==
    /\ loop = "shutdown" /\ joining = None
    /\ \E x \in rest : /\ joining' = x
                       /\ rest' = rest \ {x}
                       /\ sess' = [sess EXCEPT ![x].closed = TRUE]
    /\ UNCHANGED <<lockVars, chan, peers, loop, config, listening, armed, stopped>>

ShutdownEnd ==
    /\ loop = "shutdown" /\ joining = None /\ rest = {}
    /\ loop' = "done"
    /\ listening' = FALSE /\ armed' = FALSE
    /\ UNCHANGED <<lockVars, chan, peers, joining, rest, config, sess, stopped>>

-----------------------------------------------------------------------------
(* The loop of a session (bfdPeer.loop).                                   *)

Running(x) == sess[x] # None /\ sess[x].phase = "loop"

SessionUp(x) ==
    /\ Running(x) /\ ~sess[x].up
    /\ sess' = [sess EXCEPT ![x].up = TRUE]
    /\ UNCHANGED <<lockVars, chan, loopVars, stopped>>

\* The detection time expires or the remote system signals Down: the goroutine
\* calls ResetPeer, which is a management operation.
SessionFails(x) ==
    /\ Running(x) /\ sess[x].up
    /\ sess' = [sess EXCEPT ![x].phase = "reset"]
    /\ UNCHANGED <<lockVars, chan, loopVars, stopped>>

\* Mutant: ResetPeer does not return when the server has been stopped.
ResetPeer_Served(x) ==
    /\ sess[x] # None /\ sess[x].phase = "reset"
    /\ serving /\ LockFree
    /\ sess' = [sess EXCEPT ![x].phase = "loop", ![x].up = FALSE]
    /\ UNCHANGED <<lockVars, chan, loopVars, stopped>>

\* The dispatcher runs the operation, or has ended and closed closeCh.  Then
\* the state of the session is set to Down.
ResetPeer(x) ==
    /\ sess[x] # None /\ sess[x].phase = "reset"
    /\ serving => LockFree
    /\ sess' = [sess EXCEPT ![x].phase = "loop", ![x].up = FALSE]
    /\ UNCHANGED <<lockVars, chan, loopVars, stopped>>

SessionShutdown(x) ==
    /\ Running(x) /\ sess[x].closed
    /\ sess' = [sess EXCEPT ![x].phase = "done"]
    /\ UNCHANGED <<lockVars, chan, loopVars, stopped>>

-----------------------------------------------------------------------------

LockNext ==
    \/ \E a \in Addresses, i \in Ids, dynamic \in BOOLEAN, c \in Confs \cup {NoConf} :
          addNeighbor(a, i, dynamic, c)
    \/ \E a \in Addresses, c \in Confs \cup {NoConf} : updateNeighbor(a, c)
    \/ \E a \in Addresses : deleteNeighbor(a) \/ StopBgpNext(a) \/ DynamicDown(a)
    \/ \E a \in Addresses, i \in Ids : stopNeighbor(a, i)
    \/ StopBgp \/ StopBgpEnd \/ Send \/ Stop

LoopNext ==
    \/ PeerUpdate \/ Joined \/ Config
    \/ \E ok \in BOOLEAN : StartStop(ok)
    \/ Shutdown \/ ShutdownNext \/ ShutdownEnd

SessionNext ==
    \E x \in Sessions : SessionUp(x) \/ SessionFails(x) \/ ResetPeer(x) \/ SessionShutdown(x)

Next == LockNext \/ LoopNext \/ SessionNext

Spec == Init /\ [][Next]_vars

\* Goroutines that can go on do so: the holder of the lock, whoever waits for
\* it, the BFD server's loop, a session. Opening the socket succeeds in the
\* end. The select of a session does not pass over its shutdown for ever.
Fairness ==
    /\ WF_vars(Send \/ StopBgpEnd \/ Stop \/ \E a \in Addresses : StopBgpNext(a))
    /\ WF_vars(\E a \in Addresses, i \in Ids : stopNeighbor(a, i))
    /\ WF_vars(\/ PeerUpdate \/ Joined \/ Config \/ StartStop(TRUE)
               \/ Shutdown \/ ShutdownNext \/ ShutdownEnd)
    /\ \A x \in Sessions : WF_vars(ResetPeer(x)) /\ SF_vars(SessionShutdown(x))

FairSpec == Spec /\ Fairness

-----------------------------------------------------------------------------
(* Properties.                                                             *)

\* Sessions whose goroutine has not ended.
Alive == {x \in Sessions : sess[x] # None /\ sess[x].phase # "done"}

\* An address never has two BFD sessions at work: the old one has ended before
\* the new one is made, however quickly a neighbor is changed.
OneSession ==
    \A x, y \in Alive : sess[x].addr = sess[y].addr => x = y

\* No goroutine of a session is forgotten: the BFD server has the session in
\* its map, or is waiting for it, or will stop it before it ends.
NoOrphan ==
    \A x \in Alive : peers[sess[x].addr] = x \/ joining = x \/ x \in rest

\* The inductive invariant behind the two: every session object, ended or not,
\* has one place, and no two objects are for the same address.
SessionInv ==
    /\ \A a \in Addresses : peers[a] # None =>
          sess[peers[a]] # None /\ sess[peers[a]].addr = a
    /\ joining # None => sess[joining] # None /\ peers[sess[joining].addr] = None
    /\ \A x \in rest : sess[x] # None /\ x # joining
    /\ rest # {} => loop = "shutdown"
    /\ loop # "run" => \A a \in Addresses : peers[a] = None
    /\ \A x \in Sessions : sess[x] # None =>
          peers[sess[x].addr] = x \/ joining = x \/ x \in rest
    /\ \A x, y \in Sessions :
          sess[x] # None /\ sess[y] # None /\ sess[x].addr = sess[y].addr => x = y

\* All events under way have been handled.
Settled == section = <<>> /\ chan = <<>> /\ joining = None /\ ~stopping

\* The BFD server has a session for the neighbor at a if it has BFD enabled,
\* with its latest configuration, and none otherwise.
FollowsConfig(a) ==
    IF nbr[a] # None /\ nbr[a].bfd # NoConf
    THEN peers[a] # None /\ sess[peers[a]].conf = nbr[a].bfd
    ELSE peers[a] = None

\* When all events have been handled, the BFD session of an address that no
\* dynamic neighbor can take is the one of its neighbor: however adds, updates
\* and deletions of other neighbors come between, the events of such an address
\* are handled in the order in which its neighbor changed. (stopNeighbor deletes
\* the session of a dynamic neighbor's address even when a new neighbor has
\* taken it, so the same does not hold for every address.)
StaticFollowConfig ==
    Settled /\ loop = "run" => \A a \in Addresses \ Dynamic : FollowsConfig(a)

\* A session that fails gets its neighbor reset.
ResetHappens ==
    \A x \in Sessions : (sess[x] # None /\ sess[x].phase = "reset") ~>
                            (sess[x] = None \/ sess[x].phase # "reset")

\* The one circular wait: the holder of shared.mu waits for room in the
\* channel, the loop for a session, and that session for the lock.
CircularWait ==
    /\ serving /\ section # <<>> /\ Len(chan) = ChanCap
    /\ joining # None /\ sess[joining].phase = "reset"

\* A session that fails gets its neighbor reset, unless the circular wait of
\* the dispatcher, the BFD server and a session it stops has come about.
ResetOrWait ==
    \A x \in Sessions : (sess[x] # None /\ sess[x].phase = "reset") ~>
                            (sess[x] = None \/ sess[x].phase # "reset" \/ CircularWait)

\* Once the sessions no longer change, the socket is open if there are any and
\* closed if there are none, but for the circular wait.
ListenerFollows ==
    /\ <>[](\E a \in Addresses : peers[a] # None) => <>[](listening \/ CircularWait)
    /\ <>[](\A a \in Addresses : peers[a] = None) => <>[](~listening \/ CircularWait)

\* Stopping the server ends, the BFD server's loop and every session with it,
\* unless the circular wait has come about.
StopEnds == stopping ~> (loop = "done" /\ Alive = {}) \/ CircularWait

=============================================================================
