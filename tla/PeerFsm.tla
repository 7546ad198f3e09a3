------------------------------ MODULE PeerFsm ------------------------------
(***************************************************************************)
(* The finite state machine of one neighbor (fsm.go): the loop goroutine   *)
(* and its state functions, the goroutines that read and write the         *)
(* connection, the outgoing connection manager that dials the peer beside  *)
(* it, the channels of capacity one over which the server passes accepted  *)
(* connections, notifications and administrative requests, and connection  *)
(* collision. The remote speaker and the network are external: what they   *)
(* may do is bounded by MaxFaults and MaxIncoming.                         *)
(***************************************************************************)
EXTENDS Naturals, Sequences, FiniteSets

CONSTANTS Conn,          \* connections (identifiers are reused once closed)
          NoConn,        \* nil, or a connection already closed
          Mgr,           \* outgoing connection managers that may coexist
          NoMgr,
          Passive,       \* Transport.Config.PassiveMode
          Dynamic,       \* created from a dynamic neighbor prefix
          Graceful,      \* graceful restart is negotiated
          NotifyBit,     \* ... with notification support (RFC 8538)
          LocalId, RemoteId, LocalAs, RemoteAs,
          MaxFaults,     \* failures of the peer, the network and the timers
          MaxOps,        \* management operations
          MaxIncoming    \* connections accepted from the peer

ASSUME PeerFsmAssumption ==
    /\ NoConn \notin Conn /\ NoMgr \notin Mgr
    /\ {Passive, Dynamic, Graceful, NotifyBit} \subseteq BOOLEAN
    /\ {LocalId, RemoteId, LocalAs, RemoteAs, MaxFaults, MaxOps, MaxIncoming} \subseteq Nat

VARIABLES
    state,       \* the state function being run, "GONE" after the loop
    pc,          \* where in the iteration of loop() the goroutine is
    next, reason,\* what the state function returned
    conn,        \* fsm.conn
    recvOpen,    \* the connection fsm.recvOpen was read from
    conns,       \* every connection, with the peer's end
    rd,          \* the recvMessage goroutine of OPENSENT and OPENCONFIRM
    mgr, cur,    \* the managers, and fsm.outgoingConnMgr
    outgoingConnCh, connCh, adminStateCh, notification, deconfigured,
    adminState,  \* fsm.adminState
    adminDown,   \* pConf.State.AdminDown, as the API reports it
    reasonCh, sender, receiver,   \* the goroutines of ESTABLISHED
    poison,      \* outgoingCh holds the item that ends a send loop
    idleTimer, restartTimer, peerRestarting,
    ctx,         \* the handler's context is cancelled
    configured,  \* the neighbor is in neighborMap
    deletion,    \* deleteNeighbor was called, and with or without a notification
    faults, ops, incoming

loopVars  == <<state, pc, next, reason>>
connVars  == <<conn, recvOpen, conns, rd>>
mgrVars   == <<mgr, cur, outgoingConnCh>>
adminVars == <<adminState, adminDown, adminStateCh>>
ioVars    == <<reasonCh, sender, receiver, poison>>
timerVars == <<idleTimer, restartTimer, peerRestarting>>
ctlVars   == <<ctx, configured, deletion, deconfigured>>
boundVars == <<faults, ops, incoming>>
vars == <<loopVars, connVars, mgrVars, adminVars, ioVars, timerVars, ctlVars, boundVars,
          connCh, notification>>

Up == "Up"
Down == "Down"
PfxCt == "PfxCt"
None == "none"

Message == {"open", "keepalive", "bad", "notification"}
Reason == {None, "Dying", "IdleTimerExpired", "NewConnection", "OpenMsgReceived",
           "OpenMsgNegotiated", "WriteFailed", "ReadFailed", "InvalidMsg", "HoldTimerExpired",
           "HoldSent", "NotificationSent", "NotificationRecv", "HardReset", "AdminDown",
           "RestartTimerExpired", "GracefulRestart"}

NoReader == [on |-> NoConn, msg |-> None]
Closed == [st |-> "closed", dir |-> None, tx |-> {}, peer |-> 0, rx |-> <<>>, alive |-> FALSE]
Opened(dir, tx) == [st |-> "open", dir |-> dir, tx |-> tx, peer |-> 0, rx |-> <<>>, alive |-> TRUE]
Stopped == [pc |-> "done", conn |-> NoConn, cancelled |-> TRUE]
Dialing == [pc |-> "connect", conn |-> NoConn, cancelled |-> FALSE]

Init ==
    /\ state = "IDLE" /\ pc = "run" /\ next = "IDLE" /\ reason = None
    /\ conn = NoConn /\ recvOpen = NoConn
    /\ conns = [c \in Conn |-> Closed] /\ rd = NoReader
    /\ mgr = [m \in Mgr |-> Stopped] /\ cur = NoMgr
    /\ outgoingConnCh = NoConn /\ connCh = NoConn
    /\ adminState \in {Up, Down} /\ adminDown = (adminState = Down)
    /\ adminStateCh = None /\ notification = None
    /\ reasonCh = <<>> /\ sender = FALSE /\ receiver = FALSE /\ poison = FALSE
    /\ idleTimer = TRUE /\ restartTimer = FALSE /\ peerRestarting = FALSE
    /\ ctx = FALSE /\ configured = TRUE /\ deletion = None /\ deconfigured = FALSE
    /\ faults = 0 /\ ops = 0 /\ incoming = 0

----------------------------------------------------------------------------
(* Connections *)

\* A connection that is closed is never mistaken for a later one.
Close(S) ==
    /\ conns' = [c \in Conn |-> IF c \in S THEN Closed ELSE conns[c]]
    /\ conn' = IF conn \in S THEN NoConn ELSE conn
    /\ recvOpen' = IF recvOpen \in S THEN NoConn ELSE recvOpen

\* Identifiers that no goroutine and no channel still refers to: a bound of
\* the model, with enough of them there is always one.
Referenced == {conn, recvOpen, rd.on, connCh, outgoingConnCh} \cup {mgr[m].conn : m \in Mgr}
Free == {c \in Conn : conns[c].st = "closed"} \ Referenced
Fresh == CHOOSE c \in Free : TRUE

\* Writing fails on a connection closed by either end; when only the peer has
\* closed it, the first write may still succeed.
WriteOutcomes(c) ==
    IF c = NoConn \/ conns[c].st = "closed" THEN {FALSE}
    ELSE IF conns[c].alive THEN {TRUE} ELSE BOOLEAN

Fault == faults < MaxFaults /\ faults' = faults + 1 /\ UNCHANGED <<ops, incoming>>
Operation == ops < MaxOps /\ ops' = ops + 1 /\ UNCHANGED <<faults, incoming>>

\* deleteNeighbor holds the server's lock, which callbacks and other
\* operations wait for, from its beginning to the end of the loop.
Locked == configured /\ deletion # None

\* isDominant: the outgoing connection survives a collision.
isDominant == LocalId > RemoteId \/ (LocalId = RemoteId /\ LocalAs > RemoteAs)

----------------------------------------------------------------------------
(* The outgoing connection manager *)

\* newOutGoingConnManager; run returns at once for a passive neighbor. That a
\* manager is left to take is a bound of the model, as with Free.
newOutgoingConnManager ==
    LET m == CHOOSE m \in Mgr : mgr[m].pc = "done" IN
    /\ \E k \in Mgr : mgr[k].pc = "done"
    /\ mgr' = [mgr EXCEPT ![m] = IF Passive THEN Stopped ELSE Dialing]
    /\ cur' = m

MgrRest == UNCHANGED <<loopVars, rd, cur, adminVars, ioVars, timerVars, ctlVars, connCh,
                       notification>>

\* connectLoop returns a connection on which the OPEN is written.
MgrConnect(m) ==
    /\ mgr[m].pc = "connect" /\ ~mgr[m].cancelled /\ Free # {}
    /\ conns' = [conns EXCEPT ![Fresh] = Opened("out", {"open"})]
    /\ mgr' = [mgr EXCEPT ![m].pc = "opensent", ![m].conn = Fresh]
    /\ MgrRest /\ UNCHANGED <<conn, recvOpen, outgoingConnCh, boundVars>>

\* The manager gives its connection up and dials again.
MgrRedial(m) ==
    /\ mgr' = [mgr EXCEPT ![m].pc = "connect", ![m].conn = NoConn]
    /\ Close({mgr[m].conn})
    /\ MgrRest /\ UNCHANGED outgoingConnCh

\* The first message of the peer: a valid OPEN makes the connection ready,
\* anything else, or the end of the connection, starts over.
MgrRecv(m) ==
    /\ mgr[m].pc = "opensent"
    /\ LET k == conns[mgr[m].conn] IN
       \/ /\ k.rx # <<>> /\ Head(k.rx) = "open"
          /\ conns' = [conns EXCEPT ![mgr[m].conn].rx = Tail(@)]
          /\ mgr' = [mgr EXCEPT ![m].pc = "deliver"]
          /\ MgrRest /\ UNCHANGED <<conn, recvOpen, outgoingConnCh, boundVars>>
       \/ /\ IF k.rx = <<>> THEN ~k.alive ELSE Head(k.rx) # "open"
          /\ MgrRedial(m) /\ UNCHANGED boundVars

MgrHoldTimer(m) == mgr[m].pc = "opensent" /\ Fault /\ MgrRedial(m)

\* The connection is handed to the loop; run ends and cancels its context.
MgrDeliver(m) ==
    /\ mgr[m].pc = "deliver" /\ outgoingConnCh = NoConn
    /\ outgoingConnCh' = mgr[m].conn
    /\ mgr' = [mgr EXCEPT ![m] = Stopped]
    /\ MgrRest /\ UNCHANGED <<conn, recvOpen, conns, boundVars>>

\* Mutant: connectLoop does not watch its context.
MgrCancelled_Opensent(m) ==
    /\ mgr[m].pc = "opensent" /\ (mgr[m].cancelled \/ ctx)
    /\ mgr' = [mgr EXCEPT ![m] = Stopped]
    /\ Close({mgr[m].conn})
    /\ MgrRest /\ UNCHANGED <<outgoingConnCh, boundVars>>

\* The context of the manager, or its parent, is cancelled.
MgrCancelled(m) ==
    /\ mgr[m].pc \in {"connect", "opensent"} /\ (mgr[m].cancelled \/ ctx)
    /\ mgr' = [mgr EXCEPT ![m] = Stopped]
    /\ Close({mgr[m].conn})
    /\ MgrRest /\ UNCHANGED <<outgoingConnCh, boundVars>>

\* stop: cancel the context, wait for run, close what it had delivered.
StopMgr(at) ==
    /\ pc' = at
    /\ mgr' = [mgr EXCEPT ![cur].cancelled = TRUE]
    /\ UNCHANGED <<cur, outgoingConnCh>>

MgrStopped ==
    /\ pc \in {"stopInState", "stopInLoop"} /\ mgr[cur].pc = "done"
    /\ Close({outgoingConnCh}) /\ outgoingConnCh' = NoConn
    /\ pc' = IF pc = "stopInState" THEN "leave" ELSE "callback"
    /\ UNCHANGED <<state, next, reason, rd, mgr, cur, adminVars, ioVars, timerVars, ctlVars,
                   boundVars, connCh, notification>>

----------------------------------------------------------------------------
(* The state functions *)

In(s) == state = s /\ pc = "run"
Stay == UNCHANGED loopVars
Return(n, r) == pc' = "leave" /\ next' = n /\ reason' = r /\ UNCHANGED state
LoopRest == UNCHANGED <<rd, mgr, cur, ioVars, ctlVars>>

changeadminState(s) == adminState' = s /\ adminDown' = ~adminDown /\ adminStateCh' = None

\* Mutant: idle does not watch the context.
Dying_NotIdle ==
    /\ pc = "run" /\ ctx /\ state \notin {"IDLE", "GONE"}
    /\ Close({conn}) /\ Return("GONE", "Dying") /\ deconfigured' = FALSE
    /\ UNCHANGED <<rd, mgrVars, adminVars, ioVars, timerVars, ctx, configured, deletion,
                   boundVars, connCh, notification>>

\* The context is done. In ESTABLISHED the last notification is sent first.
Dying ==
    /\ pc = "run" /\ ctx /\ state # "GONE"
    /\ IF state \in {"OPENSENT", "OPENCONFIRM", "ESTABLISHED"}
       THEN Close({conn}) ELSE UNCHANGED <<conn, recvOpen, conns>>
    /\ deconfigured' = (deconfigured /\ state # "ESTABLISHED")
    /\ Return("GONE", "Dying")
    /\ UNCHANGED <<rd, mgrVars, adminVars, ioVars, timerVars, ctx, configured, deletion,
                   boundVars, connCh, notification>>

\* A second accepted connection is closed in every state but ACTIVE.
ExtraConn ==
    /\ pc = "run" /\ state \notin {"ACTIVE", "GONE"} /\ connCh # NoConn
    /\ Close({connCh}) /\ connCh' = NoConn
    /\ Stay /\ LoopRest
    /\ UNCHANGED <<outgoingConnCh, adminVars, timerVars, boundVars, notification>>

RestartTimer ==
    /\ pc = "run" /\ state \notin {"ESTABLISHED", "GONE"} /\ restartTimer
    /\ restartTimer' = FALSE
    /\ IF ~peerRestarting THEN Stay /\ UNCHANGED <<conn, recvOpen, conns>>
       ELSE /\ Return("IDLE", "RestartTimerExpired")
            /\ IF state \in {"OPENSENT", "OPENCONFIRM"}
               THEN Close({conn}) ELSE UNCHANGED <<conn, recvOpen, conns>>
    /\ LoopRest
    /\ UNCHANGED <<outgoingConnCh, adminVars, idleTimer, peerRestarting, boundVars, connCh,
                   notification>>

\* Mutant: enabling the neighbor does not start the timer again.
IdleTimerAfter_Spent(op) == IF op = Down THEN FALSE ELSE idleTimer

\* What a request does to the idle hold timer, in IDLE only.
IdleTimerAfter(op) ==
    CASE op = Down -> FALSE
      [] op = Up   -> TRUE
      [] OTHER     -> idleTimer

\* An administrative request. Down ends every state but IDLE, where it stops
\* the idle hold timer; Up only matters there. PfxCt makes ESTABLISHED send a
\* notification, which closes the connection, and changes no state by itself.
AdminOp ==
    /\ pc = "run" /\ state # "GONE" /\ adminStateCh # None
    /\ changeadminState(adminStateCh)
    /\ idleTimer' = IF state = "IDLE" THEN IdleTimerAfter(adminStateCh) ELSE idleTimer
    /\ IF adminStateCh = Down /\ state # "IDLE" THEN Return("IDLE", "AdminDown") ELSE Stay
    /\ IF \/ adminStateCh = Down /\ state \in {"OPENSENT", "OPENCONFIRM", "ESTABLISHED"}
          \/ adminStateCh = PfxCt /\ state = "ESTABLISHED"
       THEN Close({conn}) ELSE UNCHANGED <<conn, recvOpen, conns>>
    /\ LoopRest
    /\ UNCHANGED <<outgoingConnCh, restartTimer, peerRestarting, boundVars, connCh, notification>>

\* Mutant: the administrative state is not looked at.
IdleHoldTimer_Blind ==
    /\ In("IDLE") /\ idleTimer
    /\ idleTimer' = FALSE
    /\ Return("ACTIVE", "IdleTimerExpired")
    /\ LoopRest
    /\ UNCHANGED <<conn, recvOpen, conns, outgoingConnCh, adminVars, restartTimer, peerRestarting,
                   boundVars, connCh, notification>>

\* idle: the hold timer expires. While the neighbor is not up it is spent.
IdleHoldTimer ==
    /\ In("IDLE") /\ idleTimer
    /\ idleTimer' = FALSE
    /\ IF adminState = Up THEN Return("ACTIVE", "IdleTimerExpired") ELSE Stay
    /\ LoopRest
    /\ UNCHANGED <<conn, recvOpen, conns, outgoingConnCh, adminVars, restartTimer, peerRestarting,
                   boundVars, connCh, notification>>

\* active: an accepted connection becomes fsm.conn and the OPEN is written.
ActiveConn ==
    /\ In("ACTIVE") /\ connCh # NoConn
    /\ conn' = connCh /\ connCh' = NoConn
    /\ \E ok \in WriteOutcomes(connCh) :
        IF ok THEN /\ conns' = [conns EXCEPT ![connCh].tx = {"open"}]
                   /\ Return("OPENSENT", "NewConnection")
              ELSE UNCHANGED conns /\ Return("IDLE", "WriteFailed")
    /\ LoopRest
    /\ UNCHANGED <<recvOpen, outgoingConnCh, adminVars, timerVars, boundVars, notification>>

\* active: the connection of the manager, already past the OPENs.
ActiveOutgoing ==
    /\ In("ACTIVE") /\ outgoingConnCh # NoConn
    /\ outgoingConnCh' = NoConn
    /\ \E ok \in WriteOutcomes(outgoingConnCh) :
        IF ok THEN /\ conn' = outgoingConnCh /\ recvOpen' = outgoingConnCh
                   /\ conns' = [conns EXCEPT ![outgoingConnCh].tx = @ \cup {"keepalive"}]
                   /\ Return("OPENCONFIRM", "OpenMsgReceived")
                   /\ UNCHANGED <<mgr, cur>>
              ELSE /\ Close({outgoingConnCh}) /\ Stay
                   /\ newOutgoingConnManager
    /\ UNCHANGED <<rd, adminVars, ioVars, timerVars, ctlVars, boundVars, connCh, notification>>

\* The recvMessage goroutine: one message, or the end of the connection.
Read ==
    /\ rd.on # NoConn
    /\ LET k == conns[rd.on] IN
       \/ /\ k.st = "closed" \/ (k.rx = <<>> /\ ~k.alive)
          /\ rd' = [on |-> NoConn, msg |-> "error"] /\ UNCHANGED conns
       \/ /\ k.rx # <<>>
          /\ rd' = [on |-> NoConn, msg |-> Head(k.rx)]
          /\ conns' = [conns EXCEPT ![rd.on].rx = Tail(@)]
    /\ UNCHANGED <<loopVars, conn, recvOpen, mgrVars, adminVars, ioVars, timerVars, ctlVars,
                   boundVars, connCh, notification>>

\* Mutant: fsm.recvOpen keeps the OPEN of the accepted connection.
OpenOf_Accepted(keep) == conn

\* The connection whose OPEN is remembered is the one that is kept.
OpenOf(keep) == keep

\* opensent writes a KEEPALIVE on the connection it keeps and closes drop.
Confirm(keep, drop, Done) ==
    \E ok \in WriteOutcomes(keep) :
        /\ conn' = IF ok THEN keep ELSE NoConn
        /\ recvOpen' = IF ok THEN OpenOf(keep) ELSE NoConn
        /\ conns' = [c \in Conn |-> IF c \in drop \/ (c = keep /\ ~ok) THEN Closed
                                    ELSE IF c = keep
                                         THEN [conns[c] EXCEPT !.tx = @ \cup {"keepalive"}]
                                         ELSE conns[c]]
        /\ IF ok THEN Done
           ELSE Return("IDLE", "WriteFailed") /\ UNCHANGED <<mgr, cur>>

\* opensent: the peer's OPEN arrives on the accepted connection. If the
\* manager has delivered one too, the collision is resolved here.
OpenSentRecv ==
    /\ In("OPENSENT") /\ rd.msg = "open"
    /\ LET out == outgoingConnCh
           keep == IF out # NoConn /\ isDominant THEN out ELSE conn
           stopDialing ==
               /\ next' = "OPENCONFIRM" /\ reason' = "OpenMsgReceived" /\ UNCHANGED state
               /\ IF mgr[cur].pc = "connect"
                  THEN pc' = "stopInState" /\ mgr' = [mgr EXCEPT ![cur].cancelled = TRUE]
                  ELSE pc' = "leave" /\ UNCHANGED mgr
               /\ UNCHANGED cur
       IN Confirm(keep, {conn, out} \ {keep}, stopDialing)
    /\ outgoingConnCh' = NoConn
    /\ UNCHANGED <<rd, adminVars, ioVars, timerVars, ctlVars, boundVars, connCh, notification>>

\* opensent: the manager delivers first. Only when the peer's OPEN is already
\* waiting is this treated as a collision; otherwise the accepted connection
\* is replaced, and left open.
OpenSentOutgoing ==
    /\ In("OPENSENT") /\ outgoingConnCh # NoConn
    /\ LET out == outgoingConnCh
           collision == rd.msg = "open"
           keep == IF collision /\ ~isDominant THEN conn ELSE out
       IN Confirm(keep, IF collision THEN {conn, out} \ {keep} ELSE {},
                  Return("OPENCONFIRM", "OpenMsgReceived") /\ UNCHANGED <<mgr, cur>>)
    /\ outgoingConnCh' = NoConn
    /\ UNCHANGED <<rd, adminVars, ioVars, timerVars, ctlVars, boundVars, connCh, notification>>

\* Handshake failures: a message that is not expected, or a read error.
HandshakeFails ==
    /\ \/ In("OPENSENT") /\ rd.msg \in (Message \cup {"error"}) \ {"open"}
       \/ In("OPENCONFIRM") /\ rd.msg \in (Message \cup {"error"}) \ {"keepalive"}
    /\ Close({conn})
    /\ Return("IDLE", IF rd.msg = "error" THEN "ReadFailed" ELSE "InvalidMsg")
    /\ LoopRest
    /\ UNCHANGED <<outgoingConnCh, adminVars, timerVars, boundVars, connCh, notification>>

\* The hold timer, or in OPENCONFIRM a KEEPALIVE that cannot be written.
HandshakeTimer ==
    /\ In("OPENSENT") \/ In("OPENCONFIRM")
    /\ \/ Fault /\ Return("IDLE", "HoldTimerExpired")
       \/ /\ state = "OPENCONFIRM" /\ FALSE \in WriteOutcomes(conn)
          /\ Return("IDLE", "WriteFailed") /\ UNCHANGED boundVars
    /\ Close({conn})
    /\ LoopRest
    /\ UNCHANGED <<outgoingConnCh, adminVars, timerVars, connCh, notification>>

OpenConfirmRecv ==
    /\ In("OPENCONFIRM") /\ rd.msg = "keepalive"
    /\ Return("ESTABLISHED", "OpenMsgNegotiated")
    /\ LoopRest
    /\ UNCHANGED <<conn, recvOpen, conns, outgoingConnCh, adminVars, timerVars, boundVars, connCh,
                   notification>>

----------------------------------------------------------------------------
(* ESTABLISHED *)

IoRest == UNCHANGED <<rd, mgrVars, timerVars, ctlVars, connCh>>

\* nonblockSendChannel: a full channel drops the item.
SendReason(r) == reasonCh' = IF Len(reasonCh) < 3 THEN Append(reasonCh, r) ELSE reasonCh
Notify(n) == IF notification = None THEN n ELSE notification

\* recvMessageloop. A malformed message asks the loop for a notification and
\* ends the goroutine; a NOTIFICATION does not end it; an UPDATE may exceed
\* the prefix limit, whose request is dropped when another one is waiting.
ReceiverStep ==
    /\ state = "ESTABLISHED" /\ pc \in {"run", "holdSend"} /\ receiver
    /\ LET k == IF conn = NoConn THEN Closed ELSE conns[conn]
           take == conns' = [conns EXCEPT ![conn].rx = Tail(@)]
       IN \/ /\ k.rx = <<>> /\ ~k.alive
             /\ SendReason("ReadFailed") /\ receiver' = FALSE
             /\ UNCHANGED <<conns, notification>>
          \/ /\ k.rx # <<>> /\ Head(k.rx) = "bad" /\ take
             /\ notification' = Notify("session") /\ receiver' = FALSE
             /\ UNCHANGED reasonCh
          \/ /\ k.rx # <<>> /\ Head(k.rx) = "notification" /\ take
             /\ \E r \in {"NotificationRecv", "HardReset"} :
                    (r = "HardReset" => Graceful /\ NotifyBit) /\ SendReason(r)
             /\ UNCHANGED <<notification, receiver>>
          \/ /\ k.rx # <<>> /\ Head(k.rx) \in {"open", "keepalive"} /\ take
             /\ UNCHANGED <<reasonCh, notification, receiver>>
    /\ UNCHANGED <<loopVars, conn, recvOpen, adminVars, sender, poison, boundVars>> /\ IoRest

PrefixLimit ==
    /\ state = "ESTABLISHED" /\ pc \in {"run", "holdSend"} /\ receiver /\ conn # NoConn
    /\ ~Locked /\ Operation
    /\ adminStateCh' = IF adminStateCh = None THEN PfxCt ELSE adminStateCh
    /\ UNCHANGED <<loopVars, connVars, mgrVars, adminState, adminDown, ioVars, timerVars, ctlVars,
                   connCh, notification>>

\* sendMessageloop: an item that is not a route message ends it silently, a
\* failed write closes the connection.
SenderStep ==
    /\ state = "ESTABLISHED" /\ pc \in {"run", "holdSend"} /\ sender
    /\ \/ /\ poison /\ poison' = FALSE
          /\ UNCHANGED <<reasonCh, conn, recvOpen, conns>>
       \/ /\ FALSE \in WriteOutcomes(conn)
          /\ SendReason("WriteFailed") /\ Close({conn}) /\ UNCHANGED poison
    /\ sender' = FALSE
    /\ UNCHANGED <<loopVars, adminVars, receiver, boundVars, notification>> /\ IoRest

EstablishedNotification ==
    /\ In("ESTABLISHED") /\ notification # None
    /\ notification' = None
    /\ Close({conn}) /\ Return("IDLE", "NotificationSent")
    /\ UNCHANGED <<rd, mgrVars, adminVars, ioVars, timerVars, ctlVars, boundVars, connCh>>

\* The first failure reported ends the session, gracefully if it is of a kind
\* that graceful restart covers; the send loop is told to end.
EstablishedReason ==
    /\ In("ESTABLISHED") /\ reasonCh # <<>>
    /\ LET r == Head(reasonCh)
           graceful == Graceful /\ (\/ r \in {"HoldSent", "ReadFailed", "WriteFailed"}
                                    \/ NotifyBit /\ r = "NotificationRecv")
       IN /\ Return("IDLE", IF graceful THEN "GracefulRestart" ELSE r)
          /\ restartTimer' = (graceful \/ restartTimer)
    /\ reasonCh' = Tail(reasonCh) /\ poison' = TRUE
    /\ Close({conn})
    /\ UNCHANGED <<rd, mgrVars, adminVars, sender, receiver, idleTimer, peerRestarting, ctlVars,
                   boundVars, connCh, notification>>

\* The hold timer: with graceful restart, and the notification written, the
\* loop reports the failure to itself over reasonCh, which blocks when full.
EstablishedHoldTimer ==
    /\ In("ESTABLISHED") /\ Fault
    /\ \E ok \in WriteOutcomes(conn) :
        IF ~Graceful THEN Return("IDLE", "HoldTimerExpired")
        ELSE IF ~ok THEN Return("IDLE", "WriteFailed")
        ELSE pc' = "holdSend" /\ UNCHANGED <<state, next, reason>>
    /\ Close({conn})
    /\ LoopRest
    /\ UNCHANGED <<outgoingConnCh, adminVars, timerVars, connCh, notification>>

HoldSend ==
    /\ pc = "holdSend" /\ Len(reasonCh) < 3
    /\ reasonCh' = Append(reasonCh, "HoldSent") /\ pc' = "run"
    /\ UNCHANGED <<state, next, reason, connVars, mgrVars, adminVars, sender, receiver, poison,
                   timerVars, ctlVars, boundVars, connCh, notification>>

----------------------------------------------------------------------------
(* The rest of an iteration of loop() *)

\* The deferred function sets the read deadline of fsm.conn and waits for the
\* goroutines of the state; a reader of another connection is only waited for.
Joined == pc = "leave" /\ (rd.on \in Conn \ {conn} => conns[rd.on].st = "closed")

\* A shutdown or a graceful restart stops the manager before anything else.
StopsManager == reason \in {"AdminDown", "GracefulRestart"} /\ cur # NoMgr

Leave ==
    /\ Joined /\ StopsManager
    /\ rd' = NoReader /\ sender' = FALSE /\ receiver' = FALSE
    /\ StopMgr("stopInLoop")
    /\ UNCHANGED <<state, next, reason, conn, recvOpen, conns, adminVars, reasonCh, poison,
                   timerVars, ctlVars, boundVars, connCh, notification>>

Returned == pc = "callback" \/ (Joined /\ ~StopsManager)

\* Mutant: what the last session left in the queue stays there.
NotificationAfter_Kept(ends) == notification

\* handleFSMMessage empties both queues, unless it ends a dynamic neighbor.
NotificationAfter(ends) == IF ends THEN notification ELSE None
PoisonAfter(ends) == ends /\ poison

\* handleFSMMessage, as far as this machine sees it: the restarting flag, the
\* end of a dynamic neighbor, and the queues emptied of what the last session
\* left (long-lived graceful restart is part of RibIn). Then the next state
\* function begins.
Callback ==
    /\ Returned /\ ~ctx /\ ~Locked
    /\ LET wasUp == state = "ESTABLISHED"
           expired == ~wasUp /\ next = "IDLE" /\ peerRestarting
           ends == Dynamic /\ (expired \/ (wasUp /\ reason # "GracefulRestart"))
       IN /\ peerRestarting' = (/\ peerRestarting \/ (wasUp /\ reason = "GracefulRestart")
                                /\ ~expired /\ ~ends)
          /\ ctx' = ends /\ configured' = (configured /\ ~ends) /\ UNCHANGED deletion
          /\ poison' = PoisonAfter(ends)
          /\ notification' = NotificationAfter(ends)
    /\ state' = next /\ pc' = "run" /\ next' = "IDLE" /\ reason' = None
    /\ idleTimer' = (next = "IDLE")
    /\ restartTimer' = (restartTimer /\ next # "ESTABLISHED")
    /\ rd' = IF next \in {"OPENSENT", "OPENCONFIRM"} THEN [on |-> conn, msg |-> None] ELSE NoReader
    /\ sender' = (next = "ESTABLISHED") /\ receiver' = (next = "ESTABLISHED")
    /\ reasonCh' = <<>>
    /\ IF next = "ACTIVE" /\ (cur = NoMgr \/ mgr[cur].pc = "done" \/ mgr[cur].cancelled)
       THEN newOutgoingConnManager ELSE UNCHANGED <<mgr, cur>>
    /\ UNCHANGED <<conn, recvOpen, conns, outgoingConnCh, adminVars, deconfigured, boundVars,
                   connCh>>

\* The end of the loop: the connections it can reach are closed.
LoopExit ==
    /\ Returned /\ ctx
    /\ rd' = NoReader /\ sender' = FALSE /\ receiver' = FALSE
    /\ state' = "GONE" /\ pc' = "done"
    /\ Close({conn, connCh}) /\ connCh' = NoConn
    /\ poison' = FALSE
    /\ UNCHANGED <<next, reason, mgrVars, adminVars, reasonCh, timerVars, ctlVars, boundVars,
                   notification>>

----------------------------------------------------------------------------
(* The server, the peer and the runtime *)

ServerRest == UNCHANGED <<loopVars, rd, mgrVars, ioVars, timerVars>>

\* passConnToPeer and PassConn: refused unless the neighbor is up and the
\* channel is empty.
passConnToPeer ==
    /\ incoming < MaxIncoming /\ incoming' = incoming + 1
    /\ ~Locked /\ configured /\ adminState = Up /\ connCh = NoConn /\ Free # {}
    /\ conns' = [conns EXCEPT ![Fresh] = Opened("in", {})]
    /\ connCh' = Fresh
    /\ ServerRest
    /\ UNCHANGED <<conn, recvOpen, adminVars, ctlVars, faults, ops, notification>>

setAdminState(s) ==
    /\ ~Locked /\ configured /\ Operation
    /\ adminStateCh' = IF adminStateCh = None THEN s ELSE adminStateCh
    /\ ServerRest
    /\ UNCHANGED <<conn, recvOpen, conns, adminState, adminDown, ctlVars, connCh, notification>>

\* ResetPeer, ShutdownPeer and a BFD failure queue a notification.
sendNotification ==
    /\ ~Locked /\ configured /\ Operation
    /\ notification' = Notify(IF state = "ESTABLISHED" /\ pc \in {"run", "holdSend"}
                              THEN "session" ELSE "nosession")
    /\ ServerRest
    /\ UNCHANGED <<conn, recvOpen, conns, adminVars, ctlVars, connCh>>

\* deleteNeighbor leaves the notification for the loop, withdraws the routes
\* and, still under the server's lock, stops the loop. StopBgp leaves none when
\* it allows graceful restart and the neighbor has it: its connection is just
\* closed.
deleteNeighbor(how) ==
    /\ ~Locked /\ configured /\ Operation
    /\ how = "quiet" => Graceful
    /\ deletion' = how /\ deconfigured' = (how = "notify")
    /\ ServerRest
    /\ UNCHANGED <<ctx, configured, conn, recvOpen, conns, adminVars, connCh, notification>>

stopNeighbor ==
    /\ Locked
    /\ configured' = FALSE /\ ctx' = TRUE /\ peerRestarting' = FALSE
    /\ UNCHANGED <<loopVars, rd, mgrVars, ioVars, idleTimer, restartTimer, conn, recvOpen, conns,
                   adminVars, deletion, deconfigured, boundVars, connCh, notification>>

PeerRest == UNCHANGED <<loopVars, conn, recvOpen, rd, mgrVars, adminVars, ioVars, timerVars,
                        ctlVars, connCh, notification>>

\* The peer sends its OPEN, and a KEEPALIVE once it has ours.
PeerSends(c) ==
    /\ conns[c].st = "open" /\ conns[c].alive
    /\ \/ /\ conns[c].peer = 0
          /\ conns' = [conns EXCEPT ![c].peer = 1, ![c].rx = Append(@, "open")]
       \/ /\ conns[c].peer = 1 /\ "open" \in conns[c].tx
          /\ conns' = [conns EXCEPT ![c].peer = 2, ![c].rx = Append(@, "keepalive")]
    /\ PeerRest /\ UNCHANGED boundVars

PeerFails(c) ==
    /\ conns[c].st = "open" /\ conns[c].alive /\ Fault
    /\ \/ conns' = [conns EXCEPT ![c].alive = FALSE]
       \/ \E m \in {"bad", "notification"} : conns' = [conns EXCEPT ![c].rx = Append(@, m)]
    /\ PeerRest

\* The runtime closes a connection nothing refers to any more.
Collect(c) ==
    /\ conns[c].st = "open" /\ c \notin Referenced
    /\ conns' = [conns EXCEPT ![c] = Closed]
    /\ PeerRest /\ UNCHANGED boundVars

\* All End-of-RIB markers of a restarted peer have arrived.
stopPeerRestarting ==
    /\ In("ESTABLISHED") /\ peerRestarting /\ ~Locked
    /\ peerRestarting' = FALSE
    /\ UNCHANGED <<loopVars, connVars, mgrVars, adminVars, ioVars, idleTimer, restartTimer, ctlVars,
                   boundVars, connCh, notification>>

----------------------------------------------------------------------------

Loop == \/ Dying \/ ExtraConn \/ RestartTimer \/ AdminOp \/ IdleHoldTimer
        \/ ActiveConn \/ ActiveOutgoing \/ OpenSentRecv \/ OpenSentOutgoing
        \/ HandshakeFails \/ HandshakeTimer \/ OpenConfirmRecv
        \/ EstablishedNotification \/ EstablishedReason \/ EstablishedHoldTimer \/ HoldSend
        \/ Leave \/ MgrStopped \/ Callback \/ LoopExit

Manager(m) == MgrConnect(m) \/ MgrRecv(m) \/ MgrHoldTimer(m) \/ MgrDeliver(m) \/ MgrCancelled(m)

Io == Read \/ ReceiverStep \/ SenderStep

Server == \/ passConnToPeer \/ sendNotification \/ stopNeighbor
          \/ \E how \in {"notify", "quiet"} : deleteNeighbor(how)
          \/ \E s \in {Up, Down} : setAdminState(s)

Peer(c) == PeerSends(c) \/ PeerFails(c) \/ Collect(c)

Next == \/ Loop \/ Io \/ PrefixLimit \/ stopPeerRestarting \/ Server
        \/ \E m \in Mgr : Manager(m)
        \/ \E c \in Conn : Peer(c)

Spec == Init /\ [][Next]_vars

\* The goroutines of the neighbor that can go on do so, and timers fire.
\* Nothing is assumed of the peer, of dialing, of the operator, of accepted
\* connections and of failures.
Fairness ==
    /\ WF_vars(Loop) /\ WF_vars(Read) /\ WF_vars(ReceiverStep) /\ WF_vars(SenderStep)
    /\ WF_vars(stopNeighbor)
    /\ \A m \in Mgr : WF_vars(MgrRecv(m) \/ MgrDeliver(m) \/ MgrCancelled(m))
    /\ \A c \in Conn : WF_vars(Collect(c))

FairSpec == Spec /\ Fairness

----------------------------------------------------------------------------
(* Properties *)

Session == INSTANCE PeerSession
           WITH st <- state, adm <- adminState, opened <- (conn # NoConn /\ recvOpen = conn)

\* The machine implements the session the rest of the server relies on: the
\* states follow one another as in PeerSession, a session only starts while
\* the neighbor is administratively up, and it is only established on a
\* connection whose own OPEN was accepted, collisions included.
Implements == Session!Spec

\* The type invariant. reasonCh holds at most three items, and the states
\* that are returned are those loop() has a function for.
TypeOK ==
    /\ state \in Session!States
    /\ pc \in {"run", "stopInState", "stopInLoop", "holdSend", "leave", "callback", "done"}
    /\ next \in Session!States /\ reason \in Reason
    /\ {conn, recvOpen, connCh, outgoingConnCh} \subseteq Conn \cup {NoConn}
    /\ \A c \in Conn : /\ conns[c].st \in {"open", "closed"}
                       /\ conns[c].rx \in Seq(Message)
    /\ rd.on \in Conn \cup {NoConn} /\ rd.msg \in Message \cup {None, "error"}
    /\ cur \in Mgr \cup {NoMgr}
    /\ adminState \in {Up, Down, PfxCt} /\ adminStateCh \in {None, Up, Down, PfxCt}
    /\ notification \in {None, "session", "nosession"}
    /\ reasonCh \in Seq(Reason) /\ Len(reasonCh) <= 3

\* From OPENCONFIRM on, fsm.recvOpen came from fsm.conn itself and our OPEN
\* and KEEPALIVE were written there, whichever of the accepted and the
\* dialed connection survived (opensent, active, isDominant).
OpenOnConn ==
    state \in {"OPENCONFIRM", "ESTABLISHED"} /\ conn # NoConn
        => recvOpen = conn /\ {"open", "keepalive"} \subseteq conns[conn].tx

\* A notification that was queued while no session was up (ResetPeer or a BFD
\* failure in any other state) never ends the session that comes up later.
FreshNotification == In("ESTABLISHED") => notification # "nosession"

\* While ESTABLISHED runs, the send loop lives or has reported why it ended:
\* it never ends silently on the item that ended the send loop of the session
\* before (outgoingCh is emptied in handleFSMMessage).
SenderLives == In("ESTABLISHED") /\ ~sender => reasonCh # <<>>

\* When the context of an established session is cancelled, the notification
\* that tells the peer so is already waiting, exactly if deleteNeighbor was
\* asked for one (it is sent before stopNeighbor cancels; StopBgp asks for none
\* where graceful restart is to follow; a dynamic neighbor ends itself outside
\* ESTABLISHED).
GoodbyeReady ==
    In("ESTABLISHED") /\ ctx => deletion # None /\ (deconfigured <=> deletion = "notify")

\* What waits in the channels of a session was meant for it: no notification
\* and no poison message is left over from before, the one that says goodbye
\* is there in time if there is to be one, and the channels hold no more than
\* they are made for.
Channels == TypeOK /\ FreshNotification /\ SenderLives /\ GoodbyeReady

\* Two ways the loop can hang. stop() waits for a manager that waits to deliver
\* a connection while the channel still holds an earlier one, which only the
\* loop would take out.
Wedged == pc \in {"stopInState", "stopInLoop"} /\ mgr[cur].pc = "deliver" /\ outgoingConnCh # NoConn

\* And opensent, having replaced the accepted connection by the dialed one, waits
\* for the goroutine that reads from the accepted one, which is open and has no
\* read deadline: only the peer ends the wait, by a message or by its end.
Abandoned == pc = "leave" /\ rd.on \in Conn \ {conn} /\ conns[rd.on].st = "open"

\* Unless the loop hangs for ever in one of these, a cancelled handler ends,
\* whatever state and goroutine the cancellation meets, and whatever the peer
\* does: stopNeighbor's callers may forget the neighbor.
StopEnds == []<>~(Wedged \/ Abandoned) => (ctx ~> state = "GONE")

\* With the same exception, an administrative shutdown that was accepted into
\* adminStateCh brings the neighbor to IDLE with the shutdown in force
\* (changeadminState), also when the peer is silent.
ShutdownEnds ==
    []<>~(Wedged \/ Abandoned)
        => (adminStateCh = Down ~> (adminState = Down /\ state = "IDLE") \/ state = "GONE")

\* What a session needs from outside: dialing succeeds and the peer sends its
\* OPEN and its KEEPALIVE.
PeerAnswers ==
    /\ \A m \in Mgr : WF_vars(MgrConnect(m))
    /\ \A c \in Conn : WF_vars(PeerSends(c))

\* With a peer that answers, when the failures and the operations end, a
\* neighbor that is enabled is established for good, through whatever was left
\* in its channels.
ComesUp ==
    PeerAnswers => <>[](configured /\ adminState = Up => state = "ESTABLISHED" \/ Wedged)

\* At most one outgoing connection manager dials the peer at a time: active()
\* starts one only when the one before was stopped.
OneManager == Cardinality({m \in Mgr : mgr[m].pc # "done"}) <= 1

=============================================================================
