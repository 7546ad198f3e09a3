--------------------------- MODULE PeerFsmProofs ----------------------------
(***************************************************************************)
(* The state machine of a neighbor implements the session of PeerSession,  *)
(* and its OPEN and KEEPALIVE were written on the connection it uses, for  *)
(* any numbers of connections and managers, with and without graceful      *)
(* restart, for static and dynamic neighbors.                              *)
(***************************************************************************)
EXTENDS PeerFsm, SequenceTheorems, TLAPS

ConnRec == [st : {"open", "closed"}, dir : {"in", "out", None}, tx : SUBSET Message,
            peer : Nat, rx : Seq(Message), alive : BOOLEAN]
MgrRec == [pc : {"connect", "opensent", "deliver", "done"}, conn : Conn \cup {NoConn},
           cancelled : BOOLEAN]

Types ==
    /\ state \in Session!States /\ next \in Session!States
    /\ conn \in Conn \cup {NoConn} /\ recvOpen \in Conn \cup {NoConn}
    /\ connCh \in Conn \cup {NoConn} /\ outgoingConnCh \in Conn \cup {NoConn}
    /\ rd \in [on : Conn \cup {NoConn}, msg : Message \cup {None, "error"}]
    /\ conns \in [Conn -> ConnRec] /\ mgr \in [Mgr -> MgrRec]
    /\ adminState \in Session!AdminStates
    /\ adminStateCh \in Session!AdminStates \cup {None}

\* A connection has one holder: the loop, a channel or a manager.  So what one
\* of them closes is not in use by another.
Owned ==
    /\ conn # NoConn => conn # connCh /\ conn # outgoingConnCh
    /\ connCh # NoConn => connCh # outgoingConnCh
    /\ \A m \in Mgr : mgr[m].conn # NoConn =>
           /\ mgr[m].conn # conn /\ mgr[m].conn # connCh /\ mgr[m].conn # outgoingConnCh
           /\ \A k \in Mgr : k # m => mgr[k].conn # mgr[m].conn

\* Our OPEN is written on c, if there is one.
OpenWritten(c) == c # NoConn => "open" \in conns[c].tx

Dialed ==
    /\ OpenWritten(outgoingConnCh)
    /\ \A m \in Mgr : OpenWritten(mgr[m].conn)

Linked == conn # NoConn /\ recvOpen = conn
Confirmed == Linked /\ {"open", "keepalive"} \subseteq conns[conn].tx

\* What the state functions promise for the state they return, kept until the
\* callback has entered that state.
Leaving == pc \in {"leave", "stopInState", "stopInLoop", "callback"}
Promises ==
    /\ next = "ACTIVE" => state = "IDLE" /\ adminState = Up
    /\ next = "OPENSENT" => state = "ACTIVE" /\ OpenWritten(conn)
    /\ next = "OPENCONFIRM" => state \in {"ACTIVE", "OPENSENT"} /\ Confirmed
    /\ next = "ESTABLISHED" => state = "OPENCONFIRM" /\ Confirmed
    /\ next = "GONE" => ctx

LoopInv ==
    /\ state = "GONE" <=> pc = "done"
    /\ pc = "holdSend" => state = "ESTABLISHED"
    /\ Leaving => Promises
    /\ state = "OPENSENT" => OpenWritten(conn)
    /\ state = "OPENCONFIRM" /\ pc = "run" => Confirmed
    /\ OpenOnConn

FsmInv == Types /\ Owned /\ Dialed /\ LoopInv

\* What the channels hold.  The goroutines of ESTABLISHED run in two places of
\* the loop, and what Channels says of the first has to hold in the second;
\* the send loop has reported its end because the item that would end it
\* silently is not there.
Serving == state = "ESTABLISHED" /\ pc \in {"run", "holdSend"}
ChannelTypes ==
    /\ pc \in {"run", "stopInState", "stopInLoop", "holdSend", "leave", "callback", "done"}
    /\ reason \in Reason /\ cur \in Mgr \cup {NoMgr}
    /\ notification \in {None, "session", "nosession"}
    /\ reasonCh \in Seq(Reason) /\ Len(reasonCh) <= 3
ChannelInv ==
    /\ ChannelTypes
    /\ Serving => /\ notification # "nosession" /\ ~poison
                  /\ sender \/ reasonCh # <<>>

\* The goodbye waits from the deletion on, until the loop, cancelled, has left
\* the session and taken it.
GoodbyeInv ==
    /\ Serving /\ ctx => deletion # None
    /\ ~ctx \/ pc \in {"run", "holdSend"} => (deconfigured <=> deletion = "notify")

-----------------------------------------------------------------------------
(* Lemmas on the pieces the actions are made of.                           *)

\* A step that leaves the states alone and, past OPENSENT, links no connection
\* is a step of the session or a stutter.
LEMMA Quiet ==
    ASSUME state' = state, adminState' = adminState,
           Linked' => Linked \/ state \in {"ACTIVE", "OPENSENT"}
    PROVE  [Session!Next]_Session!vars
  BY DEF Session!Next, Session!vars, Session!Lose, Session!Learn, Linked

LEMMA ClosedType == Closed \in ConnRec
BY DEF Closed, ConnRec, None, Message

\* What closing connections does to the table and to the loop's own.
LEMMA CloseFacts ==
    ASSUME Types, NEW S, Close(S)
    PROVE  /\ conns' \in [Conn -> ConnRec]
           /\ \A c \in Conn : c \notin S => conns'[c] = conns[c]
           /\ conn' = IF conn \in S THEN NoConn ELSE conn
           /\ recvOpen' = IF recvOpen \in S THEN NoConn ELSE recvOpen
           /\ conn' \in Conn \cup {NoConn} /\ recvOpen' \in Conn \cup {NoConn}
           /\ Linked' => Linked
           /\ conn \notin S /\ Linked => Linked'
  BY ClosedType, PeerFsmAssumption DEF Types, Close, Linked, PeerFsmAssumption

\* A step that leaves the loop where it is and its connection alone keeps what
\* the loop relies on.
LEMMA LoopFrame ==
    ASSUME Types, LoopInv,
           UNCHANGED <<state, pc, next, adminState, conn>>,
           Linked => recvOpen' = recvOpen, ctx => ctx',
           conn # NoConn => conns[conn].tx \subseteq conns'[conn].tx
    PROVE  LoopInv'
<1>1. OpenWritten(conn) => OpenWritten(conn)'
  BY DEF OpenWritten
<1>2. Confirmed => Confirmed'
  BY DEF Confirmed, Linked
<1>3. OpenOnConn'
  BY <1>2 DEF LoopInv, OpenOnConn, Confirmed, Linked
<1>4. QED
  BY <1>1, <1>2, <1>3 DEF LoopInv, Leaving, Promises

\* A step keeps the invariant and is one of the session.
Step == FsmInv' /\ [Session!Next]_Session!vars

\* A step of the server, the peer or a reader leaves the connection of every
\* holder as much written as it was.
LEMMA Aside ==
    ASSUME FsmInv,
           UNCHANGED <<state, pc, next, adminState, conn, recvOpen, mgr, outgoingConnCh, connCh>>,
           rd' \in [on : Conn \cup {NoConn}, msg : Message \cup {None, "error"}],
           adminStateCh' \in Session!AdminStates \cup {None},
           ctx => ctx',
           conns' \in [Conn -> ConnRec],
           \A c \in Conn : c \in Referenced => conns[c].tx \subseteq conns'[c].tx
    PROVE  Step
<1>1. Types'
  BY DEF FsmInv, Types
<1>2. Owned'
  BY DEF FsmInv, Owned
<1>3. Dialed'
  BY DEF FsmInv, Types, MgrRec, Dialed, OpenWritten, Referenced
<1>4. LoopInv'
  <2>1. conn # NoConn => conns[conn].tx \subseteq conns'[conn].tx
    BY DEF FsmInv, Types, Referenced
  <2>2. QED
    BY <2>1, LoopFrame DEF FsmInv
<1>5. Linked' => Linked
  BY DEF Linked
<1>6. QED
  BY <1>1, <1>2, <1>3, <1>4, <1>5, Quiet DEF FsmInv, Step

\* A step of the loop that closes its own connection or leaves it alone.
LEMMA CloseOwn ==
    ASSUME FsmInv, Close({conn}) \/ UNCHANGED <<conn, recvOpen, conns>>,
           UNCHANGED <<mgr, outgoingConnCh, connCh>>
    PROVE  /\ conn' \in Conn \cup {NoConn} /\ recvOpen' \in Conn \cup {NoConn}
           /\ conns' \in [Conn -> ConnRec]
           /\ conn' = NoConn \/ UNCHANGED <<conn, recvOpen, conns>>
           /\ Owned' /\ Dialed' /\ (Linked' => Linked)
<1>1. CASE UNCHANGED <<conn, recvOpen, conns>>
  BY <1>1 DEF FsmInv, Types, Owned, Dialed, OpenWritten, Linked
<1>2. CASE Close({conn})
  <2>1. /\ conns' \in [Conn -> ConnRec]
        /\ \A c \in Conn : c # conn => conns'[c] = conns[c]
        /\ conn' = NoConn
        /\ recvOpen' \in Conn \cup {NoConn}
        /\ Linked' => Linked
    BY <1>2, CloseFacts DEF FsmInv
  <2>2. Owned'
    BY <2>1 DEF FsmInv, Owned
  <2>3. Dialed'
    BY <2>1 DEF FsmInv, Types, MgrRec, Owned, Dialed, OpenWritten
  <2>4. QED
    BY <2>1, <2>2, <2>3
<1>3. QED
  BY <1>1, <1>2

\* A state function returns IDLE, or the end of the loop.
LEMMA Returns ==
    ASSUME FsmInv, state # "GONE", UNCHANGED state, pc' = "leave",
           next' = "IDLE" \/ (next' = "GONE" /\ ctx'),
           conn' = NoConn \/ UNCHANGED <<conn, recvOpen, conns>>
    PROVE  LoopInv'
  BY DEF FsmInv, LoopInv, Leaving, Promises, OpenWritten, Confirmed, Linked, OpenOnConn

\* The loop goes on in its state, which is not OPENCONFIRM if it has closed its
\* connection.
LEMMA Stays ==
    ASSUME FsmInv, UNCHANGED <<state, pc, next>>, pc = "run",
           \/ conn' = NoConn /\ state # "OPENCONFIRM"
           \/ UNCHANGED <<conn, recvOpen, conns>>
    PROVE  LoopInv'
  BY DEF FsmInv, LoopInv, Leaving, Promises, OpenWritten, Confirmed, Linked, OpenOnConn

\* Together: a state function that ends with the loop's connection closed or
\* left alone.
LEMMA Ends ==
    ASSUME FsmInv, state # "GONE", UNCHANGED state, pc' = "leave",
           next' = "IDLE" \/ (next' = "GONE" /\ ctx'),
           Close({conn}) \/ UNCHANGED <<conn, recvOpen, conns>>,
           UNCHANGED <<mgr, outgoingConnCh, connCh, rd, adminState, adminStateCh>>
    PROVE  Step
<1>1. Types'
  BY CloseOwn DEF FsmInv, Types, Session!States
<1>2. LoopInv'
  BY CloseOwn, Returns, Zenon
<1>3. QED
  BY <1>1, <1>2, CloseOwn, Quiet DEF FsmInv, Step

-----------------------------------------------------------------------------
(* The server, the peer and the goroutines that read and write.            *)

LEMMA ConnRecEdit ==
    ASSUME NEW r \in ConnRec
    PROVE  /\ \A n \in Nat, m \in Message :
                  /\ [r EXCEPT !.peer = n, !.rx = Append(r.rx, m)] \in ConnRec
                  /\ [r EXCEPT !.rx = Append(r.rx, m)] \in ConnRec
           /\ [r EXCEPT !.alive = FALSE] \in ConnRec
           /\ r.rx # <<>> => [r EXCEPT !.rx = Tail(r.rx)] \in ConnRec /\ Head(r.rx) \in Message
           /\ \A t \in SUBSET Message : [r EXCEPT !.tx = t] \in ConnRec
           /\ Closed \in ConnRec
           /\ \A d \in {"in", "out"}, t \in SUBSET Message : Opened(d, t) \in ConnRec
<1>1. /\ r.rx \in Seq(Message)
      /\ \A m \in Message : Append(r.rx, m) \in Seq(Message)
      /\ r.rx # <<>> => Tail(r.rx) \in Seq(Message) /\ Head(r.rx) \in Message
  BY DEF ConnRec
<1>2. \A q \in Seq(Message), n \in Nat :
          [r EXCEPT !.rx = q] \in ConnRec /\ [r EXCEPT !.peer = n, !.rx = q] \in ConnRec
  BY Zenon DEF ConnRec
<1>3. [r EXCEPT !.alive = FALSE] \in ConnRec /\ \A t \in SUBSET Message : [r EXCEPT !.tx = t] \in ConnRec
  BY Zenon DEF ConnRec
<1>4. \A d \in {"in", "out"}, t \in SUBSET Message : Opened(d, t) \in ConnRec
  BY DEF ConnRec, Opened, None
<1>5. QED
  BY <1>1, <1>2, <1>3, <1>4, ClosedType, Zenon

LEMMA ServerStep == FsmInv /\ Server => Step
<1> SUFFICES ASSUME FsmInv, Server PROVE Step
  OBVIOUS
<1>1. CASE passConnToPeer
  <2> DEFINE c == Fresh
  <2>1. c \in Free
    BY <1>1 DEF passConnToPeer, Fresh
  <2>2. c \in Conn /\ c \notin Referenced
    BY <2>1 DEF Free
  <2>3. conns' = [conns EXCEPT ![c] = Opened("in", {})] /\ connCh' = c
    BY <1>1 DEF passConnToPeer
  <2>4. UNCHANGED <<state, pc, next, adminState, adminStateCh, conn, recvOpen, mgr,
                    outgoingConnCh, rd, ctx>>
    BY <1>1, Zenon DEF passConnToPeer, ServerRest, loopVars, mgrVars, adminVars, ctlVars
  <2> HIDE DEF c
  <2>5. conns' \in [Conn -> ConnRec]
    BY <2>2, <2>3, ConnRecEdit, Zenon DEF FsmInv, Types
  <2>6. \A d \in Conn : d \in Referenced => conns'[d] = conns[d]
    BY <2>2, <2>3 DEF FsmInv, Types
  <2>7. Types'
    BY <2>2, <2>3, <2>4, <2>5 DEF FsmInv, Types
  <2>8. Owned'
    BY <2>2, <2>3, <2>4 DEF FsmInv, Owned, Referenced
  <2>9. Dialed'
    BY <2>4, <2>6 DEF FsmInv, Types, MgrRec, Dialed, OpenWritten, Referenced
  <2>10. conn # NoConn => conns[conn].tx \subseteq conns'[conn].tx
    BY <2>6 DEF FsmInv, Types, Referenced
  <2>11. LoopInv' /\ (Linked' => Linked)
    BY <2>4, <2>10, LoopFrame DEF FsmInv, Linked
  <2>12. QED
    BY <2>4, <2>7, <2>8, <2>9, <2>11, Quiet DEF FsmInv, Step
<1>2. CASE \/ sendNotification \/ stopNeighbor
           \/ \E how \in {"notify", "quiet"} : deleteNeighbor(how)
           \/ \E s \in {Up, Down} : setAdminState(s)
  <2>1. UNCHANGED <<state, pc, next, adminState, conn, recvOpen, mgr, outgoingConnCh, connCh, rd, conns>>
        /\ (ctx => ctx')
    BY <1>2 DEF sendNotification, deleteNeighbor, stopNeighbor, setAdminState, ServerRest,
       loopVars, mgrVars, adminVars, ctlVars
  <2>2. adminStateCh' \in Session!AdminStates \cup {None}
    BY <1>2 DEF sendNotification, deleteNeighbor, stopNeighbor, setAdminState, adminVars,
       FsmInv, Types, Session!AdminStates, Up, Down
  <2>3. QED
    BY <2>1, <2>2, Aside DEF FsmInv, Types
<1>3. QED
  BY <1>1, <1>2 DEF Server

LEMMA PeerStep == ASSUME NEW c \in Conn, FsmInv, Peer(c) PROVE Step
<1>1. /\ UNCHANGED <<state, pc, next, adminState, adminStateCh, conn, recvOpen, mgr, outgoingConnCh,
                     connCh, rd, ctx>>
  BY DEF Peer, PeerSends, PeerFails, Collect, PeerRest, loopVars, mgrVars, adminVars, ctlVars
<1>2. conns[c] \in ConnRec
  BY Zenon DEF FsmInv, Types
<1>3. CASE PeerSends(c) \/ PeerFails(c)
  <2>1. PICK r \in ConnRec : conns' = [conns EXCEPT ![c] = r] /\ r.tx = conns[c].tx
    <3>1. \A n \in Nat, m \in Message :
              /\ [conns[c] EXCEPT !.peer = n, !.rx = Append(conns[c].rx, m)] \in ConnRec
              /\ [conns[c] EXCEPT !.rx = Append(conns[c].rx, m)] \in ConnRec
              /\ [conns[c] EXCEPT !.peer = n, !.rx = Append(conns[c].rx, m)].tx = conns[c].tx
              /\ [conns[c] EXCEPT !.rx = Append(conns[c].rx, m)].tx = conns[c].tx
      BY <1>2, ConnRecEdit, Zenon DEF ConnRec
    <3>2. [conns[c] EXCEPT !.alive = FALSE] \in ConnRec
          /\ [conns[c] EXCEPT !.alive = FALSE].tx = conns[c].tx
      BY <1>2, ConnRecEdit, Zenon DEF ConnRec
    <3>3. CASE PeerSends(c)
      <4>1. PICK n \in Nat, m \in Message :
                conns' = [conns EXCEPT ![c].peer = n, ![c].rx = Append(@, m)]
        BY <3>3, Zenon DEF PeerSends, Message
      <4>2. conns' = [conns EXCEPT ![c] =
                         [conns[c] EXCEPT !.peer = n, !.rx = Append(conns[c].rx, m)]]
        BY <4>1, <1>2, Zenon DEF FsmInv, Types, ConnRec
      <4>3. QED
        BY <3>1, <4>2, Zenon
    <3>4. CASE PeerFails(c)
      BY <3>1, <3>2, <3>4, Zenon DEF PeerFails, Message
    <3>5. QED
      BY <1>3, <3>3, <3>4, Zenon
  <2>2. conns' \in [Conn -> ConnRec] /\ \A d \in Conn : conns[d].tx \subseteq conns'[d].tx
    BY <2>1 DEF FsmInv, Types
  <2>3. QED
    BY <1>1, <2>2, Aside DEF FsmInv, Types
<1>4. CASE Collect(c)
  <2>1. conns' \in [Conn -> ConnRec]
    BY <1>4, ConnRecEdit, Zenon DEF Collect, FsmInv, Types
  <2>2. \A d \in Conn : d \in Referenced => conns'[d] = conns[d]
    BY <1>4 DEF Collect, FsmInv, Types
  <2>3. QED
    BY <1>1, <2>1, <2>2, Aside, Zenon DEF FsmInv, Types
<1>5. QED
  BY <1>3, <1>4 DEF Peer

LEMMA IoStep == FsmInv /\ (Io \/ PrefixLimit \/ stopPeerRestarting) => Step
<1> SUFFICES ASSUME FsmInv, Io \/ PrefixLimit \/ stopPeerRestarting PROVE Step
  OBVIOUS
<1>1. CASE Read
  <2> DEFINE k == conns[rd.on]
  <2>1. UNCHANGED <<state, pc, next, adminState, adminStateCh, conn, recvOpen, mgr, outgoingConnCh,
                    connCh, ctx>>
    BY <1>1 DEF Read, loopVars, mgrVars, adminVars, ctlVars
  <2>2. rd.on \in Conn /\ k \in ConnRec
    BY <1>1, Zenon DEF Read, FsmInv, Types
  <2>3. CASE rd' = [on |-> NoConn, msg |-> "error"] /\ UNCHANGED conns
    BY <2>1, <2>3, Aside, Zenon DEF FsmInv, Types
  <2>4. CASE /\ k.rx # <<>>
             /\ rd' = [on |-> NoConn, msg |-> Head(k.rx)]
             /\ conns' = [conns EXCEPT ![rd.on].rx = Tail(@)]
    <3>1. Head(k.rx) \in Message /\ [k EXCEPT !.rx = Tail(k.rx)] \in ConnRec
      BY <2>2, <2>4, ConnRecEdit, Zenon
    <3>2. /\ conns' \in [Conn -> ConnRec]
          /\ \A d \in Conn : conns'[d].tx = conns[d].tx
      BY <2>2, <2>4, <3>1, Zenon DEF FsmInv, Types, ConnRec
    <3>3. rd' \in [on : Conn \cup {NoConn}, msg : Message \cup {None, "error"}]
      BY <2>4, <3>1
    <3>4. adminStateCh' \in Session!AdminStates \cup {None}
      BY <2>1 DEF FsmInv, Types
    <3>5. QED
      BY <2>1, <3>2, <3>3, <3>4, Aside, Zenon
  <2>5. QED
    BY <1>1, <2>3, <2>4 DEF Read
<1>2. CASE ReceiverStep
  <2>1. UNCHANGED <<state, pc, next, adminState, adminStateCh, conn, recvOpen, mgr, outgoingConnCh,
                    connCh, ctx, rd>>
    BY <1>2 DEF ReceiverStep, IoRest, loopVars, mgrVars, adminVars, ctlVars
  <2>2. CASE UNCHANGED conns
    BY <2>1, <2>2, Aside DEF FsmInv, Types
  <2>3. CASE conn # NoConn /\ conns[conn].rx # <<>> /\ conns' = [conns EXCEPT ![conn].rx = Tail(@)]
    <3>1. conn \in Conn /\ conns[conn] \in ConnRec
      BY <2>3, Zenon DEF FsmInv, Types
    <3>2. [conns[conn] EXCEPT !.rx = Tail(conns[conn].rx)] \in ConnRec
      BY <2>3, <3>1, ConnRecEdit, Zenon
    <3>3. /\ conns' \in [Conn -> ConnRec]
          /\ \A d \in Conn : conns'[d].tx = conns[d].tx
      BY <2>3, <3>1, <3>2, Zenon DEF FsmInv, Types, ConnRec
    <3>4. QED
      BY <2>1, <3>3, Aside DEF FsmInv, Types
  <2>4. QED
    BY <1>2, <2>2, <2>3, Zenon DEF ReceiverStep, Closed
<1>3. CASE SenderStep
  <2>1. /\ UNCHANGED <<state, pc, next, adminState, adminStateCh, mgr, outgoingConnCh, connCh, ctx, rd>>
        /\ Close({conn}) \/ UNCHANGED <<conn, recvOpen, conns>>
        /\ state = "ESTABLISHED" /\ pc \in {"run", "holdSend"}
    BY <1>3, Zenon DEF SenderStep, IoRest, loopVars, mgrVars, adminVars, ctlVars
  <2>2. Types'
    BY <2>1, CloseOwn DEF FsmInv, Types
  <2>3. LoopInv'
    BY <2>1, CloseOwn DEF FsmInv, LoopInv, Leaving, OpenOnConn
  <2>4. QED
    BY <2>1, <2>2, <2>3, CloseOwn, Quiet DEF FsmInv, Step
<1>4. CASE PrefixLimit \/ stopPeerRestarting
  <2>1. UNCHANGED <<state, pc, next, adminState, conn, recvOpen, mgr, outgoingConnCh, connCh, rd,
                    conns, ctx>>
    BY <1>4 DEF PrefixLimit, stopPeerRestarting, loopVars, mgrVars, connVars, ctlVars, adminVars
  <2>2. adminStateCh' \in Session!AdminStates \cup {None}
    BY <1>4, Zenon DEF PrefixLimit, stopPeerRestarting, adminVars, FsmInv, Types, Session!AdminStates, PfxCt
  <2>3. QED
    BY <2>1, <2>2, Aside DEF FsmInv, Types
<1>5. QED
  BY <1>1, <1>2, <1>3, <1>4 DEF Io

-----------------------------------------------------------------------------
(* The outgoing connection manager.                                        *)

\* A manager gives up its connection: nobody else holds it.
LEMMA MgrGives ==
    ASSUME FsmInv, NEW m \in Mgr, NEW q \in MgrRec, q.conn = NoConn,
           Close({mgr[m].conn}), mgr' = [mgr EXCEPT ![m] = q],
           UNCHANGED <<state, pc, next, adminState, adminStateCh, outgoingConnCh, connCh, rd, ctx>>
    PROVE  Step
<1> DEFINE d == mgr[m].conn
<1>1. /\ conns' \in [Conn -> ConnRec]
      /\ \A c \in Conn : c # d => conns'[c] = conns[c]
      /\ conn' = IF conn = d THEN NoConn ELSE conn
      /\ recvOpen' = IF recvOpen = d THEN NoConn ELSE recvOpen
      /\ Linked' => Linked
      /\ recvOpen' \in Conn \cup {NoConn}
  BY CloseFacts DEF FsmInv
<1>2. conn' = conn
  BY <1>1 DEF FsmInv, Owned
<1>3. Linked => recvOpen' = recvOpen
  BY <1>1, <1>2 DEF Linked
<1>4. Types'
  BY <1>1, <1>2 DEF FsmInv, Types
<1>5. \A k \in Mgr : mgr'[k].conn = IF k = m THEN NoConn ELSE mgr[k].conn
  BY Zenon DEF FsmInv, Types
<1>6. Owned'
  BY <1>2, <1>5 DEF FsmInv, Owned
<1>7. Dialed'
  <2>1. outgoingConnCh # NoConn => outgoingConnCh # d
    BY DEF FsmInv, Owned
  <2>2. \A k \in Mgr : k # m /\ mgr[k].conn # NoConn => mgr[k].conn # d
    BY DEF FsmInv, Owned
  <2>3. QED
    BY <1>1, <1>5, <2>1, <2>2, Zenon DEF FsmInv, Types, MgrRec, Dialed, OpenWritten
<1>8. conn # NoConn => conns[conn].tx \subseteq conns'[conn].tx
  BY <1>1, Zenon DEF FsmInv, Types, Owned
<1>9. LoopInv'
  BY <1>2, <1>3, <1>8, LoopFrame, Zenon DEF FsmInv
<1>10. QED
  BY <1>1, <1>4, <1>6, <1>7, <1>9, Quiet, Zenon DEF FsmInv, Step

LEMMA ManagerStep == ASSUME NEW m \in Mgr, FsmInv, Manager(m) PROVE Step
<1>1. UNCHANGED <<state, pc, next, adminState, adminStateCh, connCh, rd, ctx>>
  BY DEF Manager, MgrConnect, MgrRecv, MgrHoldTimer, MgrRedial, MgrDeliver, MgrCancelled, MgrRest,
     loopVars, adminVars, ctlVars
<1>2. mgr[m] \in MgrRec /\ mgr[m].conn \in Conn \cup {NoConn}
  BY DEF FsmInv, Types, MgrRec
<1>3. CASE MgrConnect(m)
  <2> DEFINE c == Fresh
  <2>1. c \in Free
    BY <1>3, Zenon DEF MgrConnect, Fresh
  <2>2. c \in Conn /\ c \notin Referenced
    BY <2>1 DEF Free
  <2>3. /\ conns' = [conns EXCEPT ![c] = Opened("out", {"open"})]
        /\ mgr' = [mgr EXCEPT ![m].pc = "opensent", ![m].conn = c]
        /\ UNCHANGED <<conn, recvOpen, outgoingConnCh>>
    BY <1>3, Zenon DEF MgrConnect
  <2> HIDE DEF c
  <2>4. conns' \in [Conn -> ConnRec] /\ "open" \in conns'[c].tx
    BY <2>2, <2>3, ConnRecEdit, Zenon DEF FsmInv, Types, Opened, Message
  <2>5. \A d \in Conn : d \in Referenced => conns'[d] = conns[d]
    BY <2>2, <2>3 DEF FsmInv, Types
  <2>6. mgr' \in [Mgr -> MgrRec] /\ \A k \in Mgr : mgr'[k].conn = IF k = m THEN c ELSE mgr[k].conn
    BY <2>2, <2>3, ZenonT(30) DEF FsmInv, Types, MgrRec
  <2>7. Types'
    BY <1>1, <2>3, <2>4, <2>6 DEF FsmInv, Types
  <2>8. Owned'
    BY <1>1, <2>2, <2>3, <2>6 DEF FsmInv, Owned, Referenced
  <2>9. Dialed'
    BY <2>3, <2>4, <2>5, <2>6 DEF FsmInv, Types, MgrRec, Dialed, OpenWritten, Referenced
  <2>10. conn # NoConn => conns[conn].tx \subseteq conns'[conn].tx
    BY <2>5 DEF FsmInv, Types, Referenced
  <2>11. LoopInv' /\ (Linked' => Linked)
    BY <1>1, <2>3, <2>10, LoopFrame DEF FsmInv, Linked
  <2>12. QED
    BY <1>1, <2>7, <2>8, <2>9, <2>11, Quiet DEF FsmInv, Step
<1>4. CASE MgrRecv(m) /\ UNCHANGED <<conn, recvOpen, outgoingConnCh>>
           /\ conns[mgr[m].conn].rx # <<>>
           /\ conns' = [conns EXCEPT ![mgr[m].conn].rx = Tail(@)]
           /\ mgr' = [mgr EXCEPT ![m].pc = "deliver"]
  <2> DEFINE c == mgr[m].conn
  <2>1. conns' \in [Conn -> ConnRec] /\ \A d \in Conn : conns'[d].tx = conns[d].tx
    <3>1. CASE c \in Conn
      <4>1. conns[c] \in ConnRec
        BY <3>1 DEF FsmInv, Types
      <4>2. [conns[c] EXCEPT !.rx = Tail(conns[c].rx)] \in ConnRec
        BY <4>1, <1>4, ConnRecEdit, Zenon
      <4>3. QED
        BY <3>1, <4>1, <4>2, <1>4, Zenon DEF FsmInv, Types, ConnRec
    <3>2. CASE c \notin Conn
      BY <3>2, <1>4, Zenon DEF FsmInv, Types
    <3>3. QED
      BY <3>1, <3>2
  <2>2. mgr' \in [Mgr -> MgrRec] /\ \A k \in Mgr : mgr'[k].conn = mgr[k].conn
    BY <1>4 DEF FsmInv, Types, MgrRec
  <2>3. Types'
    BY <1>1, <1>4, <2>1, <2>2 DEF FsmInv, Types
  <2>4. Owned'
    BY <1>1, <1>4, <2>2 DEF FsmInv, Owned
  <2>5. Dialed'
    BY <1>4, <2>1, <2>2 DEF FsmInv, Types, MgrRec, Dialed, OpenWritten
  <2>6. conn # NoConn => conns[conn].tx \subseteq conns'[conn].tx
    BY <2>1 DEF FsmInv, Types
  <2>7. LoopInv' /\ (Linked' => Linked)
    BY <1>1, <1>4, <2>6, LoopFrame DEF FsmInv, Linked
  <2>8. QED
    BY <1>1, <2>3, <2>4, <2>5, <2>7, Quiet DEF FsmInv, Step
<1>5. CASE MgrRedial(m)
  <2> DEFINE q == [mgr[m] EXCEPT !.pc = "connect", !.conn = NoConn]
  <2>1. q \in MgrRec /\ q.conn = NoConn
    BY <1>2, Zenon DEF MgrRec
  <2>2. mgr' = [mgr EXCEPT ![m] = q] /\ Close({mgr[m].conn}) /\ UNCHANGED outgoingConnCh
    BY <1>2, <1>5, Zenon DEF MgrRedial, FsmInv, Types, MgrRec
  <2> HIDE DEF q
  <2>3. QED
    BY <1>1, <2>1, <2>2, MgrGives, Zenon
<1>6. CASE MgrCancelled(m)
  <2>1. Stopped \in MgrRec /\ Stopped.conn = NoConn
    BY DEF MgrRec, Stopped
  <2>2. QED
    BY <1>1, <1>6, <2>1, MgrGives, Zenon DEF MgrCancelled
<1>7. CASE MgrDeliver(m)
  <2>1. Stopped \in MgrRec /\ Stopped.conn = NoConn
    BY DEF MgrRec, Stopped
  <2>2. mgr' \in [Mgr -> MgrRec] /\ \A k \in Mgr : mgr'[k].conn = IF k = m THEN NoConn ELSE mgr[k].conn
    BY <1>7, <2>1 DEF MgrDeliver, FsmInv, Types
  <2>3. outgoingConnCh' = mgr[m].conn /\ outgoingConnCh = NoConn /\ UNCHANGED <<conn, recvOpen, conns>>
    BY <1>7 DEF MgrDeliver
  <2>4. Types'
    BY <1>1, <1>2, <2>2, <2>3, Zenon DEF FsmInv, Types
  <2>5. Owned'
    BY <1>1, <2>2, <2>3, Zenon DEF FsmInv, Owned
  <2>6. Dialed'
    BY <2>2, <2>3, Zenon DEF FsmInv, Dialed, OpenWritten
  <2>7. LoopInv' /\ (Linked' => Linked)
    BY <1>1, <2>3, LoopFrame DEF FsmInv, Linked
  <2>8. QED
    BY <1>1, <2>4, <2>5, <2>6, <2>7, Quiet DEF FsmInv, Step
<1>8. QED
  BY <1>3, <1>4, <1>5, <1>6, <1>7, Zenon DEF Manager, MgrRecv, MgrHoldTimer

-----------------------------------------------------------------------------
(* The loop.  First the pieces it shares among its actions.                *)

LEMMA LoopRestFacts ==
    LoopRest => UNCHANGED <<rd, mgr, cur, ctx>>
  BY DEF LoopRest, ctlVars

LEMMA NewManager ==
    ASSUME Types, newOutgoingConnManager
    PROVE  mgr' \in [Mgr -> MgrRec] /\ \A k \in Mgr : mgr'[k].conn \in {mgr[k].conn, NoConn}
<1> DEFINE m == CHOOSE m \in Mgr : mgr[m].pc = "done"
           q == IF Passive THEN Stopped ELSE Dialing
<1>1. q \in MgrRec /\ q.conn = NoConn
  BY DEF MgrRec, Stopped, Dialing
<1>2. mgr' = [mgr EXCEPT ![m] = q]
  BY DEF newOutgoingConnManager
<1> HIDE DEF m, q
<1>3. QED
  BY <1>1, <1>2, Zenon DEF Types

LEMMA Cancelled ==
    ASSUME Types, NEW m, mgr' = [mgr EXCEPT ![m].cancelled = TRUE]
    PROVE  mgr' \in [Mgr -> MgrRec] /\ \A k \in Mgr : mgr'[k].conn = mgr[k].conn
  BY ZenonT(30) DEF Types, MgrRec

\* A connection that changes hands, or is dropped, still has one holder.
LEMMA Fewer ==
    ASSUME FsmInv, conns' = conns,
           conn' \in {conn, NoConn}, connCh' = connCh,
           outgoingConnCh' \in {outgoingConnCh, NoConn},
           \A k \in Mgr : mgr'[k].conn \in {mgr[k].conn, NoConn}
    PROVE  Owned' /\ Dialed'
<1>1. Owned'
  BY DEF FsmInv, Owned
<1>2. Dialed'
  BY DEF FsmInv, Dialed, OpenWritten
<1>3. QED
  BY <1>1, <1>2

LEMMA SimpleLoopSteps ==
    ASSUME FsmInv,
           \/ Dying \/ RestartTimer \/ HandshakeFails \/ HandshakeTimer
           \/ EstablishedNotification \/ EstablishedReason
    PROVE  Step
<1>1. CASE Dying
  <2>1. /\ state # "GONE" /\ pc' = "leave" /\ next' = "GONE" /\ ctx'
        /\ UNCHANGED <<state, mgr, outgoingConnCh, connCh, rd, adminState, adminStateCh>>
        /\ Close({conn}) \/ UNCHANGED <<conn, recvOpen, conns>>
    BY <1>1 DEF Dying, Return, mgrVars, adminVars
  <2>2. QED
    BY <2>1, Ends
<1>2. CASE RestartTimer
  <2>1. /\ state # "GONE" /\ pc = "run"
        /\ UNCHANGED <<mgr, outgoingConnCh, connCh, rd, adminState, adminStateCh, ctx>>
        /\ \/ Stay /\ UNCHANGED <<conn, recvOpen, conns>>
           \/ /\ Return("IDLE", "RestartTimerExpired")
              /\ Close({conn}) \/ UNCHANGED <<conn, recvOpen, conns>>
    BY <1>2, LoopRestFacts, Zenon DEF RestartTimer, adminVars
  <2>2. CASE Stay /\ UNCHANGED <<conn, recvOpen, conns>>
    <3>1. UNCHANGED <<state, pc, next>>
      BY <2>2 DEF Stay, loopVars
    <3>2. QED
      BY <2>1, <2>2, <3>1, Aside DEF FsmInv, Types
  <2>3. CASE /\ Return("IDLE", "RestartTimerExpired")
             /\ Close({conn}) \/ UNCHANGED <<conn, recvOpen, conns>>
    <3>1. pc' = "leave" /\ next' = "IDLE" /\ UNCHANGED state
      BY <2>3 DEF Return
    <3>2. QED
      BY <2>1, <2>3, <3>1, Ends
  <2>4. QED
    BY <2>1, <2>2, <2>3, Zenon
<1>3. CASE HandshakeFails \/ HandshakeTimer
  <2>1. /\ state # "GONE" /\ pc' = "leave" /\ next' = "IDLE" /\ Close({conn})
        /\ UNCHANGED <<state, mgr, outgoingConnCh, connCh, rd, adminState, adminStateCh>>
    BY <1>3, LoopRestFacts, Zenon DEF HandshakeFails, HandshakeTimer, In, Return, adminVars
  <2>2. QED
    BY <2>1, Ends
<1>4. CASE EstablishedNotification \/ EstablishedReason
  <2>1. /\ state # "GONE" /\ pc' = "leave" /\ next' = "IDLE" /\ Close({conn})
        /\ UNCHANGED <<state, mgr, outgoingConnCh, connCh, rd, adminState, adminStateCh>>
    BY <1>4, SMTT(30) DEF EstablishedNotification, EstablishedReason, In, Return, mgrVars, adminVars
  <2>2. QED
    BY <2>1, Ends
<1>5. QED
  BY <1>1, <1>2, <1>3, <1>4

LEMMA ExtraConnStep == FsmInv /\ ExtraConn => Step
<1> SUFFICES ASSUME FsmInv, ExtraConn PROVE Step
  OBVIOUS
<1>1. /\ UNCHANGED <<state, pc, next, mgr, outgoingConnCh, rd, adminState, adminStateCh, ctx>>
      /\ connCh # NoConn /\ connCh' = NoConn /\ Close({connCh})
  BY LoopRestFacts DEF ExtraConn, Stay, loopVars, adminVars
<1>2. /\ conns' \in [Conn -> ConnRec]
      /\ \A c \in Conn : c # connCh => conns'[c] = conns[c]
      /\ conn' = IF conn = connCh THEN NoConn ELSE conn
      /\ recvOpen' = IF recvOpen = connCh THEN NoConn ELSE recvOpen
      /\ Linked' => Linked
      /\ recvOpen' \in Conn \cup {NoConn}
  BY <1>1, CloseFacts DEF FsmInv
<1>3. conn' = conn /\ (Linked => recvOpen' = recvOpen)
  BY <1>1, <1>2 DEF FsmInv, Owned, Linked
<1>4. Types'
  BY <1>1, <1>2, <1>3 DEF FsmInv, Types
<1>5. Owned'
  BY <1>1, <1>3, Zenon DEF FsmInv, Owned
<1>6. Dialed'
  BY <1>1, <1>2, Zenon DEF FsmInv, Types, MgrRec, Owned, Dialed, OpenWritten
<1>7. conn # NoConn => conns[conn].tx \subseteq conns'[conn].tx
  BY <1>1, <1>2, ZenonT(30) DEF FsmInv, Types, Owned
<1>8. LoopInv'
  BY <1>1, <1>3, <1>7, LoopFrame DEF FsmInv
<1>9. QED
  BY <1>1, <1>2, <1>4, <1>5, <1>6, <1>8, Quiet DEF FsmInv, Step

LEMMA AdminOpStep == FsmInv /\ AdminOp => Step
<1> SUFFICES ASSUME FsmInv, AdminOp PROVE Step
  OBVIOUS
<1>1. /\ state # "GONE" /\ pc = "run"
      /\ UNCHANGED <<mgr, outgoingConnCh, connCh, rd, ctx>>
      /\ adminState' = adminStateCh /\ adminStateCh # None /\ adminStateCh' = None
      /\ Close({conn}) \/ UNCHANGED <<conn, recvOpen, conns>>
  BY LoopRestFacts DEF AdminOp, changeadminState
<1>2. /\ UNCHANGED state
      /\ \/ UNCHANGED <<pc, next>>
         \/ pc' = "leave" /\ next' = "IDLE"
  BY DEF AdminOp, Stay, Return, loopVars
<1>3. UNCHANGED <<pc, next>> => state # "OPENCONFIRM" \/ UNCHANGED <<conn, recvOpen, conns>>
  BY <1>1 DEF AdminOp, Return, PfxCt, Down
<1>4. Types'
  BY <1>1, <1>2, CloseOwn DEF FsmInv, Types, Session!States
<1>5. LoopInv'
  <2>1. CASE pc' = "leave" /\ next' = "IDLE"
    BY <1>1, <1>2, <2>1, CloseOwn, Returns
  <2>2. CASE UNCHANGED <<pc, next>>
    BY <1>1, <1>2, <1>3, <2>2, CloseOwn, Stays
  <2>3. QED
    BY <1>2, <2>1, <2>2
<1>6. Session!Administer
  <2>1. adminState' \in Session!AdminStates
    BY <1>1 DEF FsmInv, Types
  <2>2. Linked' => Linked
    BY <1>1, CloseOwn
  <2>3. QED
    BY <1>1, <1>2, <2>1, <2>2, Zenon DEF Session!Administer, Linked
<1>7. QED
  BY <1>1, <1>4, <1>5, <1>6, CloseOwn DEF FsmInv, Step, Session!Next

\* The loop leaves connections alone and stays, or returns a state whose promise
\* it can keep.
LEMMA QuietLoopSteps ==
    ASSUME FsmInv, IdleHoldTimer \/ OpenConfirmRecv \/ HoldSend \/ EstablishedHoldTimer
    PROVE  Step
<1>1. CASE IdleHoldTimer
  <2>1. /\ UNCHANGED <<state, mgr, outgoingConnCh, connCh, rd, adminState, adminStateCh, ctx,
                       conn, recvOpen, conns>>
        /\ state = "IDLE" /\ pc = "run"
        /\ \/ UNCHANGED <<pc, next>>
           \/ pc' = "leave" /\ next' = "ACTIVE" /\ adminState = Up
    BY <1>1, LoopRestFacts DEF IdleHoldTimer, In, Return, Stay, loopVars, adminVars
  <2>2. Types'
    BY <2>1 DEF FsmInv, Types, Session!States
  <2>3. Owned' /\ Dialed'
    BY <2>1, Fewer
  <2>4. LoopInv'
    BY <2>1 DEF FsmInv, LoopInv, Leaving, Promises, OpenOnConn
  <2>5. Linked' => Linked
    BY <2>1 DEF Linked
  <2>6. QED
    BY <2>1, <2>2, <2>3, <2>4, <2>5, Quiet DEF FsmInv, Step
<1>2. CASE OpenConfirmRecv
  <2>1. /\ UNCHANGED <<state, mgr, outgoingConnCh, connCh, rd, adminState, adminStateCh, ctx,
                       conn, recvOpen, conns>>
        /\ state = "OPENCONFIRM" /\ pc = "run"
        /\ pc' = "leave" /\ next' = "ESTABLISHED"
    BY <1>2, LoopRestFacts DEF OpenConfirmRecv, In, Return, adminVars
  <2>2. Types'
    BY <2>1 DEF FsmInv, Types, Session!States
  <2>3. Owned' /\ Dialed'
    BY <2>1, Fewer
  <2>4. Confirmed'
    BY <2>1 DEF FsmInv, LoopInv, Confirmed, Linked
  <2>5. LoopInv'
    BY <2>1, <2>4 DEF FsmInv, LoopInv, Leaving, Promises, OpenOnConn
  <2>6. Linked' => Linked
    BY <2>1 DEF Linked
  <2>7. QED
    BY <2>1, <2>2, <2>3, <2>5, <2>6, Quiet DEF FsmInv, Step
<1>3. CASE HoldSend
  <2>1. /\ UNCHANGED <<state, next, mgr, outgoingConnCh, connCh, rd, adminState, adminStateCh,
                       ctx, conn, recvOpen, conns>>
        /\ pc = "holdSend" /\ pc' = "run"
    BY <1>3 DEF HoldSend, connVars, mgrVars, adminVars, ctlVars
  <2>2. Types'
    BY <2>1 DEF FsmInv, Types
  <2>3. Owned' /\ Dialed'
    BY <2>1, Fewer, Zenon
  <2>4. LoopInv'
    BY <2>1 DEF FsmInv, LoopInv, Leaving, OpenOnConn
  <2>5. Linked' => Linked
    BY <2>1 DEF Linked
  <2>6. QED
    BY <2>1, <2>2, <2>3, <2>4, <2>5, Quiet DEF FsmInv, Step
<1>4. CASE EstablishedHoldTimer
  <2>1. /\ UNCHANGED <<state, mgr, outgoingConnCh, connCh, rd, adminState, adminStateCh>>
        /\ state = "ESTABLISHED" /\ Close({conn})
        /\ \/ pc' = "leave" /\ next' = "IDLE"
           \/ pc' = "holdSend" /\ next' = next
    BY <1>4, LoopRestFacts DEF EstablishedHoldTimer, In, Return, adminVars
  <2>2. CASE pc' = "leave" /\ next' = "IDLE"
    BY <2>1, <2>2, Ends
  <2>3. CASE pc' = "holdSend" /\ next' = next
    <3>1. conn' = NoConn
      BY <2>1, CloseFacts DEF FsmInv
    <3>2. Types'
      BY <2>1, <2>3, CloseOwn, Zenon DEF FsmInv, Types
    <3>3. LoopInv'
      BY <2>1, <2>3, <3>1, Zenon DEF FsmInv, LoopInv, Leaving, OpenOnConn
    <3>4. QED
      BY <2>1, <3>2, <3>3, CloseOwn, Quiet DEF FsmInv, Step
  <2>4. QED
    BY <2>1, <2>2, <2>3
<1>5. QED
  BY <1>1, <1>2, <1>3, <1>4

LEMMA ActiveConnStep == FsmInv /\ ActiveConn => Step
<1> SUFFICES ASSUME FsmInv, ActiveConn PROVE Step
  OBVIOUS
<1>1. /\ state = "ACTIVE" /\ pc' = "leave" /\ connCh # NoConn
      /\ conn' = connCh /\ connCh' = NoConn
      /\ UNCHANGED <<state, mgr, outgoingConnCh, rd, adminState, adminStateCh, recvOpen>>
      /\ \/ next' = "OPENSENT" /\ conns' = [conns EXCEPT ![connCh].tx = {"open"}]
         \/ next' = "IDLE" /\ conns' = conns
  BY LoopRestFacts DEF ActiveConn, In, Return, adminVars
<1>2. connCh \in Conn /\ conns[connCh] \in ConnRec
  BY <1>1 DEF FsmInv, Types
<1>3. /\ conns' \in [Conn -> ConnRec]
      /\ \A c \in Conn : c # connCh => conns'[c] = conns[c]
      /\ next' = "OPENSENT" => "open" \in conns'[connCh].tx
  <2> DEFINE r == [conns[connCh] EXCEPT !.tx = {"open"}]
  <2>1. r \in ConnRec /\ r.tx = {"open"}
    BY <1>2, ConnRecEdit, Zenon DEF Message, ConnRec
  <2>2. [conns EXCEPT ![connCh].tx = {"open"}] = [conns EXCEPT ![connCh] = r]
    OBVIOUS
  <2> HIDE DEF r
  <2>3. CASE conns' = conns /\ next' = "IDLE"
    BY <2>3 DEF FsmInv, Types
  <2>4. CASE conns' = [conns EXCEPT ![connCh] = r]
    BY <1>2, <2>1, <2>4 DEF FsmInv, Types
  <2>5. QED
    BY <1>1, <2>2, <2>3, <2>4, Zenon
<1>4. Types'
  BY <1>1, <1>2, <1>3 DEF FsmInv, Types, Session!States
<1>5. Owned'
  BY <1>1 DEF FsmInv, Owned
<1>6. Dialed'
  BY <1>1, <1>3 DEF FsmInv, Types, MgrRec, Owned, Dialed, OpenWritten
<1>7. LoopInv'
  BY <1>1, <1>3 DEF FsmInv, LoopInv, Leaving, Promises, OpenWritten, OpenOnConn
<1>8. QED
  BY <1>1, <1>4, <1>5, <1>6, <1>7, Quiet DEF FsmInv, Step

LEMMA ActiveOutgoingStep == FsmInv /\ ActiveOutgoing => Step
<1> SUFFICES ASSUME FsmInv, ActiveOutgoing PROVE Step
  OBVIOUS
<1> DEFINE out == outgoingConnCh
<1>1. /\ state = "ACTIVE" /\ pc = "run" /\ out # NoConn /\ outgoingConnCh' = NoConn
      /\ UNCHANGED <<connCh, rd, adminState, adminStateCh, ctx>>
  BY DEF ActiveOutgoing, In, adminVars, ctlVars
<1>2. out \in Conn /\ conns[out] \in ConnRec /\ "open" \in conns[out].tx
  BY <1>1 DEF FsmInv, Types, Dialed, OpenWritten
<1>3. CASE /\ conn' = out /\ recvOpen' = out
           /\ conns' = [conns EXCEPT ![out].tx = @ \cup {"keepalive"}]
           /\ Return("OPENCONFIRM", "OpenMsgReceived") /\ UNCHANGED <<mgr, cur>>
  <2>1. pc' = "leave" /\ next' = "OPENCONFIRM" /\ UNCHANGED <<state, mgr>>
    BY <1>3 DEF Return
  <2>2. /\ conns' \in [Conn -> ConnRec]
        /\ \A c \in Conn : c # out => conns'[c] = conns[c]
        /\ {"open", "keepalive"} \subseteq conns'[out].tx
    <3>1. conns[out].tx \cup {"keepalive"} \in SUBSET Message
      BY <1>2 DEF ConnRec, Message
    <3>2. [conns[out] EXCEPT !.tx = conns[out].tx \cup {"keepalive"}] \in ConnRec
      BY <1>2, <3>1, ConnRecEdit, Zenon
    <3>3. QED
      BY <1>2, <1>3, <3>2, Zenon DEF FsmInv, Types, ConnRec
  <2>3. Types'
    BY <1>1, <1>2, <1>3, <2>1, <2>2 DEF FsmInv, Types, Session!States
  <2>4. Owned'
    BY <1>1, <1>3, <2>1, SMTT(30) DEF FsmInv, Owned
  <2>5. Dialed'
    BY <1>1, <2>1, <2>2 DEF FsmInv, Types, MgrRec, Owned, Dialed, OpenWritten
  <2>6. Confirmed'
    BY <1>1, <1>3, <2>2 DEF Confirmed, Linked
  <2>7. LoopInv'
    BY <1>1, <2>1, <2>6, Zenon DEF FsmInv, LoopInv, Leaving, Promises, OpenOnConn
  <2>8. QED
    BY <1>1, <2>1, <2>3, <2>4, <2>5, <2>7, Quiet DEF FsmInv, Step
<1>4. CASE Close({out}) /\ Stay /\ newOutgoingConnManager
  <2>1. UNCHANGED <<state, pc, next>>
    BY <1>4 DEF Stay, loopVars
  <2>2. /\ conns' \in [Conn -> ConnRec]
        /\ \A c \in Conn : c # out => conns'[c] = conns[c]
        /\ conn' = IF conn = out THEN NoConn ELSE conn
        /\ recvOpen' \in Conn \cup {NoConn}
        /\ Linked' => Linked
    BY <1>4, CloseFacts DEF FsmInv
  <2>3. conn' = conn
    BY <1>1, <2>2 DEF FsmInv, Owned
  <2>4. mgr' \in [Mgr -> MgrRec] /\ \A k \in Mgr : mgr'[k].conn \in {mgr[k].conn, NoConn}
    BY <1>4, NewManager DEF FsmInv
  <2>5. Types'
    BY <1>1, <2>1, <2>2, <2>3, <2>4, Zenon DEF FsmInv, Types
  <2>6. Owned'
    BY <1>1, <2>3, <2>4, ZenonT(30) DEF FsmInv, Owned
  <2>7. Dialed'
    BY <1>1, <2>2, <2>4 DEF FsmInv, Types, MgrRec, Owned, Dialed, OpenWritten
  <2>8. LoopInv'
    BY <1>1, <2>1 DEF FsmInv, LoopInv, Leaving, OpenOnConn
  <2>9. QED
    BY <1>1, <2>1, <2>2, <2>5, <2>6, <2>7, <2>8, Quiet DEF FsmInv, Step
<1>5. QED
  BY <1>3, <1>4 DEF ActiveOutgoing

\* opensent keeps one of its two connections, on which the OPEN was written, and
\* closes some of the others it holds.
LEMMA ConfirmStep ==
    ASSUME FsmInv, state = "OPENSENT", NEW keep \in {conn, outgoingConnCh},
           NEW drop \in SUBSET {conn, outgoingConnCh}, keep \notin drop,
           NEW ok \in WriteOutcomes(keep),
           conn' = IF ok THEN keep ELSE NoConn,
           recvOpen' = IF ok THEN OpenOf(keep) ELSE NoConn,
           conns' = [c \in Conn |-> IF c \in drop \/ (c = keep /\ ~ok) THEN Closed
                                    ELSE IF c = keep
                                         THEN [conns[c] EXCEPT !.tx = @ \cup {"keepalive"}]
                                         ELSE conns[c]],
           mgr' \in [Mgr -> MgrRec], \A k \in Mgr : mgr'[k].conn = mgr[k].conn,
           outgoingConnCh' = NoConn,
           UNCHANGED <<state, connCh, rd, adminState, adminStateCh>>,
           IF ok THEN next' = "OPENCONFIRM" /\ pc' \in {"leave", "stopInState"}
                 ELSE next' = "IDLE" /\ pc' = "leave"
    PROVE  Step
<1>1. keep # NoConn => keep \in Conn /\ conns[keep] \in ConnRec /\ "open" \in conns[keep].tx
  BY DEF FsmInv, Types, LoopInv, Dialed, OpenWritten
<1>2. ok \in BOOLEAN /\ (ok => keep # NoConn)
  BY Zenon DEF WriteOutcomes
<1>3. ok => [conns[keep] EXCEPT !.tx = @ \cup {"keepalive"}] \in ConnRec
  <2>1. ok => conns[keep].tx \cup {"keepalive"} \in SUBSET Message
    BY <1>1, <1>2 DEF ConnRec, Message
  <2>2. QED
    BY <1>1, <1>2, <2>1, ConnRecEdit, Zenon
<1>4. /\ conns' \in [Conn -> ConnRec]
      /\ \A c \in Conn : c \notin {conn, outgoingConnCh} => conns'[c] = conns[c]
      /\ ok => {"open", "keepalive"} \subseteq conns'[keep].tx
  <2> DEFINE r == [conns[keep] EXCEPT !.tx = @ \cup {"keepalive"}]
  <2>1. ok => r \in ConnRec /\ {"open", "keepalive"} \subseteq r.tx
    BY <1>1, <1>2, <1>3 DEF ConnRec
  <2>2. Closed \in ConnRec
    BY ClosedType, Zenon
  <2>3. conns' = [c \in Conn |-> IF c \in drop \/ (c = keep /\ ~ok) THEN Closed
                                 ELSE IF c = keep THEN r ELSE conns[c]]
    BY Zenon
  <2> HIDE DEF r
  <2>4. conns' \in [Conn -> ConnRec]
    BY <1>2, <2>1, <2>2, <2>3, Zenon DEF FsmInv, Types
  <2>5. QED
    BY <1>1, <1>2, <2>1, <2>3, <2>4
<1>5. Types'
  BY <1>4 DEF FsmInv, Types, OpenOf, Session!States
<1>6. Owned'
  BY DEF FsmInv, Owned
<1>7. Dialed'
  BY <1>4 DEF FsmInv, Types, MgrRec, Owned, Dialed, OpenWritten
<1>8. ok => Confirmed'
  BY <1>2, <1>4 DEF Confirmed, Linked, OpenOf
<1>9. LoopInv'
  <2>1. CASE ok
    BY <2>1, <1>8 DEF FsmInv, LoopInv, Leaving, Promises, OpenOnConn, OpenWritten, Confirmed
  <2>2. CASE ~ok
    BY <2>2 DEF FsmInv, LoopInv, Leaving, Promises, OpenOnConn, OpenWritten
  <2>3. QED
    BY <2>1, <2>2
<1>10. QED
  BY <1>5, <1>6, <1>7, <1>9, Quiet DEF FsmInv, Step

LEMMA OpenSentSteps ==
    ASSUME FsmInv, OpenSentRecv \/ OpenSentOutgoing
    PROVE  Step
<1> DEFINE out == outgoingConnCh
<1>1. /\ state = "OPENSENT" /\ pc = "run" /\ outgoingConnCh' = NoConn
      /\ UNCHANGED <<connCh, rd, adminState, adminStateCh>>
  BY Zenon DEF OpenSentRecv, OpenSentOutgoing, In, adminVars
<1>2. CASE OpenSentRecv
  <2> DEFINE keep == IF out # NoConn /\ isDominant THEN out ELSE conn
             drop == {conn, out} \ {keep}
  <2>1. PICK ok \in WriteOutcomes(keep) :
            /\ conn' = IF ok THEN keep ELSE NoConn
            /\ recvOpen' = IF ok THEN OpenOf(keep) ELSE NoConn
            /\ conns' = [c \in Conn |-> IF c \in drop \/ (c = keep /\ ~ok) THEN Closed
                                        ELSE IF c = keep
                                             THEN [conns[c] EXCEPT !.tx = @ \cup {"keepalive"}]
                                             ELSE conns[c]]
            /\ IF ok
               THEN /\ next' = "OPENCONFIRM" /\ UNCHANGED state
                    /\ \/ pc' = "stopInState" /\ mgr' = [mgr EXCEPT ![cur].cancelled = TRUE]
                       \/ pc' = "leave" /\ UNCHANGED mgr
               ELSE next' = "IDLE" /\ pc' = "leave" /\ UNCHANGED <<state, mgr>>
    BY <1>2, Zenon DEF OpenSentRecv, Confirm, Return
  <2>2. keep \in {conn, outgoingConnCh} /\ drop \in SUBSET {conn, outgoingConnCh} /\ keep \notin drop
    OBVIOUS
  <2> HIDE DEF keep, drop
  <2>3. mgr' \in [Mgr -> MgrRec] /\ \A k \in Mgr : mgr'[k].conn = mgr[k].conn
    BY <2>1, Cancelled DEF FsmInv, Types
  <2>4. /\ UNCHANGED state
        /\ IF ok THEN next' = "OPENCONFIRM" /\ pc' \in {"leave", "stopInState"}
                 ELSE next' = "IDLE" /\ pc' = "leave"
    BY <2>1
  <2>5. QED
    BY <1>1, <2>1, <2>2, <2>3, <2>4, ConfirmStep
<1>3. CASE OpenSentOutgoing
  <2> DEFINE collision == rd.msg = "open"
             keep == IF collision /\ ~isDominant THEN conn ELSE out
             drop == IF collision THEN {conn, out} \ {keep} ELSE {}
  <2>1. PICK ok \in WriteOutcomes(keep) :
            /\ conn' = IF ok THEN keep ELSE NoConn
            /\ recvOpen' = IF ok THEN OpenOf(keep) ELSE NoConn
            /\ conns' = [c \in Conn |-> IF c \in drop \/ (c = keep /\ ~ok) THEN Closed
                                        ELSE IF c = keep
                                             THEN [conns[c] EXCEPT !.tx = @ \cup {"keepalive"}]
                                             ELSE conns[c]]
            /\ UNCHANGED <<state, mgr>> /\ pc' = "leave"
            /\ next' = IF ok THEN "OPENCONFIRM" ELSE "IDLE"
    <3>1. PICK ok \in WriteOutcomes(keep) :
            /\ conn' = IF ok THEN keep ELSE NoConn
            /\ recvOpen' = IF ok THEN OpenOf(keep) ELSE NoConn
            /\ conns' = [c \in Conn |-> IF c \in drop \/ (c = keep /\ ~ok) THEN Closed
                                        ELSE IF c = keep
                                             THEN [conns[c] EXCEPT !.tx = @ \cup {"keepalive"}]
                                             ELSE conns[c]]
            /\ IF ok THEN Return("OPENCONFIRM", "OpenMsgReceived") /\ UNCHANGED <<mgr, cur>>
                     ELSE Return("IDLE", "WriteFailed") /\ UNCHANGED <<mgr, cur>>
      BY <1>3, Zenon DEF OpenSentOutgoing, Confirm
    <3> HIDE DEF keep, drop
    <3>2. QED
      BY <3>1 DEF Return
  <2>2. keep \in {conn, outgoingConnCh} /\ drop \in SUBSET {conn, outgoingConnCh} /\ keep \notin drop
    OBVIOUS
  <2> HIDE DEF keep, drop, collision
  <2>3. mgr' \in [Mgr -> MgrRec] /\ \A k \in Mgr : mgr'[k].conn = mgr[k].conn
    BY <2>1 DEF FsmInv, Types
  <2>4. /\ UNCHANGED state
        /\ IF ok THEN next' = "OPENCONFIRM" /\ pc' \in {"leave", "stopInState"}
                 ELSE next' = "IDLE" /\ pc' = "leave"
    BY <2>1
  <2>5. QED
    BY <1>1, <2>1, <2>2, <2>3, <2>4, ConfirmStep
<1>4. QED
  BY <1>2, <1>3

LEMMA LeaveStep == FsmInv /\ Leave => Step
<1> SUFFICES ASSUME FsmInv, Leave PROVE Step
  OBVIOUS
<1>1. /\ pc = "leave" /\ pc' = "stopInLoop" /\ rd' = NoReader
      /\ mgr' = [mgr EXCEPT ![cur].cancelled = TRUE]
      /\ UNCHANGED <<state, next, conn, recvOpen, conns, outgoingConnCh, connCh, adminState,
                     adminStateCh, ctx>>
  BY DEF Leave, Joined, StopMgr, adminVars, ctlVars
<1>2. mgr' \in [Mgr -> MgrRec] /\ \A k \in Mgr : mgr'[k].conn = mgr[k].conn
  BY <1>1, Cancelled, Zenon DEF FsmInv
<1>3. Types'
  BY <1>1, <1>2 DEF FsmInv, Types, NoReader
<1>4. Owned' /\ Dialed'
  BY <1>1, <1>2, Fewer
<1>5. LoopInv'
  BY <1>1 DEF FsmInv, LoopInv, Leaving, Promises, OpenOnConn, OpenWritten, Confirmed, Linked
<1>6. Linked' => Linked
  BY <1>1 DEF Linked
<1>7. QED
  BY <1>1, <1>3, <1>4, <1>5, <1>6, Quiet DEF FsmInv, Step

LEMMA MgrStoppedStep == FsmInv /\ MgrStopped => Step
<1> SUFFICES ASSUME FsmInv, MgrStopped PROVE Step
  OBVIOUS
<1> DEFINE out == outgoingConnCh
<1>1. /\ pc \in {"stopInState", "stopInLoop"} /\ pc' \in {"leave", "callback"}
      /\ Close({out}) /\ outgoingConnCh' = NoConn
      /\ UNCHANGED <<state, next, mgr, connCh, rd, adminState, adminStateCh, ctx>>
  BY DEF MgrStopped, adminVars, ctlVars
<1>2. /\ conns' \in [Conn -> ConnRec]
      /\ \A c \in Conn : c # out => conns'[c] = conns[c]
      /\ conn' = IF conn = out THEN NoConn ELSE conn
      /\ recvOpen' = IF recvOpen = out THEN NoConn ELSE recvOpen
      /\ recvOpen' \in Conn \cup {NoConn}
      /\ Linked' => Linked
  BY <1>1, CloseFacts DEF FsmInv
<1>3. conn' = conn /\ (Linked => recvOpen' = recvOpen)
  BY <1>2 DEF FsmInv, Owned, Linked
<1>4. Types'
  BY <1>1, <1>2, <1>3 DEF FsmInv, Types
<1>5. Owned'
  BY <1>1, <1>3, Zenon DEF FsmInv, Owned
<1>6. Dialed'
  BY <1>1, <1>2 DEF FsmInv, Types, MgrRec, Owned, Dialed, OpenWritten
<1>7. conn # NoConn => conns'[conn] = conns[conn]
  BY <1>2, Zenon DEF FsmInv, Types, Owned
<1>8. /\ OpenWritten(conn) => OpenWritten(conn)'
      /\ Confirmed => Confirmed'
      /\ OpenOnConn => OpenOnConn'
  BY <1>1, <1>3, <1>7 DEF OpenWritten, Confirmed, Linked, OpenOnConn
<1>9. LoopInv'
  BY <1>1, <1>3, <1>8 DEF FsmInv, LoopInv, Leaving, Promises
<1>10. QED
  BY <1>1, <1>2, <1>4, <1>5, <1>6, <1>9, Quiet, SMTT(30) DEF FsmInv, Step

\* handleFSMMessage has been told of the next state, and it begins: this is
\* where the session moves.
LEMMA CallbackStep == FsmInv /\ Callback => Step
<1> SUFFICES ASSUME FsmInv, Callback PROVE Step
  OBVIOUS
<1>1. /\ pc \in {"leave", "callback"} /\ ~ctx
      /\ state' = next /\ pc' = "run" /\ next' = "IDLE"
      /\ rd' = IF next \in {"OPENSENT", "OPENCONFIRM"} THEN [on |-> conn, msg |-> None] ELSE NoReader
      /\ newOutgoingConnManager \/ UNCHANGED mgr
      /\ UNCHANGED <<conn, recvOpen, conns, outgoingConnCh, connCh, adminState, adminStateCh>>
  BY Zenon DEF Callback, Returned, Joined, adminVars
<1>2. Promises /\ next # "GONE" /\ state # "GONE"
  BY <1>1, Zenon DEF FsmInv, LoopInv, Leaving, Promises
<1>3. mgr' \in [Mgr -> MgrRec] /\ \A k \in Mgr : mgr'[k].conn \in {mgr[k].conn, NoConn}
  BY <1>1, NewManager, Zenon DEF FsmInv, Types
<1>4. Types'
  BY <1>1, <1>3 DEF FsmInv, Types, NoReader, Session!States
<1>5. Owned' /\ Dialed'
  BY <1>1, <1>3, Fewer, ZenonT(30)
<1>6. LoopInv'
  BY <1>1, <1>2, Zenon DEF LoopInv, Leaving, Promises, OpenWritten, Confirmed, Linked, OpenOnConn
<1>7. Session!Next
  <2>1. next \in {"IDLE", "ACTIVE", "OPENSENT", "OPENCONFIRM", "ESTABLISHED"}
    BY <1>2 DEF FsmInv, Types, Session!States
  <2>2. CASE next = "IDLE"
    BY <1>1, <1>2, <2>2 DEF Session!Next, Session!Drop
  <2>3. CASE next = "ACTIVE"
    BY <1>1, <1>2, <2>3 DEF Promises, Session!Next, Session!Start, Up
  <2>4. CASE next = "OPENSENT"
    BY <1>1, <1>2, <2>4, Zenon DEF Promises, Session!Next, Session!Handshake
  <2>5. CASE next = "OPENCONFIRM"
    BY <1>1, <1>2, <2>5, Zenon DEF Promises, Confirmed, Linked, Session!Next, Session!Handshake
  <2>6. CASE next = "ESTABLISHED"
    BY <1>1, <1>2, <2>6 DEF Promises, Confirmed, Linked, Session!Next, Session!Establish
  <2>7. QED
    BY <2>1, <2>2, <2>3, <2>4, <2>5, <2>6
<1>8. QED
  BY <1>4, <1>5, <1>6, <1>7, Zenon DEF FsmInv, Step

LEMMA LoopExitStep == FsmInv /\ LoopExit => Step
<1> SUFFICES ASSUME FsmInv, LoopExit PROVE Step
  OBVIOUS
<1>1. /\ state' = "GONE" /\ pc' = "done" /\ rd' = NoReader
      /\ Close({conn, connCh}) /\ connCh' = NoConn
      /\ UNCHANGED <<next, mgr, outgoingConnCh, adminState, adminStateCh>>
  BY DEF LoopExit, mgrVars, adminVars
<1>2. /\ conns' \in [Conn -> ConnRec]
      /\ \A c \in Conn : c \notin {conn, connCh} => conns'[c] = conns[c]
      /\ conn' = NoConn
      /\ recvOpen' \in Conn \cup {NoConn}
  BY <1>1, CloseFacts, Zenon DEF FsmInv
<1>3. Types'
  BY <1>1, <1>2, Zenon DEF FsmInv, Types, NoReader, Session!States
<1>4. Owned'
  BY <1>1, <1>2, Zenon DEF FsmInv, Owned
<1>5. Dialed'
  BY <1>1, <1>2, Zenon DEF FsmInv, Types, MgrRec, Owned, Dialed, OpenWritten
<1>6. LoopInv'
  BY <1>1, <1>2 DEF LoopInv, Leaving, OpenOnConn
<1>7. Session!Remove
  BY <1>1, <1>2 DEF Session!Remove
<1>8. QED
  BY <1>3, <1>4, <1>5, <1>6, <1>7 DEF FsmInv, Step, Session!Next

-----------------------------------------------------------------------------
(* The channels.                                                           *)

\* A step that leaves the channels alone, and the loop in the place where it
\* was or outside the session.
LEMMA ChannelFrame ==
    ASSUME ChannelInv, UNCHANGED <<notification, reasonCh>>,
           cur' \in Mgr \cup {NoMgr},
           \/ UNCHANGED <<state, pc, reason, sender, poison, ctx, deconfigured>>
           \/ pc' \in {"stopInState", "stopInLoop", "leave", "callback", "done"} /\ reason' \in Reason
    PROVE  ChannelInv'
  BY DEF ChannelInv, ChannelTypes, Serving

LEMMA NewManagerIsOne ==
    ASSUME newOutgoingConnManager
    PROVE  cur' \in Mgr
  BY DEF newOutgoingConnManager

\* nonblockSendChannel keeps the capacity, and there is something to read.
LEMMA SendReasonFacts ==
    ASSUME reasonCh \in Seq(Reason), Len(reasonCh) <= 3, NEW r \in Reason, SendReason(r)
    PROVE  reasonCh' \in Seq(Reason) /\ Len(reasonCh') <= 3 /\ reasonCh' # <<>>
<1>1. CASE Len(reasonCh) < 3
  <2>1. reasonCh' = Append(reasonCh, r)
    BY <1>1 DEF SendReason
  <2>2. reasonCh' \in Seq(Reason) /\ Len(reasonCh') = Len(reasonCh) + 1
    BY <2>1, AppendProperties
  <2>3. QED
    BY <1>1, <2>2, EmptySeq, LenProperties
<1>2. CASE Len(reasonCh) >= 3
  <2>1. reasonCh' = reasonCh
    BY <1>2, LenProperties DEF SendReason
  <2>2. QED
    BY <1>2, <2>1, EmptySeq
<1>3. QED
  BY <1>1, <1>2, LenProperties

LEMMA ChannelLoopEnds ==
    ASSUME FsmInv, ChannelInv,
           \/ Dying \/ ExtraConn \/ RestartTimer \/ AdminOp \/ IdleHoldTimer
           \/ ActiveConn \/ HandshakeFails \/ HandshakeTimer \/ OpenConfirmRecv
           \/ Leave \/ MgrStopped \/ LoopExit
    PROVE  ChannelInv'
<1> USE DEF Stay, Return, LoopRest, loopVars, mgrVars, ioVars, ctlVars, Reason
<1>0. cur \in Mgr \cup {NoMgr} /\ reason \in Reason
  BY Zenon DEF ChannelInv, ChannelTypes
<1>1. CASE Dying
  BY <1>0, <1>1, ChannelFrame, Zenon DEF Dying
<1>2. CASE ExtraConn
  BY <1>0, <1>2, ChannelFrame, Zenon DEF ExtraConn
<1>3. CASE RestartTimer
  BY <1>0, <1>3, ChannelFrame, Zenon DEF RestartTimer
<1>4. CASE AdminOp
  BY <1>0, <1>4, ChannelFrame, Zenon DEF AdminOp
<1>5. CASE IdleHoldTimer
  BY <1>0, <1>5, ChannelFrame DEF IdleHoldTimer
<1>6. CASE ActiveConn
  BY <1>0, <1>6, ChannelFrame, Zenon DEF ActiveConn
<1>7. CASE HandshakeFails
  BY <1>0, <1>7, ChannelFrame, Zenon DEF HandshakeFails
<1>8. CASE HandshakeTimer
  BY <1>0, <1>8, ChannelFrame, Zenon DEF HandshakeTimer
<1>9. CASE OpenConfirmRecv
  BY <1>0, <1>9, ChannelFrame DEF OpenConfirmRecv
<1>10. CASE Leave
  BY <1>0, <1>10, ChannelFrame DEF Leave, StopMgr
<1>11. CASE MgrStopped
  BY <1>0, <1>11, ChannelFrame DEF MgrStopped
<1>12. CASE LoopExit
  BY <1>0, <1>12, ChannelFrame DEF LoopExit
<1>13. QED
  BY <1>1, <1>2, <1>3, <1>4, <1>5, <1>6, <1>7, <1>8, <1>9, <1>10, <1>11, <1>12, Zenon

LEMMA ChannelLoopManager ==
    ASSUME FsmInv, ChannelInv, ActiveOutgoing \/ OpenSentRecv \/ OpenSentOutgoing
    PROVE  ChannelInv'
<1> USE DEF Stay, Return, loopVars, mgrVars, ioVars, ctlVars, Reason
<1>0. cur \in Mgr \cup {NoMgr} /\ reason \in Reason
  BY DEF ChannelInv, ChannelTypes
<1>1. CASE ActiveOutgoing
  BY <1>0, <1>1, ChannelFrame, NewManagerIsOne DEF ActiveOutgoing
<1>2. CASE OpenSentRecv
  BY <1>0, <1>2, ChannelFrame DEF OpenSentRecv, Confirm
<1>3. CASE OpenSentOutgoing
  BY <1>0, <1>3, ChannelFrame DEF OpenSentOutgoing, Confirm
<1>4. QED
  BY <1>1, <1>2, <1>3

LEMMA ChannelEstablished ==
    ASSUME FsmInv, ChannelInv,
           \/ EstablishedNotification \/ EstablishedReason \/ EstablishedHoldTimer \/ HoldSend
    PROVE  ChannelInv'
<1> USE DEF Stay, Return, LoopRest, loopVars, mgrVars, ioVars, ctlVars
<1>1. CASE EstablishedNotification
  BY <1>1 DEF EstablishedNotification, ChannelInv, ChannelTypes, Serving, Reason, None
<1>2. CASE EstablishedReason
  <2>1. Head(reasonCh) \in Reason /\ Tail(reasonCh) \in Seq(Reason)
        /\ Len(Tail(reasonCh)) = Len(reasonCh) - 1
    BY <1>2, HeadTailProperties DEF EstablishedReason, ChannelInv, ChannelTypes
  <2>2. reasonCh' \in Seq(Reason) /\ Len(reasonCh') <= 3
    <3>1. reasonCh' = Tail(reasonCh) /\ Len(reasonCh) \in Nat /\ Len(reasonCh) <= 3
      BY <1>2, LenProperties, Zenon DEF EstablishedReason, ChannelInv, ChannelTypes
    <3>2. QED
      BY <2>1, <3>1
  <2>3. pc' = "leave" /\ reason' \in Reason /\ UNCHANGED <<cur, notification>>
    BY <1>2, <2>1 DEF EstablishedReason, Reason
  <2>4. QED
    BY <2>2, <2>3, Zenon DEF ChannelInv, ChannelTypes, Serving
<1>3. CASE EstablishedHoldTimer
  <2>1. UNCHANGED <<state, notification, reasonCh, cur, sender, poison, ctx, deconfigured>>
    BY <1>3 DEF EstablishedHoldTimer
  <2>2. /\ Serving
        /\ \/ pc' = "leave" /\ reason' \in Reason
           \/ pc' = "holdSend" /\ reason' = reason
    BY <1>3 DEF EstablishedHoldTimer, In, Serving, Reason
  <2>3. QED
    BY <2>1, <2>2, Zenon DEF ChannelInv, ChannelTypes, Serving
<1>4. CASE HoldSend
  <2>1. reasonCh' = Append(reasonCh, "HoldSent") /\ Len(reasonCh) < 3 /\ "HoldSent" \in Reason
    BY <1>4 DEF HoldSend, Reason
  <2>2. reasonCh' \in Seq(Reason) /\ Len(reasonCh') <= 3 /\ reasonCh' # <<>>
    BY <2>1, SendReasonFacts DEF SendReason, ChannelInv, ChannelTypes
  <2>3. /\ UNCHANGED <<state, reason, notification, cur, poison, ctx, deconfigured>>
        /\ pc = "holdSend" /\ pc' = "run"
    BY <1>4 DEF HoldSend
  <2>4. QED
    BY <2>2, <2>3 DEF ChannelInv, ChannelTypes, Serving
<1>5. QED
  BY <1>1, <1>2, <1>3, <1>4, Zenon

\* Entering ESTABLISHED is not the end of a dynamic neighbor, so the queues
\* are emptied first.
LEMMA ChannelCallback ==
    ASSUME FsmInv, ChannelInv, Callback
    PROVE  ChannelInv'
<1>1. /\ state' = next /\ pc' = "run" /\ reason' = None /\ reasonCh' = <<>>
      /\ sender' = (next = "ESTABLISHED") /\ pc \in {"leave", "callback"}
      /\ notification' \in {None, notification}
  BY Zenon DEF Callback, Returned, Joined, NotificationAfter
<1>2. cur' \in Mgr \cup {NoMgr}
  BY NewManagerIsOne DEF Callback, ChannelInv, ChannelTypes
<1>3. reasonCh' \in Seq(Reason) /\ Len(reasonCh') <= 3
  BY <1>1, EmptySeq
<1>4. ChannelTypes'
  BY <1>1, <1>2, <1>3 DEF ChannelInv, ChannelTypes, Reason
<1>5. ASSUME next = "ESTABLISHED"
      PROVE  notification' # "nosession" /\ ~poison' /\ sender' /\ ~ctx'
  <2>1. state = "OPENCONFIRM"
    BY <1>1, <1>5 DEF FsmInv, LoopInv, Leaving, Promises
  <2>2. notification' = None /\ poison' = FALSE /\ ctx' = FALSE
    BY <1>5, <2>1, Zenon DEF Callback, NotificationAfter, PoisonAfter
  <2>3. QED
    BY <1>1, <1>5, <2>2, Zenon DEF None
<1>6. QED
  BY <1>1, <1>4, <1>5, Zenon DEF ChannelInv, Serving

LEMMA ChannelIo ==
    ASSUME FsmInv, ChannelInv, Io
    PROVE  ChannelInv'
<1> USE DEF loopVars, mgrVars, ioVars, ctlVars
<1>1. CASE Read
  BY <1>1, ChannelFrame DEF Read, ChannelInv, ChannelTypes
<1>2. CASE ReceiverStep
  <2>1. UNCHANGED <<state, pc, reason, cur, sender, poison, ctx, deconfigured>> /\ Serving
    BY <1>2 DEF ReceiverStep, IoRest, Serving
  <2>2. /\ notification' \in {notification, "session"}
        /\ reasonCh' = reasonCh \/ \E r \in Reason : SendReason(r)
    BY <1>2, Zenon DEF ReceiverStep, Notify, Reason
  <2>3. reasonCh' \in Seq(Reason) /\ Len(reasonCh') <= 3 /\ (reasonCh # <<>> => reasonCh' # <<>>)
    BY <2>2, SendReasonFacts DEF ChannelInv, ChannelTypes
  <2>4. QED
    BY <2>1, <2>2, <2>3 DEF ChannelInv, ChannelTypes, Serving
<1>3. CASE SenderStep
  <2>1. UNCHANGED <<state, pc, reason, cur, notification, ctx, deconfigured>> /\ Serving
    BY <1>3 DEF SenderStep, IoRest, Serving
  <2>2. poison' = poison /\ SendReason("WriteFailed")
    BY <1>3, <2>1, Zenon DEF SenderStep, ChannelInv
  <2>3. reasonCh' \in Seq(Reason) /\ Len(reasonCh') <= 3 /\ reasonCh' # <<>>
    BY <2>2, SendReasonFacts DEF ChannelInv, ChannelTypes, Reason
  <2>4. QED
    BY <2>1, <2>2, <2>3 DEF ChannelInv, ChannelTypes, Serving
<1>4. QED
  BY <1>1, <1>2, <1>3 DEF Io

LEMMA ChannelServer ==
    ASSUME FsmInv, ChannelInv, Server
    PROVE  ChannelInv'
<1> USE DEF loopVars, mgrVars, ioVars, ctlVars, ServerRest
<1>1. CASE passConnToPeer
  BY <1>1, ChannelFrame DEF passConnToPeer, ChannelInv, ChannelTypes
<1>2. CASE sendNotification
  <2>1. UNCHANGED <<state, pc, reason, cur, reasonCh, sender, poison, ctx, deconfigured>>
    BY <1>2 DEF sendNotification
  <2>2. /\ notification' \in {notification, "session", "nosession"}
        /\ Serving => notification' \in {notification, "session"}
    BY <1>2 DEF sendNotification, Notify, Serving
  <2>3. QED
    BY <2>1, <2>2 DEF ChannelInv, ChannelTypes, Serving
<1>3. ASSUME NEW how \in {"notify", "quiet"}, deleteNeighbor(how) PROVE ChannelInv'
  BY <1>3 DEF deleteNeighbor, ChannelInv, ChannelTypes, Serving
<1>4. CASE stopNeighbor
  BY <1>4, Zenon DEF stopNeighbor, ChannelInv, ChannelTypes, Serving
<1>5. ASSUME NEW s \in {Up, Down}, setAdminState(s) PROVE ChannelInv'
  BY <1>5, ChannelFrame DEF setAdminState, ChannelInv, ChannelTypes
<1>6. QED
  BY <1>1, <1>2, <1>3, <1>4, <1>5 DEF Server

LEMMA ChannelAside ==
    ASSUME FsmInv, ChannelInv,
           \/ PrefixLimit \/ stopPeerRestarting
           \/ \E m \in Mgr : Manager(m)
           \/ \E c \in Conn : Peer(c)
    PROVE  ChannelInv'
<1> USE DEF loopVars, mgrVars, ioVars, ctlVars
<1> DEFINE Same == UNCHANGED <<notification, reasonCh, cur, state, pc, reason, sender, poison, ctx,
                               deconfigured>>
<1>1. CASE PrefixLimit
  BY <1>1, ChannelFrame, Zenon DEF PrefixLimit, ChannelInv, ChannelTypes
<1>2. CASE stopPeerRestarting
  BY <1>2, ChannelFrame, Zenon DEF stopPeerRestarting, ChannelInv, ChannelTypes
<1>3. ASSUME NEW m \in Mgr, Manager(m) PROVE Same
  BY <1>3, Zenon DEF Manager, MgrConnect, MgrRecv, MgrHoldTimer, MgrRedial, MgrDeliver, MgrCancelled, MgrRest
<1>4. ASSUME NEW c \in Conn, Peer(c) PROVE Same
  BY <1>4, Zenon DEF Peer, PeerSends, PeerFails, Collect, PeerRest
<1>5. Same => ChannelInv'
  BY ChannelFrame DEF ChannelInv, ChannelTypes
<1>6. QED
  BY <1>1, <1>2, <1>3, <1>4, <1>5, Zenon

-----------------------------------------------------------------------------
(* The goodbye.                                                            *)

\* The deletion, its notification and the context are left alone, and the loop
\* does not come back into the session.
Apart ==
    /\ UNCHANGED <<ctx, deletion, deconfigured>>
    /\ pc' \in {"run", "holdSend"} => pc \in {"run", "holdSend"} /\ state' = state

LEMMA GoodbyeFrame == GoodbyeInv /\ Apart => GoodbyeInv'
<1> SUFFICES ASSUME GoodbyeInv, Apart PROVE GoodbyeInv'
  OBVIOUS
<1>1. Serving' /\ ctx' => deletion' # None
  BY DEF GoodbyeInv, Apart, Serving
<1>2. ASSUME ~ctx' \/ pc' \in {"run", "holdSend"} PROVE deconfigured' <=> deletion' = "notify"
  <2>1. ~ctx \/ pc \in {"run", "holdSend"}
    BY <1>2 DEF Apart
  <2>2. QED
    BY <2>1, Zenon DEF GoodbyeInv, Apart
<1>3. QED
  BY <1>1, <1>2, Zenon DEF GoodbyeInv

LEMMA LoopApart ==
    ASSUME \/ ExtraConn \/ RestartTimer \/ AdminOp \/ IdleHoldTimer
           \/ ActiveConn \/ HandshakeFails \/ HandshakeTimer \/ OpenConfirmRecv
           \/ Leave \/ MgrStopped
    PROVE  Apart
<1> USE DEF Stay, Return, LoopRest, loopVars, ctlVars, Apart
<1>1. CASE ExtraConn
  BY <1>1, Zenon DEF ExtraConn
<1>2. CASE RestartTimer
  BY <1>2 DEF RestartTimer
<1>3. CASE AdminOp
  BY <1>3 DEF AdminOp
<1>4. CASE IdleHoldTimer
  BY <1>4 DEF IdleHoldTimer
<1>5. CASE ActiveConn
  BY <1>5 DEF ActiveConn
<1>6. CASE HandshakeFails
  BY <1>6 DEF HandshakeFails
<1>7. CASE HandshakeTimer
  BY <1>7 DEF HandshakeTimer
<1>8. CASE OpenConfirmRecv
  BY <1>8 DEF OpenConfirmRecv
<1>9. CASE Leave
  BY <1>9 DEF Leave, StopMgr
<1>10. CASE MgrStopped
  BY <1>10 DEF MgrStopped
<1>11. QED
  BY <1>1, <1>2, <1>3, <1>4, <1>5, <1>6, <1>7, <1>8, <1>9, <1>10, Zenon

LEMMA SessionApart ==
    ASSUME \/ ActiveOutgoing \/ OpenSentRecv \/ OpenSentOutgoing
           \/ EstablishedNotification \/ EstablishedReason \/ EstablishedHoldTimer \/ HoldSend
    PROVE  Apart
<1> USE DEF Stay, Return, LoopRest, loopVars, ctlVars, Apart
<1>1. CASE ActiveOutgoing
  BY <1>1 DEF ActiveOutgoing
<1>2. CASE OpenSentRecv
  BY <1>2 DEF OpenSentRecv, Confirm
<1>3. CASE OpenSentOutgoing
  BY <1>3 DEF OpenSentOutgoing, Confirm
<1>4. CASE EstablishedNotification
  BY <1>4 DEF EstablishedNotification
<1>5. CASE EstablishedReason
  BY <1>5 DEF EstablishedReason
<1>6. CASE EstablishedHoldTimer
  BY <1>6 DEF EstablishedHoldTimer, In
<1>7. CASE HoldSend
  BY <1>7 DEF HoldSend
<1>8. QED
  BY <1>1, <1>2, <1>3, <1>4, <1>5, <1>6, <1>7, Zenon

\* Cancelled, the loop leaves the state it is in and never runs another.
LEMMA GoodbyeLoop ==
    ASSUME FsmInv, GoodbyeInv, Dying \/ Callback \/ LoopExit
    PROVE  GoodbyeInv'
<1>1. CASE Dying
  <2>1. ctx' = ctx /\ ctx /\ pc' = "leave"
    BY <1>1, Zenon DEF Dying, Return
  <2>2. QED
    BY <2>1, Zenon DEF GoodbyeInv, Serving
<1>2. CASE Callback
  <2>1. ~ctx /\ state' = next /\ UNCHANGED <<deletion, deconfigured>> /\ pc \in {"leave", "callback"}
    BY <1>2, Zenon DEF Callback, Returned, Joined
  <2>2. deconfigured' <=> deletion' = "notify"
    BY <2>1, Zenon DEF GoodbyeInv
  <2>3. ASSUME next = "ESTABLISHED" PROVE ~ctx'
    <3>1. state = "OPENCONFIRM"
      BY <2>1, <2>3 DEF FsmInv, LoopInv, Leaving, Promises
    <3>2. QED
      BY <1>2, <2>3, <3>1, Zenon DEF Callback
  <2>4. QED
    BY <2>1, <2>2, <2>3, Zenon DEF GoodbyeInv, Serving
<1>3. CASE LoopExit
  <2>1. ctx' = ctx /\ ctx /\ pc' = "done"
    BY <1>3, Zenon DEF LoopExit, ctlVars
  <2>2. QED
    BY <2>1, Zenon DEF GoodbyeInv, Serving
<1>4. QED
  BY <1>1, <1>2, <1>3

LEMMA GoodbyeServer ==
    ASSUME GoodbyeInv, Server
    PROVE  GoodbyeInv'
<1> USE DEF loopVars, ctlVars, ServerRest, Apart
<1>1. CASE passConnToPeer
  BY <1>1, GoodbyeFrame, Zenon DEF passConnToPeer
<1>2. CASE sendNotification
  BY <1>2, GoodbyeFrame, Zenon DEF sendNotification
<1>3. ASSUME NEW s \in {Up, Down}, setAdminState(s) PROVE GoodbyeInv'
  BY <1>3, GoodbyeFrame, Zenon DEF setAdminState
<1>4. ASSUME NEW how \in {"notify", "quiet"}, deleteNeighbor(how) PROVE GoodbyeInv'
  <2>1. deletion' = how /\ deconfigured' = (how = "notify") /\ how # None
    BY <1>4 DEF deleteNeighbor, None
  <2>2. QED
    BY <2>1, Zenon DEF GoodbyeInv
<1>5. CASE stopNeighbor
  <2>1. UNCHANGED <<state, pc, deletion, deconfigured>> /\ deletion # None
    BY <1>5, Zenon DEF stopNeighbor, Locked
  <2>2. ~ctx \/ pc \in {"run", "holdSend"} => (deconfigured <=> deletion = "notify")
    BY Zenon DEF GoodbyeInv
  <2>3. ctx' = TRUE
    BY <1>5, Zenon DEF stopNeighbor
  <2>4. QED
    BY <2>1, <2>2, <2>3, Zenon DEF GoodbyeInv
<1>6. QED
  BY <1>1, <1>2, <1>3, <1>4, <1>5, Zenon DEF Server

LEMMA AsideApart ==
    ASSUME \/ Io \/ PrefixLimit \/ stopPeerRestarting
           \/ \E m \in Mgr : Manager(m)
           \/ \E c \in Conn : Peer(c)
    PROVE  Apart
<1> USE DEF loopVars, ctlVars, Apart
<1>1. CASE Io
  BY <1>1, Zenon DEF Io, Read, ReceiverStep, SenderStep, IoRest
<1>2. CASE PrefixLimit \/ stopPeerRestarting
  BY <1>2, Zenon DEF PrefixLimit, stopPeerRestarting
<1>3. ASSUME NEW m \in Mgr, Manager(m) PROVE Apart
  BY <1>3, Zenon DEF Manager, MgrConnect, MgrRecv, MgrHoldTimer, MgrRedial, MgrDeliver, MgrCancelled, MgrRest
<1>4. ASSUME NEW c \in Conn, Peer(c) PROVE Apart
  BY <1>4, Zenon DEF Peer, PeerSends, PeerFails, Collect, PeerRest
<1>5. QED
  BY <1>1, <1>2, <1>3, <1>4, Zenon

-----------------------------------------------------------------------------
(* The theorems.                                                           *)

LEMMA FsmInit == Init => FsmInv /\ Session!Init
<1> SUFFICES ASSUME Init PROVE FsmInv /\ Session!Init
  BY Zenon
<1>1. Stopped \in MgrRec /\ Stopped.conn = NoConn
  BY Zenon DEF MgrRec, Stopped
<1>2. Types
  BY <1>1, ClosedType DEF Init, Types, NoReader, Up, Down, Session!States, Session!AdminStates
<1>3. \A m \in Mgr : mgr[m].conn = NoConn
  BY <1>1, Zenon DEF Init
<1>4. Owned /\ Dialed
  BY <1>3, ZenonT(30) DEF Init, Owned, Dialed, OpenWritten
<1>5. LoopInv
  BY Zenon DEF Init, LoopInv, Leaving, OpenOnConn
<1>6. Session!Init
  BY DEF Init, Session!Init, Up, Down
<1>7. QED
  BY <1>2, <1>4, <1>5, <1>6 DEF FsmInv

LEMMA FsmNext == FsmInv /\ [Next]_vars => FsmInv' /\ [Session!Next]_Session!vars
<1> SUFFICES ASSUME FsmInv, [Next]_vars PROVE Step
  BY DEF Step
<1>1. CASE Loop
  BY <1>1, SimpleLoopSteps, QuietLoopSteps, ExtraConnStep, AdminOpStep, ActiveConnStep,
     ActiveOutgoingStep, OpenSentSteps, LeaveStep, MgrStoppedStep, CallbackStep, LoopExitStep, Zenon
  DEF Loop
<1>2. CASE UNCHANGED vars
  <2>1. UNCHANGED <<state, pc, next, adminState, adminStateCh, conn, recvOpen, conns, mgr,
                    outgoingConnCh, connCh, rd, ctx>>
    BY <1>2 DEF vars, loopVars, connVars, mgrVars, adminVars, ctlVars
  <2>2. QED
    BY <2>1, Aside, Zenon DEF FsmInv, Types
<1>3. QED
  BY <1>1, <1>2, IoStep, ServerStep, ManagerStep, PeerStep DEF Next

\* Whatever connections, managers, peers and operators do, the state machine
\* takes only steps of the abstract session: the server sees its states in
\* order, no session is started while the neighbor is down, and none is
\* established without an OPEN received on its own connection (fsm.go).
THEOREM ImplementsSession == Spec => Implements
<1>1. Implements <=> Session!Spec
  BY DEF Implements
<1>2. QED
  BY <1>1, FsmInit, FsmNext, PTL DEF Spec, Session!Spec

\* From OPENCONFIRM on, the connection in use is the one whose OPEN was
\* received, and our OPEN and KEEPALIVE were written there (opensent, active).
THEOREM OpenOnConnCorrect == Spec => []OpenOnConn
<1>1. FsmInv => OpenOnConn
  BY DEF FsmInv, LoopInv
<1>2. QED
  BY <1>1, FsmInit, FsmNext, PTL DEF Spec

LEMMA ChannelNext == FsmInv /\ ChannelInv /\ [Next]_vars => ChannelInv'
<1> SUFFICES ASSUME FsmInv, ChannelInv, [Next]_vars PROVE ChannelInv'
  OBVIOUS
<1>1. CASE Loop
  BY <1>1, ChannelLoopEnds, ChannelLoopManager, ChannelEstablished, ChannelCallback, Zenon DEF Loop
<1>2. CASE UNCHANGED vars
  BY <1>2, ChannelFrame DEF vars, loopVars, mgrVars, ioVars, ctlVars, ChannelInv, ChannelTypes
<1>3. QED
  BY <1>1, <1>2, ChannelIo, ChannelServer, ChannelAside DEF Next

LEMMA GoodbyeNext == FsmInv /\ GoodbyeInv /\ [Next]_vars => GoodbyeInv'
<1> SUFFICES ASSUME FsmInv, GoodbyeInv, [Next]_vars PROVE GoodbyeInv'
  OBVIOUS
<1>1. CASE Loop
  BY <1>1, LoopApart, SessionApart, GoodbyeLoop, GoodbyeFrame, Zenon DEF Loop
<1>2. CASE UNCHANGED vars
  BY <1>2, GoodbyeFrame, Zenon DEF vars, loopVars, ctlVars, Apart
<1>3. QED
  BY <1>1, <1>2, AsideApart, GoodbyeServer, GoodbyeFrame, Zenon DEF Next

\* A session is only ever told what was meant for it, for any numbers of
\* connections, managers and failures: no notification and no poison item is
\* left over from before it, its send loop does not end unreported, and when it
\* is cancelled the goodbye is waiting exactly if deleteNeighbor was asked for
\* one (established, handleFSMMessage, deleteNeighbor, StopBgp).
THEOREM ChannelsCorrect == Spec => []Channels
<1>1. Init => ChannelInv /\ GoodbyeInv
  <2>1. Init => ChannelInv
    BY EmptySeq DEF Init, ChannelInv, ChannelTypes, Serving, Reason
  <2>2. Init => GoodbyeInv
    BY DEF Init, GoodbyeInv, Serving, None
  <2>3. QED
    BY <2>1, <2>2
<1>2. FsmInv /\ ChannelInv /\ GoodbyeInv => Channels
  <2> SUFFICES ASSUME FsmInv, ChannelInv, GoodbyeInv PROVE Channels
    OBVIOUS
  <2>1. TypeOK
    BY DEF FsmInv, Types, ConnRec, ChannelInv, ChannelTypes, TypeOK, Up, Down, PfxCt,
           Session!AdminStates
  <2>2. FreshNotification /\ SenderLives
    BY DEF ChannelInv, Serving, FreshNotification, SenderLives, In
  <2>3. GoodbyeReady
    BY Zenon DEF GoodbyeInv, Serving, GoodbyeReady, In
  <2>4. QED
    BY <2>1, <2>2, <2>3 DEF Channels
<1>3. QED
  BY <1>1, <1>2, FsmInit, FsmNext, ChannelNext, GoodbyeNext, PTL DEF Spec

=============================================================================
