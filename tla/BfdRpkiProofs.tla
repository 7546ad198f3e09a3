-------------------------- MODULE BfdRpkiProofs --------------------------
(***************************************************************************)
(* Theorems about two services of the daemon that the management API       *)
(* configures.                                                             *)
(*                                                                         *)
(* BfdControl: an address never has two BFD sessions at work, no session   *)
(* is forgotten, and static neighbors have the session they are configured *)
(* with, for any neighbors, configurations and operations.                 *)
(*                                                                         *)
(* Rpki: a client that settled is up to date with its cache, and ROAs do   *)
(* not outlive it, for any content, answers and losses of connections.     *)
(***************************************************************************)
EXTENDS BfdControl, SequenceTheorems, FiniteSetTheorems, TLAPS

\* The state of the sessions and of the server loop's hold on them.
held == <<peers, joining, rest, loop, sess>>

\* What an operation sends to the BFD server.
LEMMA EventsSent ==
    ASSUME NEW a \in Addresses, NEW c \in Confs \cup {NoConf}
    PROVE  AddEvents(a, c) \in Seq(Events) /\ <<Delete(a)>> \in Seq(Events)
<1>1. c # NoConf => Add(a, c) \in Events
    BY DEF Add, Events
<1>2. Delete(a) \in Events
    BY DEF Delete, Events
<1> QED
    BY <1>1, <1>2 DEF AddEvents

\* A session object has an address.
LEMMA SessionAddr ==
    ASSUME TypeOK
    PROVE  \A x \in Sessions : sess[x] # None => sess[x] \in Session /\ sess[x].addr \in Addresses
BY DEF TypeOK, Session

\* Stop changes a flag of a session that exists.
LEMMA Closes ==
    ASSUME TypeOK, NEW x \in Sessions, sess[x] # None, sess' = [sess EXCEPT ![x].closed = TRUE]
    PROVE  \E s \in Session : /\ sess' = [sess EXCEPT ![x] = s]
                             /\ s.addr = sess[x].addr /\ s.conf = sess[x].conf
<1>1. sess[x] \in Session
    BY SessionAddr
<1>2. [sess[x] EXCEPT !.closed = TRUE] \in Session
    BY <1>1, Zenon DEF Session
<1>3. /\ [sess[x] EXCEPT !.closed = TRUE].addr = sess[x].addr
      /\ [sess[x] EXCEPT !.closed = TRUE].conf = sess[x].conf
    BY <1>1 DEF Session
<1> QED
    BY <1>2, <1>3, Zenon

\* A step of a session changes that session, and not its address or configuration.
LEMMA SessionSteps ==
    ASSUME TypeOK, SessionNext
    PROVE  /\ \E x \in Sessions, s \in Session : /\ sess[x] # None
                                                /\ sess' = [sess EXCEPT ![x] = s]
                                                /\ s.addr = sess[x].addr
                                                /\ s.conf = sess[x].conf
           /\ UNCHANGED <<lockVars, chan, loopVars, stopped>>
<1>1. PICK x \in Sessions :
          SessionUp(x) \/ SessionFails(x) \/ ResetPeer(x) \/ SessionShutdown(x)
    BY DEF SessionNext
<1>2. sess[x] # None /\ UNCHANGED <<lockVars, chan, loopVars, stopped>>
    BY <1>1 DEF SessionUp, SessionFails, ResetPeer, SessionShutdown, Running
<1>3. sess[x] \in Session
    BY <1>2, SessionAddr
<1> DEFINE Effect(s) == /\ s \in Session /\ s.addr = sess[x].addr /\ s.conf = sess[x].conf
                         /\ sess' = [sess EXCEPT ![x] = s]
<1>4. CASE SessionUp(x)
    <2>1. Effect([sess[x] EXCEPT !.up = TRUE])
        BY <1>3, <1>4, Zenon DEF SessionUp, Session
    <2> QED
        BY <1>2, <2>1, Zenon
<1>5. CASE SessionFails(x)
    <2>1. Effect([sess[x] EXCEPT !.phase = "reset"])
        BY <1>3, <1>5 DEF SessionFails, Session
    <2> QED
        BY <1>2, <2>1, Zenon
<1>6. CASE ResetPeer(x)
    <2>1. Effect([sess[x] EXCEPT !.phase = "loop", !.up = FALSE])
        BY <1>3, <1>6, Zenon DEF ResetPeer, Session
    <2> QED
        BY <1>2, <2>1, Zenon
<1>7. CASE SessionShutdown(x)
    <2>1. Effect([sess[x] EXCEPT !.phase = "done"])
        BY <1>3, <1>7 DEF SessionShutdown, Session
    <2> QED
        BY <1>2, <2>1, Zenon
<1> QED
    BY <1>1, <1>4, <1>5, <1>6, <1>7

\* Every handler keeps the types; that the server only stops sessions that
\* exist comes from SessionInv.
LEMMA TypeStep == TypeOK /\ SessionInv /\ [Next]_vars => TypeOK'
<1> SUFFICES ASSUME TypeOK, SessionInv, [Next]_vars PROVE TypeOK'
    OBVIOUS
<1> USE DEF TypeOK, lockVars, loopVars
<1>1. CASE UNCHANGED vars
    BY <1>1 DEF vars
<1>2. CASE LockNext
    <2> USE EventsSent DEF LockFree, Operation
    <2>1. ASSUME NEW a \in Addresses, NEW i \in Ids, NEW d \in BOOLEAN,
                 NEW c \in Confs \cup {NoConf}, addNeighbor(a, i, d, c)
          PROVE  TypeOK'
        <3>1. nbr' \in [Addresses -> Neighbor \cup {None}]
            BY <2>1 DEF addNeighbor, Neighbor
        <3> QED
            BY <2>1, <3>1 DEF addNeighbor
    <2>2. ASSUME NEW a \in Addresses, NEW c \in Confs \cup {NoConf}, updateNeighbor(a, c)
          PROVE  TypeOK'
        <3>1. nbr' \in [Addresses -> Neighbor \cup {None}]
            BY <2>2, Zenon DEF updateNeighbor, Neighbor
        <3>2. section' \in Seq(Events)
            <4> DEFINE before == IF nbr[a].bfd # NoConf THEN <<Delete(a)>> ELSE <<>>
            <4>1. before \in Seq(Events)
                BY EventsSent
            <4>2. AddEvents(a, c) \in Seq(Events)
                BY EventsSent
            <4>3. section' = before \o AddEvents(a, c)
                BY <2>2 DEF updateNeighbor, updateBfdPeer
            <4> HIDE DEF before
            <4> QED
                BY <4>1, <4>2, <4>3
        <3> QED
            BY <2>2, <3>1, <3>2 DEF updateNeighbor
    <2>3. ASSUME NEW a \in Addresses, deleteNeighbor(a) PROVE TypeOK'
        BY <2>3, SMTT(30) DEF deleteNeighbor
    <2>4. ASSUME NEW a \in Addresses, StopBgpNext(a) PROVE TypeOK'
        BY <2>4, Zenon DEF StopBgpNext
    <2>5. ASSUME NEW a \in Addresses, DynamicDown(a) PROVE TypeOK'
        <3>1. nbr[a].id \in Ids
            BY <2>5 DEF DynamicDown, Neighbor
        <3> QED
            BY <2>5, <3>1 DEF DynamicDown
    <2>6. ASSUME NEW a \in Addresses, NEW i \in Ids, stopNeighbor(a, i) PROVE TypeOK'
        BY <2>6, Zenon DEF stopNeighbor
    <2>7. CASE StopBgp
        BY <2>7 DEF StopBgp
    <2>8. CASE StopBgpEnd
        BY <2>8, Zenon DEF StopBgpEnd
    <2>9. CASE Send
        <3>1. Head(section) \in Events /\ Tail(section) \in Seq(Events)
            BY <2>9 DEF Send
        <3>2. chan' \in Seq(Events)
            BY <2>9, <3>1 DEF Send
        <3> QED
            BY <2>9, <3>1, <3>2 DEF Send
    <2>10. CASE Stop
        BY <2>10 DEF Stop
    <2> QED
        BY <1>2, <2>1, <2>2, <2>3, <2>4, <2>5, <2>6, <2>7, <2>8, <2>9, <2>10 DEF LockNext
<1>3. CASE LoopNext
    <2>1. CASE PeerUpdate
        <3>1. /\ chan' \in Seq(Events) /\ armed' \in BOOLEAN /\ Head(chan) \in Events
              /\ UNCHANGED <<lockVars, rest, loop, config, listening, stopped>>
            BY <2>1 DEF PeerUpdate
        <3>2. ASSUME NEW x \in Sessions, addBfdPeer(Head(chan), x)
              PROVE  /\ peers' \in [Addresses -> Sessions \cup {None}]
                     /\ joining' \in Sessions \cup {None}
                     /\ sess' \in [Sessions -> Session \cup {None}]
            <4>1. Head(chan).conf \in Confs /\ Head(chan).addr \in Addresses
                BY <3>1, <3>2, Zenon DEF addBfdPeer, Events
            <4> QED
                <5>1. NewSession(Head(chan).addr, Head(chan).conf) \in Session
                    BY <4>1 DEF NewSession, Session
                <5> QED
                    BY <3>2, <4>1, <5>1 DEF addBfdPeer
        <3>3. ASSUME deleteBfdPeer(Head(chan))
              PROVE  /\ peers' \in [Addresses -> Sessions \cup {None}]
                     /\ joining' \in Sessions \cup {None}
                     /\ sess' \in [Sessions -> Session \cup {None}]
            <4>1. Head(chan).addr \in Addresses
                BY <3>1, Zenon DEF Events
            <4>2. CASE peers[Head(chan).addr] # None
                <5> DEFINE x == peers[Head(chan).addr]
                <5>1. x \in Sessions /\ sess[x] # None
                    BY <4>1, <4>2 DEF SessionInv
                <5>2. sess' = [sess EXCEPT ![x].closed = TRUE]
                    BY <3>3, <4>2 DEF deleteBfdPeer
                <5>3. PICK s \in Session : sess' = [sess EXCEPT ![x] = s]
                    <6> HIDE DEF TypeOK
                    <6> QED
                        BY <5>1, <5>2, Closes, Zenon
                <5> QED
                    BY <3>3, <4>1, <4>2, <5>1, <5>3, Zenon DEF deleteBfdPeer
            <4> QED
                BY <3>3, <4>2 DEF deleteBfdPeer
        <3> QED
            BY <2>1, <3>1, <3>2, <3>3 DEF PeerUpdate
    <2>2. CASE Joined
        BY <2>2 DEF Joined
    <2>3. CASE Config
        BY <2>3 DEF Config
    <2>4. ASSUME NEW ok \in BOOLEAN, StartStop(ok) PROVE TypeOK'
        BY <2>4, Zenon DEF StartStop
    <2>5. CASE Shutdown
        BY <2>5 DEF Shutdown
    <2>6. CASE ShutdownNext
        <3>1. PICK x \in rest : /\ joining' = x /\ rest' = rest \ {x}
                                /\ sess' = [sess EXCEPT ![x].closed = TRUE]
            BY <2>6, Zenon DEF ShutdownNext
        <3>2. x \in Sessions /\ sess[x] # None
            BY DEF SessionInv
        <3>3. PICK s \in Session : sess' = [sess EXCEPT ![x] = s]
            <4> HIDE DEF TypeOK
            <4> QED
                BY <3>1, <3>2, Closes, Zenon
        <3> QED
            BY <2>6, <3>1, <3>2, <3>3, ZenonT(30) DEF ShutdownNext
    <2>7. CASE ShutdownEnd
        BY <2>7, Zenon DEF ShutdownEnd
    <2> QED
        BY <1>3, <2>1, <2>2, <2>3, <2>4, <2>5, <2>6, <2>7 DEF LoopNext
<1>4. CASE SessionNext
    <2> HIDE DEF TypeOK
    <2>1. PICK x \in Sessions, s \in Session : sess' = [sess EXCEPT ![x] = s]
        BY <1>4, SessionSteps
    <2>2. UNCHANGED <<lockVars, chan, loopVars, stopped>>
        BY <1>4, SessionSteps
    <2> QED
        BY <2>1, <2>2 DEF TypeOK
<1> QED
    BY <1>1, <1>2, <1>3, <1>4 DEF Next

-----------------------------------------------------------------------------

\* A step that only changes fields of a session other than its address, and
\* leaves what the server holds alone, keeps the invariant.
LEMMA FieldsStep ==
    ASSUME SessionInv, UNCHANGED <<peers, joining, rest, loop>>,
           \A x \in Sessions : /\ (sess'[x] = None) <=> (sess[x] = None)
                               /\ sess[x] # None => sess'[x].addr = sess[x].addr,
           TypeOK
    PROVE  SessionInv'
BY DEF SessionInv, TypeOK

\* Every handler keeps the place of every session.
LEMMA SessionStep == TypeOK /\ SessionInv /\ [Next]_vars => SessionInv'
<1> SUFFICES ASSUME TypeOK, SessionInv, [Next]_vars PROVE SessionInv'
    OBVIOUS
<1>1. CASE UNCHANGED held
    BY <1>1 DEF SessionInv, held
<1>2. CASE UNCHANGED vars
    BY <1>1, <1>2 DEF vars, held, loopVars
<1>3. CASE LockNext
    <2>1. UNCHANGED held
        BY <1>3, Zenon DEF LockNext, addNeighbor, updateNeighbor, deleteNeighbor, StopBgp, StopBgpNext,
                    StopBgpEnd, DynamicDown, stopNeighbor, Send, Stop, held, loopVars
    <2> QED
        BY <1>1, <2>1
<1>4. CASE SessionNext
    <2>1. PICK x \in Sessions, s \in Session :
              sess[x] # None /\ sess' = [sess EXCEPT ![x] = s] /\ s.addr = sess[x].addr
        BY <1>4, SessionSteps
    <2>2. UNCHANGED <<peers, joining, rest, loop>>
        BY <1>4, SessionSteps DEF loopVars
    <2> QED
        BY <2>1, <2>2, FieldsStep, NoneAssumption DEF TypeOK
<1>5. CASE LoopNext
    <2>1. CASE PeerUpdate
        <3> DEFINE a == Head(chan).addr
        <3>0. Head(chan) \in Events
            BY <2>1 DEF PeerUpdate, TypeOK
        <3>1. a \in Addresses /\ joining = None /\ loop = "run" /\ UNCHANGED <<rest, loop>>
            BY <2>1, <3>0, Zenon DEF PeerUpdate, Idle, Events
        <3>2. rest = {}
            BY <3>1 DEF SessionInv
        <3> HIDE DEF a
        <3>3. ASSUME NEW x \in Sessions, sess[x] = None, addBfdPeer(Head(chan), x),
                     peers[a] = None
              PROVE  SessionInv'
            <4> DEFINE s == NewSession(a, Head(chan).conf)
            <4>1. s # None /\ s.addr = a
                <5>1. Head(chan).conf \in Confs
                    BY <3>0, <3>3, Zenon DEF addBfdPeer, Events
                <5>2. s \in Session
                    BY <3>1, <5>1 DEF NewSession, Session
                <5> QED
                    BY <5>2, NoneAssumption, Zenon DEF NewSession
            <4>2. /\ peers' = [peers EXCEPT ![a] = x] /\ joining' = None
                  /\ sess' = [sess EXCEPT ![x] = s]
                BY <3>1, <3>3 DEF addBfdPeer, a
            <4> HIDE DEF s
            <4> QED
                BY <3>1, <3>2, <3>3, <4>1, <4>2, SessionAddr, NoneAssumption DEF SessionInv, TypeOK
        <3>4. ASSUME deleteBfdPeer(Head(chan)), peers[a] # None
              PROVE  SessionInv'
            <4> DEFINE x == peers[a]
            <4>1. x \in Sessions /\ sess[x] # None /\ sess[x].addr = a
                BY <3>1, <3>4 DEF SessionInv, TypeOK
            <4>2. PICK s \in Session : sess' = [sess EXCEPT ![x] = s] /\ s.addr = sess[x].addr
                BY <3>4, <4>1, Closes DEF deleteBfdPeer, a
            <4>3. s # None /\ peers' = [peers EXCEPT ![a] = None] /\ joining' = x
                BY <3>4, NoneAssumption DEF deleteBfdPeer, a
            <4>4. \A y \in Sessions : /\ sess'[y] = None <=> sess[y] = None
                                      /\ sess[y] # None => sess'[y].addr = sess[y].addr
                BY <4>1, <4>2, <4>3 DEF TypeOK
            <4>5. x = peers[a]
                OBVIOUS
            <4> HIDE DEF x
            <4> QED
                <5>1. \A b \in Addresses : peers'[b] = IF b = a THEN None ELSE peers[b]
                    BY <3>1, <4>3 DEF TypeOK
                <5>2. \A b \in Addresses : peers'[b] # None =>
                          sess'[peers'[b]] # None /\ sess'[peers'[b]].addr = b
                    BY <5>1, <4>4 DEF SessionInv, TypeOK
                <5>3. joining' # None => sess'[joining'] # None /\ peers'[sess'[joining'].addr] = None
                    BY <3>1, <5>1, <4>1, <4>3, <4>4
                <5>4. rest' = {} /\ loop' = "run"
                    BY <3>1, <3>2
                <5>5. \A y \in Sessions : sess'[y] # None =>
                          peers'[sess'[y].addr] = y \/ joining' = y
                    BY <3>1, <3>2, <5>1, <4>1, <4>3, <4>4, <4>5, SessionAddr, NoneAssumption
                       DEF SessionInv
                <5>6. \A y, z \in Sessions :
                          sess'[y] # None /\ sess'[z] # None /\ sess'[y].addr = sess'[z].addr => y = z
                    BY <4>4 DEF SessionInv
                <5> QED
                    BY <5>2, <5>3, <5>4, <5>5, <5>6, Zenon DEF SessionInv
        <3> QED
            BY <1>1, <2>1, <3>1, <3>3, <3>4 DEF PeerUpdate, addBfdPeer, deleteBfdPeer, a, held
    <2>2. CASE Joined
        BY <2>2, SessionAddr, NoneAssumption DEF Joined, SessionInv, TypeOK
    <2>3. CASE Config \/ \E ok \in BOOLEAN : StartStop(ok)
        BY <1>1, <2>3 DEF Config, StartStop, held
    <2>4. CASE Shutdown
        <3>1. rest = {} /\ joining = None
            BY <2>4 DEF Shutdown, Idle, SessionInv
        <3> QED
            BY <2>4, <3>1, SessionAddr, NoneAssumption DEF Shutdown, Idle, SessionInv, TypeOK
    <2>5. CASE ShutdownNext
        <3>1. PICK x \in rest : /\ joining' = x /\ rest' = rest \ {x}
                                /\ sess' = [sess EXCEPT ![x].closed = TRUE]
            BY <2>5, Zenon DEF ShutdownNext
        <3>2. x \in Sessions /\ sess[x] # None
            BY DEF SessionInv, TypeOK
        <3>3. PICK s \in Session : sess' = [sess EXCEPT ![x] = s] /\ s.addr = sess[x].addr
            BY <3>1, <3>2, Closes, Zenon
        <3>4. s # None
            BY NoneAssumption
        <3>5. \A y \in Sessions : /\ sess'[y] = None <=> sess[y] = None
                                  /\ sess[y] # None => sess'[y].addr = sess[y].addr
            BY <3>2, <3>3, <3>4 DEF TypeOK
        <3>6. loop = "shutdown" /\ joining = None /\ UNCHANGED <<peers, loop>>
            BY <2>5 DEF ShutdownNext
        <3> QED
            BY <3>1, <3>2, <3>5, <3>6, SessionAddr DEF SessionInv, TypeOK
    <2>6. CASE ShutdownEnd
        BY <2>6 DEF ShutdownEnd, SessionInv
    <2> QED
        BY <1>5, <2>1, <2>2, <2>3, <2>4, <2>5, <2>6 DEF LoopNext
<1> QED
    BY <1>2, <1>3, <1>4, <1>5 DEF Next

-----------------------------------------------------------------------------

\* The types and the place of every session hold in every behavior: what the
\* two theorems below rest on.
THEOREM SessionsCorrect == Spec => [](TypeOK /\ SessionInv)
<1>1. Init => TypeOK /\ SessionInv
    <2>1. Init => TypeOK
        <3> SUFFICES ASSUME Init PROVE TypeOK
            OBVIOUS
        <3>1. section \in Seq(Events) /\ chan \in Seq(Events) /\ ops \in Nat
            BY DEF Init
        <3>2. nbr \in [Addresses -> Neighbor \cup {None}] /\ leaving \subseteq Addresses \X Ids
            BY Zenon DEF Init
        <3>3. /\ peers \in [Addresses -> Sessions \cup {None}]
              /\ sess \in [Sessions -> Session \cup {None}]
            BY DEF Init
        <3> QED
            BY <3>1, <3>2, <3>3, Zenon DEF Init, TypeOK
    <2>2. Init => SessionInv
        <3> SUFFICES ASSUME Init PROVE SessionInv
            OBVIOUS
        <3>1. /\ \A a \in Addresses : peers[a] = None
              /\ \A x \in Sessions : sess[x] = None
              /\ rest = {} /\ joining = None /\ loop = "run"
            BY DEF Init
        <3> QED
            BY <3>1, Zenon DEF SessionInv
    <2> QED
        BY <2>1, <2>2
<1>2. TypeOK /\ SessionInv /\ [Next]_vars => (TypeOK /\ SessionInv)'
    BY TypeStep, SessionStep
<1> QED
    BY <1>1, <1>2, PTL DEF Spec

\* OneSession: deleteBfdPeer and shutdown wait for the goroutine of a session
\* before anything else is made of its address.
THEOREM OneSessionCorrect == Spec => []OneSession
<1>1. SessionInv => OneSession
    BY DEF SessionInv, OneSession, Alive
<1> QED
    BY <1>1, SessionsCorrect, PTL

\* NoOrphan: the goroutine of every session can be reached from the BFD server.
THEOREM NoOrphanCorrect == Spec => []NoOrphan
<1>1. SessionInv => NoOrphan
    BY DEF SessionInv, NoOrphan, Alive
<1> QED
    BY <1>1, SessionsCorrect, PTL

-----------------------------------------------------------------------------
(* The sessions of static neighbors follow their configuration.            *)

\* Configuration of the session of address a, NoConf if there is none, and the
\* one its neighbor asks for.
Has(a) == IF peers[a] = None THEN NoConf ELSE sess[peers[a]].conf
Wants(a) == IF nbr[a] = None THEN NoConf ELSE nbr[a].bfd

\* What becomes of configuration c of address a by event e: addBfdPeer leaves
\* a session that exists alone.
After(a, c, e) ==
    IF e.addr # a THEN c
    ELSE IF ~e.add THEN NoConf
    ELSE IF c = NoConf THEN e.conf ELSE c

\* The same by the event in the channel, and by what is still to be sent.
AfterChan(a, c) == IF chan = <<>> THEN c ELSE After(a, c, chan[1])
AfterSection(a, c) ==
    IF section = <<>> THEN c
    ELSE IF Len(section) = 1 THEN After(a, c, section[1])
    ELSE After(a, After(a, c, section[1]), section[2])

\* ConfigInv: the events under way, handled in order, turn the session of a
\* static address into the one its neighbor asks for. Dynamic neighbors, and
\* their callbacks, are only at dynamic addresses.
ConfigInv ==
    /\ Len(chan) <= 1 /\ Len(section) <= 2
    /\ \A l \in leaving : l[1] \in Dynamic
    /\ \A a \in Addresses : nbr[a] # None /\ nbr[a].dynamic => a \in Dynamic
    /\ loop = "run" =>
          \A a \in Addresses \ Dynamic : AfterSection(a, AfterChan(a, Has(a))) = Wants(a)

\* The value the event in the channel leads to, if neither it nor the session
\* changes.
LEMMA ChanFrame ==
    ASSUME UNCHANGED <<chan, peers, sess>>, NEW a
    PROVE  AfterChan(a, Has(a))' = AfterChan(a, Has(a))
BY DEF AfterChan, After, Has

\* An event turns the session of its own address, and no other.
LEMMA AfterDelete ==
    ASSUME NEW a, NEW b, NEW c
    PROVE  After(b, c, Delete(a)) = IF a = b THEN NoConf ELSE c
BY DEF After, Delete

LEMMA AfterAdd ==
    ASSUME NEW a, NEW b, NEW c, NEW d
    PROVE  After(b, c, Add(a, d)) = IF a = b /\ c = NoConf THEN d ELSE c
BY DEF After, Add

\* A step that changes no session, event or neighbor.
LEMMA ConfigFrame ==
    ASSUME ConfigInv, UNCHANGED <<chan, section, nbr, loop>>,
           \A l \in leaving' : l[1] \in Dynamic,
           loop = "run" => \A a \in Addresses \ Dynamic : Has(a)' = Has(a)
    PROVE  ConfigInv'
<1>1. ASSUME loop = "run", NEW a \in Addresses \ Dynamic
      PROVE  AfterSection(a, AfterChan(a, Has(a)))' = Wants(a)'
    <2>1. AfterChan(a, Has(a))' = AfterChan(a, Has(a))
        BY <1>1 DEF AfterChan, After
    <2>2. AfterSection(a, AfterChan(a, Has(a)))' = AfterSection(a, AfterChan(a, Has(a)))
        BY <2>1 DEF AfterSection, After
    <2> QED
        BY <1>1, <2>2 DEF ConfigInv, Wants
<1> QED
    BY <1>1 DEF ConfigInv

\* The first event of a sequence, and the rest.
LEMMA FirstAndRest ==
    ASSUME NEW s \in Seq(Events), s # <<>>
    PROVE  /\ Head(s) \in Events /\ Head(s) = s[1] /\ Len(s) \in Nat /\ Len(s) >= 1
           /\ Tail(s) \in Seq(Events) /\ Len(Tail(s)) = Len(s) - 1
           /\ Len(s) = 1 <=> Tail(s) = <<>>
           /\ Len(s) = 2 => Tail(s)[1] = s[2]
<1>1. Head(s) \in Events /\ Head(s) = s[1] /\ Len(s) \in Nat /\ Len(s) >= 1
    OBVIOUS
<1>2. PICK r : /\ r = Tail(s) /\ r \in Seq(Events) /\ Len(r) = Len(s) - 1
               /\ \A i \in 1..Len(r) : r[i] = s[i + 1]
    BY HeadTailProperties, Zenon
<1>3. Len(r) = 0 <=> r = <<>>
    BY <1>2, EmptySeq, Zenon
<1>4. Len(s) = 2 => r[1] = s[2]
    BY ONLY <1>2, Len(s) \in Nat
<1> QED
    BY <1>1, <1>2, <1>3, <1>4

\* Every operation sends what turns the old configuration into the new one.
LEMMA ConfigLock == TypeOK /\ ConfigInv /\ LockNext => ConfigInv'
<1> SUFFICES ASSUME TypeOK, ConfigInv, LockNext PROVE ConfigInv'
    OBVIOUS
<1>u. UNCHANGED <<peers, sess, loop>>
    BY Zenon DEF LockNext, addNeighbor, updateNeighbor, deleteNeighbor, StopBgp, StopBgpNext,
           StopBgpEnd, DynamicDown, stopNeighbor, Send, Stop, loopVars
<1> DEFINE V(a) == AfterChan(a, Has(a))
<1>0. ASSUME section = <<>>, loop = "run", UNCHANGED chan, NEW b \in Addresses \ Dynamic
      PROVE  V(b)' = Wants(b)
    BY <1>0, <1>u, ChanFrame DEF ConfigInv, AfterSection
<1> HIDE DEF V
<1>a. ASSUME UNCHANGED <<chan, section, nbr>>, \A l \in leaving' : l[1] \in Dynamic
      PROVE  ConfigInv'
    BY <1>u, <1>a, ConfigFrame DEF Has
<1>b. ASSUME NEW a \in Addresses, section = <<>>, section' = <<Delete(a)>>, UNCHANGED chan,
             nbr' = [nbr EXCEPT ![a] = None] \/ (a \in Dynamic /\ nbr' = nbr), leaving' \subseteq leaving
      PROVE  ConfigInv'
    <2>1. Len(section') <= 2 /\ section' # <<>> /\ Len(section') = 1 /\ section'[1] = Delete(a)
        BY <1>b
    <2>2. \A b \in Addresses : nbr'[b] # None /\ nbr'[b].dynamic => b \in Dynamic
        BY <1>b DEF ConfigInv, TypeOK
    <2>3. ASSUME loop = "run", NEW b \in Addresses \ Dynamic
          PROVE  AfterSection(b, V(b))' = Wants(b)'
        <3>1. Wants(b)' = IF b = a THEN NoConf ELSE Wants(b)
            BY <1>b DEF Wants, TypeOK
        <3>2. AfterSection(b, V(b))' = After(b, V(b)', Delete(a))
            BY <2>1 DEF AfterSection, After
        <3> QED
            BY <3>1, <3>2, <1>0, <1>b, <2>3, AfterDelete
    <2> QED
        BY <1>u, <1>b, <2>1, <2>2, <2>3 DEF ConfigInv, V
<1>1. ASSUME NEW a \in Addresses, NEW i \in Ids, NEW d \in BOOLEAN,
             NEW c \in Confs \cup {NoConf}, addNeighbor(a, i, d, c)
      PROVE  ConfigInv'
    <2>1. /\ section = <<>> /\ UNCHANGED <<chan, leaving>> /\ nbr[a] = None
          /\ d => a \in Dynamic
          /\ nbr' = [nbr EXCEPT ![a] = [id |-> i, dynamic |-> d, bfd |-> c]]
          /\ section' = AddEvents(a, c)
        BY <1>1 DEF addNeighbor, Operation, LockFree
    <2>2. Len(section') <= 2
        BY <2>1 DEF AddEvents
    <2>3. \A b \in Addresses : nbr'[b] # None /\ nbr'[b].dynamic => b \in Dynamic
        BY <2>1 DEF ConfigInv, TypeOK
    <2>4. ASSUME loop = "run", NEW b \in Addresses \ Dynamic
          PROVE  AfterSection(b, V(b))' = Wants(b)'
        <3>1. [id |-> i, dynamic |-> d, bfd |-> c] # None
            BY NoneAssumption DEF Neighbor
        <3>2. Wants(b)' = IF b = a THEN c ELSE Wants(b)
            BY <2>1, <3>1 DEF Wants, TypeOK
        <3>3. AfterSection(b, V(b))' = IF c = NoConf THEN V(b)' ELSE After(b, V(b)', Add(a, c))
            BY <2>1 DEF AfterSection, AddEvents, After
        <3>4. b = a => Wants(b) = NoConf
            BY <2>1 DEF Wants
        <3> QED
            BY <3>2, <3>3, <3>4, <1>0, <2>1, <2>4, AfterAdd
    <2> QED
        BY <1>u, <2>1, <2>2, <2>3, <2>4 DEF ConfigInv, V
<1>2. ASSUME NEW a \in Addresses, NEW c \in Confs \cup {NoConf}, updateNeighbor(a, c)
      PROVE  ConfigInv'
    <2>1. /\ section = <<>> /\ UNCHANGED <<chan, leaving>> /\ nbr[a] # None
          /\ nbr' = [nbr EXCEPT ![a].bfd = c]
          /\ section' = updateBfdPeer(a, c)
        BY <1>2 DEF updateNeighbor, Operation, LockFree
    <2>2. nbr[a] \in Neighbor /\ [nbr[a] EXCEPT !.bfd = c] \in Neighbor
        BY <2>1 DEF TypeOK, Neighbor
    <2>3. /\ nbr'[a].bfd = c /\ nbr'[a].dynamic = nbr[a].dynamic /\ nbr'[a] # None
          /\ \A b \in Addresses : b # a => nbr'[b] = nbr[b]
        BY <2>1, <2>2, NoneAssumption DEF Neighbor, TypeOK
    <2>4. \A b \in Addresses : nbr'[b] # None /\ nbr'[b].dynamic => b \in Dynamic
        BY <2>1, <2>3 DEF ConfigInv
    <2>5. section' = IF nbr[a].bfd # NoConf
                     THEN IF c # NoConf THEN <<Delete(a), Add(a, c)>> ELSE <<Delete(a)>>
                     ELSE IF c # NoConf THEN <<Add(a, c)>> ELSE <<>>
        BY <2>1 DEF updateBfdPeer, AddEvents
    <2>6. Len(section') <= 2
        BY <2>5
    <2>7. ASSUME loop = "run", NEW b \in Addresses \ Dynamic
          PROVE  AfterSection(b, V(b))' = Wants(b)'
        <3>1. Wants(b)' = IF b = a THEN c ELSE Wants(b)
            BY <2>3, SMTT(30) DEF Wants
        <3>2. AfterSection(b, V(b))' =
                  IF nbr[a].bfd # NoConf
                  THEN IF c # NoConf THEN After(b, After(b, V(b)', Delete(a)), Add(a, c))
                       ELSE After(b, V(b)', Delete(a))
                  ELSE IF c # NoConf THEN After(b, V(b)', Add(a, c)) ELSE V(b)'
            BY <2>5, SMTT(60) DEF AfterSection, After
        <3>3. Wants(a) = nbr[a].bfd
            BY <2>1 DEF Wants
        <3> QED
            BY <3>1, <3>2, <3>3, <1>0, <2>1, <2>7, AfterAdd, AfterDelete
    <2> QED
        BY <1>u, <2>1, <2>4, <2>6, <2>7 DEF ConfigInv, V
<1>3. ASSUME NEW a \in Addresses, deleteNeighbor(a) \/ StopBgpNext(a) PROVE ConfigInv'
    BY <1>3, <1>b DEF deleteNeighbor, StopBgpNext, Operation, LockFree
<1>4. ASSUME NEW a \in Addresses, DynamicDown(a) PROVE ConfigInv'
    BY <1>4, <1>a DEF DynamicDown, ConfigInv
<1>5. ASSUME NEW a \in Addresses, NEW i \in Ids, stopNeighbor(a, i) PROVE ConfigInv'
    BY <1>5, <1>b, SMTT(30) DEF stopNeighbor, LockFree, ConfigInv
<1>6. CASE StopBgp \/ StopBgpEnd \/ Stop
    BY <1>6, <1>a, ZenonT(30) DEF StopBgp, StopBgpEnd, Stop, lockVars, ConfigInv
<1>7. CASE Send
    <2>1. /\ chan = <<>> /\ section # <<>> /\ chan' = <<section[1]>> /\ section' = Tail(section)
          /\ UNCHANGED <<nbr, leaving>>
        <3>1. chan = <<>>
            BY <1>7 DEF Send, ChanCap, TypeOK
        <3>2. chan' = <<Head(section)>> /\ Head(section) = section[1]
            BY <1>7, <3>1, FirstAndRest DEF Send, TypeOK
        <3> QED
            BY <1>7, <3>1, <3>2 DEF Send
    <2>2. /\ Len(chan') = 1 /\ chan' # <<>> /\ chan'[1] = section[1]
          /\ Len(section) \in 1..2 /\ Len(section') = Len(section) - 1
          /\ Len(section) = 2 => section'[1] = section[2]
          /\ section' = <<>> <=> Len(section) = 1
        <3>1. Len(chan') = 1 /\ chan' # <<>> /\ chan'[1] = section[1]
            BY <2>1
        <3>2. section \in Seq(Events) /\ Len(section) <= 2
            BY DEF TypeOK, ConfigInv
        <3>3. PICK r : /\ r = Tail(section) /\ Len(section) \in Nat /\ Len(section) >= 1
                       /\ Len(r) = Len(section) - 1 /\ (Len(section) = 1 <=> r = <<>>)
                       /\ Len(section) = 2 => r[1] = section[2]
            BY <2>1, <3>2, FirstAndRest, Zenon
        <3> QED
            BY <2>1, <3>1, <3>2, <3>3
    <2>3. ASSUME loop = "run", NEW b \in Addresses \ Dynamic
          PROVE  AfterSection(b, AfterChan(b, Has(b)))' = Wants(b)'
        <3>1. AfterChan(b, Has(b)) = Has(b) /\ Has(b)' = Has(b) /\ Wants(b)' = Wants(b)
            BY <1>u, <2>1 DEF AfterChan, Has, Wants
        <3>2. AfterChan(b, Has(b))' = After(b, Has(b), section[1])
            BY <2>2, <3>1 DEF AfterChan, After
        <3>3. AfterSection(b, Has(b)) = Wants(b)
            BY <2>3, <3>1 DEF ConfigInv
        <3> QED
            BY <2>1, <2>2, <3>1, <3>2, <3>3 DEF AfterSection, After
    <2> QED
        BY <1>u, <2>1, <2>2, <2>3 DEF ConfigInv
<1> QED
    BY <1>1, <1>2, <1>3, <1>4, <1>5, <1>6, <1>7 DEF LockNext

\* The loop of the BFD server handles the event in the channel.
LEMMA ConfigLoop == TypeOK /\ SessionInv /\ ConfigInv /\ LoopNext => ConfigInv'
<1> SUFFICES ASSUME TypeOK, SessionInv, ConfigInv, LoopNext PROVE ConfigInv'
    OBVIOUS
<1>u. UNCHANGED <<nbr, leaving, section>>
    BY DEF LoopNext, PeerUpdate, Joined, Config, StartStop, Shutdown, ShutdownNext, ShutdownEnd,
           lockVars
<1>a. ASSUME UNCHANGED <<chan, loop>>,
             loop = "run" => \A a \in Addresses \ Dynamic : Has(a)' = Has(a)
      PROVE  ConfigInv'
    BY <1>u, <1>a, ConfigFrame DEF ConfigInv
<1>1. CASE PeerUpdate
    <2> DEFINE e == Head(chan)
    <2>1. /\ chan # <<>> /\ chan' = Tail(chan) /\ UNCHANGED loop
          /\ \/ \E x \in {y \in Sessions : sess[y] = None} : addBfdPeer(e, x)
             \/ deleteBfdPeer(e)
        BY <1>1 DEF PeerUpdate
    <2>2. e \in Events /\ e = chan[1] /\ chan' = <<>> /\ Len(chan') = 0
        <3>1. Len(chan) = 1
            BY <2>1, FirstAndRest, SMTT(30) DEF ConfigInv, TypeOK
        <3> QED
            BY <2>1, <3>1, FirstAndRest DEF TypeOK
    <2> HIDE DEF e
    <2>3. ASSUME NEW b \in Addresses PROVE Has(b)' = After(b, Has(b), e)
        <3>1. CASE peers[e.addr] # None /\ ~e.add
            <4> DEFINE x == peers[e.addr]
            <4>1. x \in Sessions /\ sess[x] # None /\ e.addr \in Addresses /\ sess[x].addr = e.addr
                BY <2>2, <3>1, Zenon DEF SessionInv, TypeOK, Events
            <4>2. sess' = [sess EXCEPT ![x].closed = TRUE] /\ peers' = [peers EXCEPT ![e.addr] = None]
                BY <2>1, <3>1 DEF deleteBfdPeer, addBfdPeer
            <4>3. PICK s \in Session : sess' = [sess EXCEPT ![x] = s] /\ s.conf = sess[x].conf
                BY <4>1, <4>2, Closes, Zenon
            <4>4. peers[b] # None => sess'[peers[b]].conf = sess[peers[b]].conf
                BY <4>1, <4>3 DEF TypeOK
            <4> QED
                BY <2>2, <3>1, <4>1, <4>2, <4>4, SMTT(30) DEF Has, After, TypeOK
        <3>2. CASE peers[e.addr] = None /\ e.add
            <4>1. PICK x \in Sessions : sess[x] = None /\ addBfdPeer(e, x)
                BY <2>1, <3>2 DEF deleteBfdPeer
            <4>2. /\ peers' = [peers EXCEPT ![e.addr] = x] /\ e.addr \in Addresses
                  /\ sess' = [sess EXCEPT ![x] = NewSession(e.addr, e.conf)]
                BY <2>2, <3>2, <4>1, Zenon DEF addBfdPeer, Events
            <4>3. sess'[x].conf = e.conf
                BY <4>2 DEF NewSession, TypeOK
            <4>4. peers[b] # None => peers[b] # x
                BY <4>1 DEF SessionInv
            <4>5. x # None
                BY NoneAssumption
            <4> QED
                BY <2>2, <3>2, <4>2, <4>3, <4>4, <4>5 DEF Has, After, TypeOK
        <3>3. CASE peers[e.addr] = None /\ ~e.add
            <4>1. UNCHANGED <<peers, sess>>
                BY <2>1, <3>3 DEF deleteBfdPeer, addBfdPeer
            <4> QED
                BY <3>3, <4>1 DEF Has, After
        <3>4. CASE peers[e.addr] # None /\ e.add
            <4>1. UNCHANGED <<peers, sess>>
                BY <2>1, <3>4 DEF deleteBfdPeer, addBfdPeer
            <4>2. sess[peers[e.addr]] \in Session
                <5>1. e.addr \in Addresses
                    BY <2>2, Zenon DEF Events
                <5> QED
                    BY <5>1, <3>4 DEF SessionInv, TypeOK
            <4>3. Has(e.addr) # NoConf
                BY <3>4, <4>2, ConfAssumption DEF Has, Session
            <4> QED
                BY <3>4, <4>1, <4>3 DEF Has, After
        <3> QED
            BY <2>2, <3>1, <3>2, <3>3, <3>4 DEF Events
    <2>4. ASSUME NEW b \in Addresses PROVE AfterChan(b, Has(b))' = AfterChan(b, Has(b))
        BY <2>1, <2>2, <2>3 DEF AfterChan
    <2>5. ASSUME loop = "run", NEW b \in Addresses \ Dynamic
          PROVE  AfterSection(b, AfterChan(b, Has(b)))' = Wants(b)'
        BY <1>u, <2>4, <2>5, SMTT(90) DEF ConfigInv, AfterSection, After, Wants
    <2> QED
        BY <1>u, <2>1, <2>2, <2>5 DEF ConfigInv
<1>2. CASE Joined
    <2>1. /\ joining # None /\ sess' = [sess EXCEPT ![joining] = None] /\ UNCHANGED <<chan, peers, loop>>
        BY <1>2 DEF Joined
    <2>2. ASSUME NEW b \in Addresses PROVE Has(b)' = Has(b)
        <3>1. peers[b] # None => peers[b] # joining
            BY <2>1 DEF SessionInv
        <3> QED
            BY <2>1, <3>1 DEF Has, TypeOK
    <2> QED
        BY <1>a, <2>1, <2>2
<1>3. CASE Config \/ \E ok \in BOOLEAN : StartStop(ok)
    BY <1>3, <1>a DEF Config, StartStop, Has
<1>4. CASE Shutdown \/ ShutdownNext \/ ShutdownEnd
    BY <1>4, <1>u DEF Shutdown, ShutdownNext, ShutdownEnd, ConfigInv
<1> QED
    BY <1>1, <1>2, <1>3, <1>4 DEF LoopNext

\* Every step keeps ConfigInv.
LEMMA ConfigStep == TypeOK /\ SessionInv /\ ConfigInv /\ [Next]_vars => ConfigInv'
<1> SUFFICES ASSUME TypeOK, SessionInv, ConfigInv, [Next]_vars PROVE ConfigInv'
    OBVIOUS
<1>1. CASE UNCHANGED vars
    BY <1>1, ConfigFrame, ZenonT(30) DEF vars, lockVars, loopVars, ConfigInv, Has
<1>2. CASE SessionNext
    <2>1. PICK x \in Sessions, s \in Session :
              sess[x] # None /\ sess' = [sess EXCEPT ![x] = s] /\ s.conf = sess[x].conf
        BY <1>2, SessionSteps
    <2>2. UNCHANGED <<lockVars, chan, loopVars, stopped>>
        BY <1>2, SessionSteps
    <2>3. ASSUME NEW b \in Addresses PROVE Has(b)' = Has(b)
        BY <2>1, <2>2 DEF Has, TypeOK, loopVars
    <2> QED
        BY <2>2, <2>3, ConfigFrame DEF lockVars, loopVars, ConfigInv
<1> QED
    BY <1>1, <1>2, ConfigLock, ConfigLoop DEF Next

\* StaticFollowConfig: whatever neighbors, configurations and operations there
\* are, once all events are handled the session of a static neighbor is the one
\* it is configured with.
THEOREM StaticFollowConfigCorrect == Spec => []StaticFollowConfig
<1>1. Init => ConfigInv
    BY DEF Init, ConfigInv, AfterSection, AfterChan, Has, Wants
<1>2. TypeOK /\ SessionInv /\ ConfigInv => StaticFollowConfig
    <2> SUFFICES ASSUME TypeOK, SessionInv, ConfigInv, Settled, loop = "run",
                        NEW a \in Addresses \ Dynamic
                 PROVE  FollowsConfig(a)
        BY DEF StaticFollowConfig
    <2>1. Has(a) = Wants(a)
        BY DEF Settled, ConfigInv, AfterSection, AfterChan
    <2>2. peers[a] # None => Has(a) # NoConf
        BY ConfAssumption DEF Has, SessionInv, TypeOK, Session
    <2> QED
        BY <2>1, <2>2 DEF Has, Wants, FollowsConfig
<1> QED
    BY <1>1, <1>2, ConfigStep, SessionsCorrect, PTL DEF Spec

-----------------------------------------------------------------------------
(***************************************************************************)
(* The client of an RPKI cache, module Rpki.                               *)
(***************************************************************************)
CONSTANTS Roas, Routes, SerialMod, Forgetful, FirstSerial, MaxUpdates, MaxCloses, MaxApi

VARIABLES
    configured, conn, goroutine, inflight, wire, queries, eof,
    sessionID, oldSessionID, serialNumber, endOfData, pendingROAs,
    timer, orphans, fired, table, cache, budget, late, reused

Rpki == INSTANCE Rpki

\* The messages of the cache, and the client's.
PrefixMsgs == [type : {"prefix"}, announce : BOOLEAN, roa : Roas]
CacheMsgs ==
    [type : {"notify"}, serial : Nat] \cup [type : {"response"}] \cup PrefixMsgs
    \cup [type : {"eod"}, session : Nat, serial : Nat, full : BOOLEAN]
    \cup [type : {"reset", "error"}]
ClientMsgs == [type : {"reset"}] \cup [type : {"serial"}, session : Nat, serial : Nat]
Histories == UNION {[D -> SUBSET Roas] : D \in SUBSET Nat}

Caches == [session : Nat, serial : Nat, history : Histories, refused : BOOLEAN]

\* The message the client's goroutine read waits for the server's goroutine.
InHand == goroutine = "event"

RpkiTypes ==
    /\ configured \in BOOLEAN /\ eof \in BOOLEAN
    /\ conn \in {"none", "up", "closed"}
    /\ goroutine \in {"dial", "connected", "start", "read", "event", "ended", "gone"}
    /\ wire \in Seq(CacheMsgs)
    /\ queries \in Seq(ClientMsgs)
    /\ inflight \in Seq(CacheMsgs)
    /\ Len(inflight) = IF InHand THEN 1 ELSE 0
    /\ sessionID \in Nat /\ serialNumber \in Nat
    /\ cache \in Caches
    /\ cache.serial \in DOMAIN cache.history

\* Every answer of the cache that began in s ends there.
AnswersEnd(s) ==
    \A i \in 1 .. Len(s) : s[i].type \in {"response", "prefix"} =>
        \E j \in i + 1 .. Len(s) : s[j].type = "eod"

\* The end of an answer is of the session n.
OfSession(m, n) == m.type = "eod" => m.session = n

\* What a connection still carries: answers of the cache's session, whole but
\* for what the client read already.
StreamInv ==
    ~eof /\ goroutine \in {"connected", "start", "read", "event"} =>
        /\ AnswersEnd(wire)
        /\ \A i \in 1 .. Len(wire) : OfSession(wire[i], cache.session)
        /\ InHand => OfSession(inflight[1], cache.session)
        /\ InHand /\ inflight[1].type \in {"response", "prefix"} =>
               \E j \in 1 .. Len(wire) : wire[j].type = "eod"

\* The client has an answer of the cache's session and is not within another.
Answered == endOfData /\ pendingROAs = {} /\ sessionID = cache.session

\* After these messages the client is not within an answer, or asks again.
EndsAnswer(m) == m.type \in {"eod", "reset"}

\* After these it is at the serial number n, or asks again.
Brings(m, n) == m.type = "reset" \/ (m.type \in {"eod", "notify"} /\ m.serial = n)

\* With no query on its way and none refused, what is on its way to the client,
\* or nothing, leaves it up to date.
CatchInv ==
    /\ configured /\ conn = "up" /\ ~eof /\ goroutine \in {"read", "event"}
    /\ queries = <<>> /\ ~cache.refused
    => /\ \/ Answered
          \/ InHand /\ EndsAnswer(inflight[1])
          \/ \E i \in 1 .. Len(wire) : EndsAnswer(wire[i])
       /\ \/ wire # <<>> /\ Brings(wire[Len(wire)], cache.serial)
          \/ wire = <<>> /\ InHand /\ Brings(inflight[1], cache.serial)
          \/ wire = <<>> /\ ~InHand /\ serialNumber = cache.serial

\* Without a connection the lifetime that runs is of the session the ROAs are of.
AwayInv ==
    /\ orphans \in Nat /\ fired \in Nat
    /\ conn = "none" => goroutine \in {"dial", "connected", "gone"}
    /\ conn = "none" => oldSessionID = sessionID
    /\ Rpki!AwayOnTimer
    /\ Rpki!DeletedGone

\* A finite set in some order: a sequence of its elements.
LEMMA SetInOrder ==
    ASSUME NEW S, IsFiniteSet(S)
    PROVE  (CHOOSE s \in Rpki!Bijection(1 .. Rpki!Cardinality(S), S) : TRUE) \in Seq(S)
<1> DEFINE C == Cardinality(S)
<1>1. C \in Nat /\ Bijection(1 .. C, S) # {}
    BY FS_CardinalityType DEF ExistsBijection
<1>2. Rpki!Cardinality(S) = C
    BY DEF Rpki!Cardinality, Cardinality
<1>3. Rpki!Bijection(1 .. C, S) = Bijection(1 .. C, S)
    BY DEF Rpki!Bijection, Rpki!Injection, Rpki!Surjection, Rpki!IsInjective,
           Bijection, Injection, Surjection, IsInjective
<1>4. Bijection(1 .. C, S) \subseteq [1 .. C -> S]
    BY DEF Bijection, Injection
<1>5. (CHOOSE s \in Rpki!Bijection(1 .. Rpki!Cardinality(S), S) : TRUE) \in [1 .. C -> S]
    BY <1>1, <1>2, <1>3, <1>4
<1> QED
    BY <1>5, <1>1, SeqDef

\* The prefixes of an answer.
LEMMA AnnounceType ==
    ASSUME Rpki!Constants, NEW R \in SUBSET Roas, NEW yes \in BOOLEAN
    PROVE  Rpki!Announce(R, yes) \in Seq(PrefixMsgs)
<1> DEFINE S == {[type |-> "prefix", announce |-> yes, roa |-> r] : r \in R}
<1>1. IsFiniteSet(R)
    BY FS_Subset, Zenon DEF Rpki!Constants, Rpki!IsFiniteSet, IsFiniteSet
<1>2. [r \in R |-> [type |-> "prefix", announce |-> yes, roa |-> r]] \in Surjection(R, S)
    BY DEF Surjection
<1>3. IsFiniteSet(S)
    BY <1>1, <1>2, FS_Surjection DEF ExistsSurjection
<1>4. S \subseteq PrefixMsgs
    BY DEF PrefixMsgs
<1>5. Rpki!Announce(R, yes) \in Seq(S)
    BY <1>3, SetInOrder, Zenon DEF Rpki!Announce
<1> QED
    BY <1>4, <1>5, SeqMonotonic

\* An answer is a sequence of messages of which only the last ends an answer,
\* with the cache's session and serial number.
LEMMA AnswerIs ==
    ASSUME RpkiTypes, NEW p \in Seq(PrefixMsgs), NEW full \in BOOLEAN
    PROVE  LET a == Rpki!Answer(p, full)
           IN  /\ a \in Seq(CacheMsgs)
               /\ Len(a) > 0
               /\ a[Len(a)].type = "eod"
               /\ a[Len(a)].serial = cache.serial
               /\ \A i \in 1 .. Len(a) : OfSession(a[i], cache.session)
<1> DEFINE r == [type |-> "response"]
           e == [type |-> "eod", session |-> cache.session, serial |-> cache.serial, full |-> full]
           t == <<r>> \o p
           a == Rpki!Answer(p, full)
<1>1. r \in CacheMsgs /\ e \in CacheMsgs
    BY DEF CacheMsgs, RpkiTypes, Caches
<1>2. <<r>> \in Seq(CacheMsgs) /\ Len(<<r>>) = 1 /\ <<e>> \in Seq(CacheMsgs) /\ Len(<<e>>) = 1
    BY <1>1
<1>3. p \in Seq(CacheMsgs)
    BY SeqMonotonic DEF CacheMsgs
<1>4. /\ t \in Seq(CacheMsgs)
      /\ Len(t) = 1 + Len(p)
      /\ \A i \in 1 .. 1 + Len(p) : t[i] = IF i <= 1 THEN <<r>>[i] ELSE p[i - 1]
    BY <1>2, <1>3, ConcatProperties, SMT
<1>5. a = t \o <<e>>
    BY DEF Rpki!Answer
<1>6. /\ a \in Seq(CacheMsgs)
      /\ Len(a) = Len(t) + 1
      /\ \A i \in 1 .. Len(t) + 1 : a[i] = IF i <= Len(t) THEN t[i] ELSE <<e>>[i - Len(t)]
    BY <1>2, <1>4, <1>5, ConcatProperties, SMT
<1>7. Len(p) \in Nat /\ \A i \in 1 .. Len(p) : p[i].type = "prefix"
    <2>1. Len(p) \in Nat /\ \A i \in 1 .. Len(p) : p[i] \in PrefixMsgs
        BY LenProperties, ElementOfSeq
    <2>2. \A m \in PrefixMsgs : m.type = "prefix"
        BY DEF PrefixMsgs
    <2> QED
        BY <2>1, <2>2, Zenon
<1>8. \A i \in 1 .. Len(t) : t[i].type # "eod"
    BY <1>4, <1>7, SMT
<1>9. a[Len(a)] = e
    BY <1>4, <1>6, <1>7, SMT
<1>10. ASSUME NEW i \in 1 .. Len(a)
       PROVE  OfSession(a[i], cache.session)
    <2>1. CASE i <= Len(t)
        <3>1. a[i] = t[i] /\ i \in 1 .. Len(t)
            BY <2>1, <1>4, <1>6, <1>7, SMT
        <3> QED
            BY <1>8, <3>1, Zenon DEF OfSession
    <2>2. CASE ~(i <= Len(t))
        <3>1. a[i] = e
            BY <2>2, <1>4, <1>6, <1>7, SMT
        <3> QED
            BY <3>1 DEF OfSession
    <2> QED
        BY <2>1, <2>2
<1>11. Len(a) > 0
    BY <1>4, <1>6, <1>7, SMT
<1> QED
    BY <1>6, <1>9, <1>10, <1>11

\* What the cache appends to the wire.
LEMMA WireGrows ==
    ASSUME NEW s \in Seq(CacheMsgs), NEW a \in Seq(CacheMsgs), Len(a) > 0
    PROVE  /\ s \o a \in Seq(CacheMsgs)
           /\ s \o a # <<>>
           /\ Len(s \o a) = Len(s) + Len(a)
           /\ (s \o a)[Len(s \o a)] = a[Len(a)]
           /\ \A i \in 1 .. Len(s) : (s \o a)[i] = s[i]
           /\ \A i \in 1 .. Len(s \o a) : i \notin 1 .. Len(s) =>
                  i - Len(s) \in 1 .. Len(a) /\ (s \o a)[i] = a[i - Len(s)]
<1>1. /\ s \o a \in Seq(CacheMsgs)
      /\ Len(s \o a) = Len(s) + Len(a)
      /\ \A i \in 1 .. Len(s) + Len(a) : (s \o a)[i] = IF i <= Len(s) THEN s[i] ELSE a[i - Len(s)]
    BY ConcatProperties
<1>2. Len(s) \in Nat /\ Len(a) \in Nat
    BY LenProperties
<1>3. s \o a # <<>>
    BY <1>1, <1>2, EmptySeq, SMT
<1> QED
    BY <1>1, <1>2, <1>3, SMT

\* Messages appended to the wire, the last of which is not within an answer.
LEMMA StreamGrows ==
    ASSUME RpkiTypes, StreamInv, Rpki!Open,
           NEW a \in Seq(CacheMsgs), Len(a) > 0,
           wire' = wire \o a,
           \/ a[Len(a)].type = "eod"
           \/ Len(a) = 1 /\ a[Len(a)].type \in {"reset", "notify", "error"},
           \A i \in 1 .. Len(a) : OfSession(a[i], cache.session),
           UNCHANGED <<goroutine, inflight, eof>>, cache'.session = cache.session
    PROVE  StreamInv'
<1>1. /\ wire \in Seq(CacheMsgs)
      /\ AnswersEnd(wire)
      /\ \A i \in 1 .. Len(wire) : OfSession(wire[i], cache.session)
      /\ InHand => OfSession(inflight[1], cache.session)
      /\ InHand /\ inflight[1].type \in {"response", "prefix"} =>
             \E j \in 1 .. Len(wire) : wire[j].type = "eod"
    BY DEF RpkiTypes, StreamInv, Rpki!Open
<1>2. Len(wire) \in Nat /\ Len(a) \in Nat
    BY <1>1, LenProperties
<1> DEFINE w == wire \o a
<1>3. /\ w \in Seq(CacheMsgs)
      /\ w # <<>>
      /\ Len(w) = Len(wire) + Len(a)
      /\ w[Len(w)] = a[Len(a)]
      /\ \A i \in 1 .. Len(wire) : w[i] = wire[i]
      /\ \A i \in 1 .. Len(w) : i \notin 1 .. Len(wire) =>
             i - Len(wire) \in 1 .. Len(a) /\ w[i] = a[i - Len(wire)]
    BY <1>1, WireGrows
<1>12. Len(w) \in Nat
    BY <1>3, LenProperties
<1> HIDE DEF w
<1>4. \A i \in 1 .. Len(w) : OfSession(w[i], cache.session)
    BY <1>1, <1>3, Zenon
<1>5. ASSUME NEW i \in 1 .. Len(w), w[i].type \in {"response", "prefix"}
      PROVE  \E j \in i + 1 .. Len(w) : w[j].type = "eod"
    <2>1. CASE w[Len(w)].type = "eod"
        <3>1. i # Len(w)
            BY <2>1, <1>5, Zenon
        <3>2. Len(w) \in i + 1 .. Len(w)
            BY <3>1, <1>12, SMT
        <3> QED
            BY <2>1, <3>2, Zenon
    <2>2. CASE Len(a) = 1 /\ w[Len(w)].type \in {"reset", "notify", "error"}
        <3>1. i # Len(w)
            BY <2>2, <1>5, Zenon
        <3>2. i \in 1 .. Len(wire) /\ 1 .. Len(wire) \subseteq 1 .. Len(w)
            BY <3>1, <2>2, <1>2, <1>3, SMT
        <3>3. wire[i].type \in {"response", "prefix"}
            BY <3>2, <1>3, <1>5, Zenon
        <3>4. PICK j \in i + 1 .. Len(wire) : wire[j].type = "eod"
            BY <3>2, <3>3, <1>1, Zenon DEF AnswersEnd
        <3>5. j \in 1 .. Len(wire) /\ j \in i + 1 .. Len(w)
            BY <3>2, <1>2, <1>3, SMT
        <3> QED
            BY <3>4, <3>5, <1>3, Zenon
    <2> QED
        BY <2>1, <2>2, <1>3, Zenon
<1>6. AnswersEnd(w)
    BY <1>5, Zenon DEF AnswersEnd
<1>7. ASSUME InHand, inflight[1].type \in {"response", "prefix"}
      PROVE  \E j \in 1 .. Len(w) : w[j].type = "eod"
    <2>1. PICK j \in 1 .. Len(wire) : wire[j].type = "eod"
        BY <1>1, <1>7
    <2>2. j \in 1 .. Len(w)
        BY <1>2, <1>3, SMT
    <2> QED
        BY <2>1, <2>2, <1>3, Zenon
<1> QED
    BY <1>1, <1>4, <1>6, <1>7, Zenon DEF StreamInv, InHand, OfSession, AnswersEnd, w

\* What the invariant of a connection depends on.
LEMMA StreamSame ==
    ASSUME StreamInv, UNCHANGED <<wire, eof>>, cache'.session = cache.session,
           \/ UNCHANGED <<goroutine, inflight>>
           \/ goroutine' \in {"start", "read"} /\ goroutine \in {"connected", "start", "event"}
           \/ goroutine' \in {"dial", "ended", "gone"}
    PROVE  StreamInv'
<1>1. CASE UNCHANGED <<goroutine, inflight>>
    BY <1>1 DEF StreamInv, InHand, OfSession, AnswersEnd
<1>2. CASE goroutine' \in {"start", "read"} /\ goroutine \in {"connected", "start", "event"}
    BY <1>2 DEF StreamInv, InHand, OfSession, AnswersEnd
<1>3. CASE goroutine' \in {"dial", "ended", "gone"}
    BY <1>3 DEF StreamInv
<1> QED
    BY <1>1, <1>2, <1>3

\* What the invariant of its settling depends on.
LEMMA CatchSame ==
    ASSUME CatchInv,
           UNCHANGED <<configured, conn, eof, goroutine, queries, wire, inflight,
                       endOfData, pendingROAs, sessionID, serialNumber, cache>>
    PROVE  CatchInv'
BY DEF CatchInv, InHand, Answered, EndsAnswer, Brings

\* A query on its way, or no connection, asks for nothing.
LEMMA CatchVacuous ==
    ASSUME \/ configured' # TRUE \/ conn' # "up" \/ eof' = TRUE \/ goroutine' \notin {"read", "event"}
           \/ queries' # <<>> \/ cache'.refused = TRUE
    PROVE  CatchInv'
BY DEF CatchInv

LEMMA RefusedType ==
    ASSUME RpkiTypes
    PROVE  cache.refused \in BOOLEAN
BY DEF RpkiTypes, Caches

\* The queries the client writes.
LEMMA ResetQuery ==
    ASSUME RpkiTypes
    PROVE  LET q == Append(queries, [type |-> "reset"])
           IN  q \in Seq(ClientMsgs) /\ q # <<>>
<1>1. [type |-> "reset"] \in ClientMsgs
    BY DEF ClientMsgs
<1>2. queries \in Seq(ClientMsgs)
    BY DEF RpkiTypes
<1> QED
    BY <1>1, <1>2, AppendProperties

LEMMA SerialQuery ==
    ASSUME RpkiTypes
    PROVE  /\ Rpki!enable \in Seq(ClientMsgs)
           /\ conn = "up" => Rpki!enable # <<>>
<1> DEFINE m == [type |-> "serial", session |-> sessionID, serial |-> serialNumber]
<1>1. m \in ClientMsgs
    BY DEF ClientMsgs, RpkiTypes
<1>2. queries \in Seq(ClientMsgs)
    BY DEF RpkiTypes
<1>3. Append(queries, m) \in Seq(ClientMsgs) /\ Append(queries, m) # <<>>
    <2> HIDE DEF m
    <2> QED
        BY <1>1, <1>2, AppendProperties
<1> QED
    BY <1>2, <1>3, Zenon DEF Rpki!enable

\* The goroutine of the client and the server's handlers of its events.
LEMMA DialKeeps ==
    ASSUME RpkiTypes, StreamInv, CatchInv, AwayInv, Rpki!Dial
    PROVE  RpkiTypes' /\ StreamInv' /\ CatchInv' /\ AwayInv'
<1> USE DEF Rpki!Dial, Rpki!client, Rpki!timers, Rpki!ghosts
<1>1. RpkiTypes'
    <2>1. <<>> \in Seq(CacheMsgs) /\ <<>> \in Seq(ClientMsgs)
        BY EmptySeq
    <2> QED
        BY <2>1, Zenon DEF RpkiTypes, InHand
<1>2. StreamInv'
    <2>1. wire' = <<>> /\ Len(wire') = 0 /\ ~InHand'
        BY DEF InHand
    <2> QED
        BY <2>1 DEF StreamInv, AnswersEnd
<1>3. CatchInv'
    BY CatchVacuous
<1>4. AwayInv'
    BY DEF AwayInv, Rpki!AwayOnTimer, Rpki!DeletedGone
<1> QED
    BY <1>1, <1>2, <1>3, <1>4

\* The client's goroutine ends, or sends the Reset Query.
LEMMA GoroutineKeeps ==
    ASSUME RpkiTypes, StreamInv, CatchInv, AwayInv,
           Rpki!GiveUp \/ Rpki!Established \/ Rpki!ReadFails
    PROVE  RpkiTypes' /\ StreamInv' /\ CatchInv' /\ AwayInv'
<1> USE DEF Rpki!client, Rpki!timers, Rpki!ghosts
<1>1. CASE Rpki!GiveUp
    <2>1. RpkiTypes'
        BY <1>1 DEF Rpki!GiveUp, RpkiTypes, InHand
    <2>2. StreamInv' /\ CatchInv'
        BY <1>1, StreamSame, CatchVacuous DEF Rpki!GiveUp
    <2>3. AwayInv'
        BY <1>1 DEF Rpki!GiveUp, AwayInv, Rpki!AwayOnTimer, Rpki!DeletedGone
    <2> QED
        BY <2>1, <2>2, <2>3
<1>2. CASE Rpki!Established
    <2>1. RpkiTypes'
        <3>1. queries' \in Seq(ClientMsgs)
            BY <1>2, ResetQuery, Zenon DEF Rpki!Established, RpkiTypes
        <3> QED
            BY <1>2, <3>1 DEF Rpki!Established, RpkiTypes, InHand
    <2>2. StreamInv'
        BY <1>2, StreamSame DEF Rpki!Established
    <2>3. goroutine' = "read" => queries' # <<>>
        BY <1>2 DEF Rpki!Established, RpkiTypes
    <2>4. CatchInv'
        BY <1>2, <2>3, CatchVacuous, Zenon DEF Rpki!Established
    <2>5. AwayInv'
        BY <1>2 DEF Rpki!Established, AwayInv, Rpki!AwayOnTimer, Rpki!DeletedGone
    <2> QED
        BY <2>1, <2>2, <2>4, <2>5
<1>3. CASE Rpki!ReadFails
    <2>1. RpkiTypes'
        BY <1>3 DEF Rpki!ReadFails, RpkiTypes, InHand
    <2>2. StreamInv' /\ CatchInv'
        BY <1>3, StreamSame, CatchVacuous DEF Rpki!ReadFails
    <2>3. AwayInv'
        BY <1>3 DEF Rpki!ReadFails, AwayInv, Rpki!AwayOnTimer, Rpki!DeletedGone
    <2> QED
        BY <2>1, <2>2, <2>3
<1> QED
    BY <1>1, <1>2, <1>3

\* Reading moves the first message of the wire into the client's hand.
LEMMA ReadKeeps ==
    ASSUME RpkiTypes, StreamInv, CatchInv, AwayInv, Rpki!Read
    PROVE  RpkiTypes' /\ StreamInv' /\ CatchInv' /\ AwayInv'
<1> USE DEF Rpki!Read, Rpki!client, Rpki!timers, Rpki!ghosts
<1> DEFINE t == Tail(wire)
<1>1. /\ wire \in Seq(CacheMsgs) /\ Len(wire) \in Nat /\ wire # <<>> /\ Len(wire) > 0
      /\ wire[1] \in CacheMsgs
      /\ t \in Seq(CacheMsgs)
      /\ Len(t) = Len(wire) - 1
      /\ \A i \in 1 .. Len(t) : t[i] = wire[i + 1]
    BY HeadTailProperties, LenProperties, EmptySeq DEF RpkiTypes
<1>2. /\ wire' = t /\ inflight' = <<wire[1]>> /\ inflight'[1] = wire[1]
      /\ goroutine' = "event" /\ InHand' /\ ~InHand
      /\ UNCHANGED <<eof, cache>>
    BY <1>1 DEF InHand
<1>3. RpkiTypes'
    BY <1>1, <1>2 DEF RpkiTypes, InHand
<1> HIDE DEF t
<1>4. ASSUME ~eof
      PROVE  StreamInv'
    <2>1. AnswersEnd(wire) /\ \A i \in 1 .. Len(wire) : OfSession(wire[i], cache.session)
        BY <1>4 DEF StreamInv
    <2>2. ASSUME NEW i \in 1 .. Len(wire), wire[i].type \in {"response", "prefix"}
          PROVE  \E j \in 1 .. Len(t) : j > i - 1 /\ t[j].type = "eod"
        <3>1. PICK j \in i + 1 .. Len(wire) : wire[j].type = "eod"
            BY <2>1, <2>2 DEF AnswersEnd
        <3>2. j - 1 \in 1 .. Len(t) /\ j - 1 > i - 1 /\ t[j - 1] = wire[j]
            BY <1>1, SMT
        <3> QED
            BY <3>1, <3>2, Zenon
    <2>3. AnswersEnd(t)
        <3> SUFFICES ASSUME NEW i \in 1 .. Len(t), t[i].type \in {"response", "prefix"}
                     PROVE  \E j \in i + 1 .. Len(t) : t[j].type = "eod"
            BY Zenon DEF AnswersEnd
        <3>1. i + 1 \in 1 .. Len(wire) /\ wire[i + 1].type \in {"response", "prefix"}
            BY <1>1, SMT
        <3>2. PICK j \in 1 .. Len(t) : j > (i + 1) - 1 /\ t[j].type = "eod"
            BY <3>1, <2>2, SMT
        <3>3. j \in i + 1 .. Len(t)
            BY <3>2, <1>1, SMT
        <3> QED
            BY <3>2, <3>3
    <2>4. \A i \in 1 .. Len(t) : OfSession(t[i], cache.session)
        <3> SUFFICES ASSUME NEW i \in 1 .. Len(t)
                     PROVE  OfSession(t[i], cache.session)
            OBVIOUS
        <3>1. i + 1 \in 1 .. Len(wire) /\ t[i] = wire[i + 1]
            BY <1>1, SMT
        <3> QED
            BY <3>1, <2>1, Zenon
    <2>5. OfSession(wire[1], cache.session)
        BY <2>1, <1>1, SMT DEF OfSession
    <2>6. wire[1].type \in {"response", "prefix"} => \E j \in 1 .. Len(t) : t[j].type = "eod"
        BY <2>2, <1>1, SMT
    <2>7. AnswersEnd(wire)' /\ (\A i \in 1 .. Len(wire) : OfSession(wire[i], cache.session))'
        BY <2>3, <2>4, <1>2, Zenon DEF AnswersEnd, OfSession
    <2>8. OfSession(inflight[1], cache.session)'
        BY <2>5, <1>2 DEF OfSession
    <2>9. (inflight[1].type \in {"response", "prefix"} => \E j \in 1 .. Len(wire) : wire[j].type = "eod")'
        BY <2>6, <1>2
    <2> QED
        BY <2>7, <2>8, <2>9 DEF StreamInv
<1>5. StreamInv'
    BY <1>2, <1>4 DEF StreamInv
<1>6. ASSUME configured, ~eof, queries = <<>>, ~cache.refused
      PROVE  CatchInv'
    <2>1. /\ Answered \/ \E i \in 1 .. Len(wire) : EndsAnswer(wire[i])
          /\ Brings(wire[Len(wire)], cache.serial)
        BY <1>1, <1>2, <1>6 DEF CatchInv
    <2>2. Answered \/ EndsAnswer(wire[1]) \/ \E i \in 1 .. Len(t) : EndsAnswer(t[i])
        <3>1. ASSUME NEW i \in 1 .. Len(wire), EndsAnswer(wire[i]), i # 1
              PROVE  \E k \in 1 .. Len(t) : EndsAnswer(t[k])
            <4>1. i - 1 \in 1 .. Len(t) /\ t[i - 1] = wire[i]
                BY <3>1, <1>1, SMT
            <4> QED
                BY <4>1, <3>1, Zenon
        <3> QED
            BY <2>1, <3>1, Zenon
    <2>3. IF t = <<>> THEN Brings(wire[1], cache.serial) ELSE Brings(t[Len(t)], cache.serial)
        <3>1. t = <<>> => Len(wire) = 1
            BY <1>1, SMT
        <3>2. t # <<>> => Len(t) \in 1 .. Len(t) /\ t[Len(t)] = wire[Len(wire)]
            BY <1>1, SMT
        <3> QED
            BY <2>1, <3>1, <3>2, Zenon
    <2>4. Answered => Answered'
        BY DEF Answered
    <2> QED
        BY <2>2, <2>3, <2>4, <1>2, Zenon DEF CatchInv, EndsAnswer, Brings
<1>7. CatchInv'
    BY <1>2, <1>6, RefusedType, CatchVacuous, Zenon DEF RpkiTypes
<1>8. AwayInv'
    BY DEF AwayInv, Rpki!AwayOnTimer, Rpki!DeletedGone
<1> QED
    BY <1>3, <1>5, <1>7, <1>8

\* Timers, and the connection's begin and end.
LEMMA ConnectionKeeps ==
    ASSUME RpkiTypes, StreamInv, CatchInv, AwayInv,
           \/ Rpki!TimerFires \/ Rpki!HandleLifetimeout
           \/ Rpki!HandleConnected \/ Rpki!HandleDisconnected
    PROVE  RpkiTypes' /\ StreamInv' /\ CatchInv' /\ AwayInv'
<1> USE DEF Rpki!client, Rpki!net, Rpki!timers, Rpki!ghosts
<1>1. CASE Rpki!TimerFires
    <2>1. RpkiTypes'
        BY <1>1 DEF Rpki!TimerFires, RpkiTypes, InHand
    <2>2. StreamInv' /\ CatchInv'
        BY <1>1, StreamSame, CatchSame DEF Rpki!TimerFires
    <2>3. AwayInv'
        BY <1>1 DEF Rpki!TimerFires, AwayInv, Rpki!AwayOnTimer, Rpki!DeletedGone
    <2> QED
        BY <2>1, <2>2, <2>3
<1>2. CASE Rpki!HandleLifetimeout
    <2>1. RpkiTypes'
        BY <1>2 DEF Rpki!HandleLifetimeout, RpkiTypes, InHand
    <2>2. StreamInv' /\ CatchInv'
        BY <1>2, StreamSame, CatchSame DEF Rpki!HandleLifetimeout
    <2>3. AwayInv'
        BY <1>2 DEF Rpki!HandleLifetimeout, AwayInv, Rpki!AwayOnTimer, Rpki!DeletedGone
    <2> QED
        BY <2>1, <2>2, <2>3
<1>3. CASE Rpki!HandleConnected
    <2>1. RpkiTypes'
        BY <1>3 DEF Rpki!HandleConnected, RpkiTypes, InHand
    <2>2. StreamInv' /\ CatchInv'
        BY <1>3, StreamSame, CatchVacuous, Zenon DEF Rpki!HandleConnected
    <2>3. AwayInv'
        BY <1>3 DEF Rpki!HandleConnected, AwayInv, Rpki!AwayOnTimer, Rpki!DeletedGone
    <2> QED
        BY <2>1, <2>2, <2>3
<1>4. CASE Rpki!HandleDisconnected
    <2>1. RpkiTypes'
        BY <1>4 DEF Rpki!HandleDisconnected, RpkiTypes, InHand
    <2>2. StreamInv' /\ CatchInv'
        BY <1>4, StreamSame, CatchVacuous, Zenon DEF Rpki!HandleDisconnected
    <2>3. AwayInv'
        BY <1>4 DEF Rpki!HandleDisconnected, AwayInv, Rpki!AwayOnTimer, Rpki!DeletedGone
    <2> QED
        BY <2>1, <2>2, <2>3
<1> QED
    BY <1>1, <1>2, <1>3, <1>4

\* The operations of the API.
LEMMA ApiKeeps ==
    ASSUME RpkiTypes, StreamInv, CatchInv, AwayInv,
           Rpki!Enable \/ Rpki!Disable \/ Rpki!SoftReset \/ Rpki!DeleteServer
    PROVE  RpkiTypes' /\ StreamInv' /\ CatchInv' /\ AwayInv'
<1> USE DEF Rpki!client, Rpki!net, Rpki!timers, Rpki!ghosts
<1>1. CASE Rpki!Enable
    <2>1. queries' \in Seq(ClientMsgs) /\ (conn' = "up" => queries' # <<>>)
        BY <1>1, SerialQuery DEF Rpki!Enable
    <2>2. RpkiTypes'
        BY <1>1, <2>1 DEF Rpki!Enable, RpkiTypes, InHand
    <2>3. StreamInv' /\ CatchInv'
        BY <1>1, <2>1, StreamSame, CatchVacuous, Zenon DEF Rpki!Enable
    <2>4. AwayInv'
        BY <1>1 DEF Rpki!Enable, AwayInv, Rpki!AwayOnTimer, Rpki!DeletedGone
    <2> QED
        BY <2>2, <2>3, <2>4
<1>2. CASE Rpki!Disable
    <2>1. RpkiTypes'
        BY <1>2 DEF Rpki!Disable, Rpki!Close, RpkiTypes, InHand
    <2>2. StreamInv' /\ CatchInv'
        BY <1>2, StreamSame, CatchVacuous, Zenon DEF Rpki!Disable, Rpki!Close
    <2>3. AwayInv'
        BY <1>2 DEF Rpki!Disable, Rpki!Close, AwayInv, Rpki!AwayOnTimer, Rpki!DeletedGone
    <2> QED
        BY <2>1, <2>2, <2>3
<1>3. CASE Rpki!SoftReset
    <2>1. queries' \in Seq(ClientMsgs) /\ (conn' = "up" => queries' # <<>>)
        BY <1>3, ResetQuery, Zenon DEF Rpki!SoftReset, Rpki!softReset, RpkiTypes
    <2>2. RpkiTypes'
        BY <1>3, <2>1 DEF Rpki!SoftReset, RpkiTypes, InHand
    <2>3. StreamInv' /\ CatchInv'
        BY <1>3, <2>1, StreamSame, CatchVacuous, Zenon DEF Rpki!SoftReset
    <2>4. AwayInv'
        BY <1>3 DEF Rpki!SoftReset, AwayInv, Rpki!AwayOnTimer, Rpki!DeletedGone
    <2> QED
        BY <2>2, <2>3, <2>4
<1>4. CASE Rpki!DeleteServer
    <2>1. RpkiTypes'
        BY <1>4, Zenon DEF Rpki!DeleteServer, Rpki!Close, RpkiTypes, InHand
    <2>2. StreamInv' /\ CatchInv'
        BY <1>4, StreamSame, CatchVacuous, Zenon DEF Rpki!DeleteServer
    <2>3. AwayInv'
        BY <1>4 DEF Rpki!DeleteServer, Rpki!Close, AwayInv, Rpki!AwayOnTimer, Rpki!DeletedGone
    <2> QED
        BY <2>1, <2>2, <2>3
<1> QED
    BY <1>1, <1>2, <1>3, <1>4

\* The handler of a message: the one in hand takes its effect.
LEMMA HandleRTRKeeps ==
    ASSUME RpkiTypes, StreamInv, CatchInv, AwayInv, Rpki!HandleRTR
    PROVE  RpkiTypes' /\ StreamInv' /\ CatchInv' /\ AwayInv'
<1> USE DEF Rpki!client, Rpki!net, Rpki!timers, Rpki!ghosts
<1> DEFINE msg == inflight[1]
<1>1. /\ goroutine = "event" /\ goroutine' = "read" /\ inflight' = <<>>
      /\ UNCHANGED <<configured, conn, oldSessionID, wire, eof, orphans, fired, cache, budget>>
    BY DEF Rpki!HandleRTR
<1>2. msg \in CacheMsgs
    <2>1. inflight \in Seq(CacheMsgs) /\ 1 \in 1 .. Len(inflight)
        BY <1>1 DEF RpkiTypes, InHand
    <2> QED
        BY <2>1, ElementOfSeq
<1>3. StreamInv'
    BY <1>1, StreamSame
<1>4. ~configured => UNCHANGED <<queries, endOfData, pendingROAs, sessionID, serialNumber, table>>
    BY DEF Rpki!HandleRTR
<1>5. \/ ~configured
      \/ configured /\ msg.type = "notify" /\ Rpki!SerialNotify(msg)
      \/ configured /\ msg.type = "response" /\ Rpki!CacheResponse
      \/ configured /\ msg.type = "prefix" /\ Rpki!IPPrefix(msg)
      \/ configured /\ msg.type = "eod" /\ Rpki!EndOfData(msg)
      \/ configured /\ msg.type = "reset" /\ Rpki!CacheReset
      \/ configured /\ msg.type = "error" /\ Rpki!ErrorReport
    <2>1. msg.type \in {"notify", "response", "prefix", "eod", "reset", "error"}
        BY <1>2 DEF CacheMsgs, PrefixMsgs
    <2> QED
        BY <2>1, Zenon DEF Rpki!HandleRTR
<1> HIDE DEF msg
<1>6. ASSUME queries' \in Seq(ClientMsgs), sessionID' \in Nat, serialNumber' \in Nat
      PROVE  RpkiTypes'
    <2>1. <<>> \in Seq(CacheMsgs) /\ Len(<<>>) = 0
        BY EmptySeq
    <2> QED
        BY <1>1, <1>6, <2>1 DEF RpkiTypes, InHand
<1>8. AwayInv'
    <2>1. conn # "none"
        BY <1>1 DEF AwayInv
    <2> QED
        BY <1>1, <1>4, <2>1 DEF AwayInv, Rpki!AwayOnTimer, Rpki!DeletedGone
<1>9. RpkiTypes'
    <2>1. CASE ~configured
        BY <2>1, <1>4, <1>6 DEF RpkiTypes
    <2>2. CASE msg.type = "notify" /\ Rpki!SerialNotify(msg)
        BY <2>2, <1>6, SerialQuery, ResetQuery, Zenon DEF RpkiTypes, Rpki!SerialNotify, Rpki!softReset
    <2>3. CASE Rpki!CacheResponse
        BY <2>3, <1>6 DEF RpkiTypes, Rpki!CacheResponse
    <2>4. CASE Rpki!IPPrefix(msg)
        BY <2>4, <1>6 DEF RpkiTypes, Rpki!IPPrefix
    <2>5. CASE msg.type = "eod" /\ Rpki!EndOfData(msg)
        <3>1. msg.session \in Nat /\ msg.serial \in Nat
            BY <2>5, <1>2 DEF CacheMsgs, PrefixMsgs
        <3> QED
            BY <2>5, <3>1, <1>6 DEF RpkiTypes, Rpki!EndOfData
    <2>6. CASE Rpki!CacheReset
        BY <2>6, <1>6, ResetQuery, Zenon DEF RpkiTypes, Rpki!CacheReset, Rpki!softReset
    <2>7. CASE Rpki!ErrorReport
        BY <2>7, <1>6 DEF RpkiTypes, Rpki!ErrorReport
    <2> QED
        BY <1>5, <2>1, <2>2, <2>3, <2>4, <2>5, <2>6, <2>7
<1>10. ASSUME configured, conn = "up", ~eof, queries' = <<>>, ~cache.refused
       PROVE  CatchInv'
    <2>1. ~(\E q : queries' = Append(queries, q))
        BY <1>10 DEF RpkiTypes
    <2>2. queries = <<>> /\ UNCHANGED queries
        <3>1. CASE Rpki!SerialNotify(msg)
            BY <3>1, <2>1, <1>10 DEF Rpki!SerialNotify, Rpki!softReset, Rpki!enable
        <3>2. CASE Rpki!CacheReset
            BY <3>2, <2>1, <1>10 DEF Rpki!CacheReset, Rpki!softReset
        <3>3. CASE Rpki!CacheResponse \/ Rpki!IPPrefix(msg) \/ Rpki!EndOfData(msg)
            BY <3>3, <1>10, Zenon DEF Rpki!CacheResponse, Rpki!IPPrefix, Rpki!EndOfData
        <3>4. CASE Rpki!ErrorReport
            BY <3>4, <1>10, Zenon DEF Rpki!ErrorReport
        <3> QED
            BY <1>5, <1>10, <3>1, <3>2, <3>3, <3>4
    <2>3. /\ \/ Answered
             \/ EndsAnswer(msg)
             \/ \E i \in 1 .. Len(wire) : EndsAnswer(wire[i])
          /\ \/ wire # <<>> /\ Brings(wire[Len(wire)], cache.serial)
             \/ wire = <<>> /\ Brings(msg, cache.serial)
        BY <1>1, <1>10, <2>2 DEF CatchInv, InHand, msg
    <2>4. /\ OfSession(msg, cache.session)
          /\ msg.type \in {"response", "prefix"} => \E j \in 1 .. Len(wire) : wire[j].type = "eod"
        BY <1>1, <1>10 DEF StreamInv, InHand, msg
    <2>5. ~Rpki!CacheReset
        BY <2>1, <1>10 DEF Rpki!CacheReset, Rpki!softReset
    <2>6. Answered' \/ \E i \in 1 .. Len(wire) : EndsAnswer(wire[i])
        <3>1. CASE msg.type = "notify" /\ Rpki!SerialNotify(msg)
            <4>1. UNCHANGED <<endOfData, pendingROAs, sessionID>>
                BY <3>1, <2>1, <1>10 DEF Rpki!SerialNotify, Rpki!softReset
            <4>2. Answered => Answered'
                BY <4>1, <1>1 DEF Answered
            <4> QED
                BY <3>1, <4>2, <2>3 DEF EndsAnswer
        <3>2. CASE msg.type \in {"response", "prefix"}
            BY <3>2, <2>4 DEF EndsAnswer
        <3>3. CASE msg.type = "eod" /\ Rpki!EndOfData(msg)
            BY <3>3, <2>4, <1>1 DEF Rpki!EndOfData, Answered, OfSession
        <3>4. CASE msg.type = "error" /\ Rpki!ErrorReport
            BY <3>4, <2>3, <1>1 DEF Rpki!ErrorReport, Answered, EndsAnswer
        <3> QED
            BY <1>5, <1>10, <2>5, <3>1, <3>2, <3>3, <3>4
    <2>7. wire = <<>> => serialNumber' = cache.serial
        <3> SUFFICES ASSUME wire = <<>>
                     PROVE  serialNumber' = cache.serial
            OBVIOUS
        <3>1. Brings(msg, cache.serial)
            BY <2>3
        <3>2. CASE msg.type = "notify" /\ Rpki!SerialNotify(msg)
            <4>1. serialNumber = msg.serial /\ UNCHANGED serialNumber
                BY <3>2, <2>1, <1>10 DEF Rpki!SerialNotify, Rpki!softReset, Rpki!enable
            <4> QED
                BY <3>1, <3>2, <4>1 DEF Brings
        <3>3. CASE msg.type = "eod" /\ Rpki!EndOfData(msg)
            BY <3>1, <3>3 DEF Rpki!EndOfData, Brings
        <3> QED
            BY <1>5, <1>10, <2>5, <3>1, <3>2, <3>3 DEF Brings
    <2> QED
        BY <1>1, <2>3, <2>6, <2>7 DEF CatchInv, InHand, EndsAnswer, Brings
<1>11. CatchInv'
    BY <1>1, <1>10, RefusedType, CatchVacuous, Zenon DEF RpkiTypes
<1> QED
    BY <1>3, <1>8, <1>9, <1>11

\* What the cache has, or had.
LEMMA ContentType ==
    ASSUME RpkiTypes
    PROVE  /\ Rpki!content \in SUBSET Roas
           /\ \A n \in DOMAIN cache.history : cache.history[n] \in SUBSET Roas
<1>1. cache.history \in Histories /\ cache.serial \in DOMAIN cache.history
    BY DEF RpkiTypes, Caches
<1>2. PICK D \in SUBSET Nat : cache.history \in [D -> SUBSET Roas]
    BY <1>1, Zenon DEF Histories
<1>3. \A n \in DOMAIN cache.history : cache.history[n] \in SUBSET Roas
    BY <1>2, Zenon
<1> QED
    BY <1>1, <1>3, Zenon DEF Rpki!content

\* The cache answers a query.
LEMMA CacheAnswersKeeps ==
    ASSUME Rpki!Constants, RpkiTypes, StreamInv, CatchInv, AwayInv, Rpki!CacheAnswers
    PROVE  RpkiTypes' /\ StreamInv' /\ CatchInv' /\ AwayInv'
<1> USE DEF Rpki!client, Rpki!timers, Rpki!ghosts
<1>1. /\ Rpki!Open /\ queries # <<>> /\ queries' = Tail(queries)
      /\ UNCHANGED <<goroutine, inflight, eof, configured, conn, sessionID, oldSessionID, serialNumber,
                     endOfData, pendingROAs, timer, orphans, fired, table>>
      /\ \E b \in BOOLEAN : cache' = [cache EXCEPT !.refused = b]
    <2>1. cache = [cache EXCEPT !.refused = cache.refused] /\ cache.refused \in BOOLEAN
        BY DEF RpkiTypes, Caches
    <2> QED
        BY <2>1, Zenon DEF Rpki!CacheAnswers
<1>12. cache' \in Caches /\ cache'.session = cache.session /\ cache'.serial = cache.serial
       /\ cache'.history = cache.history
    BY <1>1 DEF RpkiTypes, Caches
<1>2. Head(queries) \in ClientMsgs /\ Tail(queries) \in Seq(ClientMsgs)
    BY <1>1, HeadTailProperties DEF RpkiTypes
<1>3. Rpki!content \in SUBSET Roas /\ \A n \in DOMAIN cache.history : cache.history[n] \in SUBSET Roas
    BY ContentType
<1>4. \E a \in Seq(CacheMsgs) :
          /\ Len(a) > 0
          /\ wire' = wire \o a
          /\ \/ a[Len(a)].type = "eod" /\ a[Len(a)].serial = cache.serial
             \/ Len(a) = 1 /\ a[Len(a)].type = "reset"
             \/ Len(a) = 1 /\ a[Len(a)].type = "error" /\ cache'.refused = TRUE
          /\ \A i \in 1 .. Len(a) : OfSession(a[i], cache.session)
    <2> DEFINE q == Head(queries)
    <2>1. CASE wire' = wire \o Rpki!Answer(Rpki!Announce(Rpki!content, TRUE), TRUE)
        <3>1. Rpki!Announce(Rpki!content, TRUE) \in Seq(PrefixMsgs)
            BY <1>3, AnnounceType, Zenon
        <3> QED
            BY <2>1, <3>1, AnswerIs, Zenon
    <2>2. CASE /\ q.serial \in DOMAIN cache.history
               /\ LET old == cache.history[q.serial]
                  IN  wire' = wire \o Rpki!Answer(Rpki!Announce(old \ Rpki!content, FALSE)
                                                  \o Rpki!Announce(Rpki!content \ old, TRUE), FALSE)
        <3> DEFINE old == cache.history[q.serial]
                   p == Rpki!Announce(old \ Rpki!content, FALSE) \o Rpki!Announce(Rpki!content \ old, TRUE)
        <3>1. old \ Rpki!content \in SUBSET Roas /\ Rpki!content \ old \in SUBSET Roas
            BY <2>2, <1>3
        <3>2. /\ Rpki!Announce(old \ Rpki!content, FALSE) \in Seq(PrefixMsgs)
              /\ Rpki!Announce(Rpki!content \ old, TRUE) \in Seq(PrefixMsgs)
            BY <3>1, AnnounceType, Zenon
        <3>3. p \in Seq(PrefixMsgs)
            BY <3>2, ConcatProperties, Zenon
        <3>4. wire' = wire \o Rpki!Answer(p, FALSE)
            BY <2>2
        <3> HIDE DEF p
        <3> QED
            BY <3>3, <3>4, AnswerIs, Zenon
    <2>3. CASE wire' = Append(wire, [type |-> "reset"])
        <3> DEFINE m == [type |-> "reset"]
        <3>1. m \in CacheMsgs /\ m.type = "reset"
            BY DEF CacheMsgs
        <3> HIDE DEF m
        <3>2. /\ <<m>> \in Seq(CacheMsgs) /\ Len(<<m>>) = 1 /\ <<m>>[1] = m
              /\ Append(wire, m) = wire \o <<m>>
            BY <3>1 DEF RpkiTypes
        <3> DEFINE a == <<m>>
        <3>3. \A i \in 1 .. Len(a) : OfSession(a[i], cache.session)
            BY <3>1, <3>2 DEF OfSession
        <3>4. wire' = wire \o a
            BY <2>3, <3>2 DEF m
        <3>5. Len(a) > 0 /\ Len(a) = 1 /\ a[Len(a)].type = "reset"
            BY <3>1, <3>2
        <3> HIDE DEF a
        <3> QED
            BY <3>2, <3>3, <3>4, <3>5, Zenon DEF a
    <2>4. CASE wire' = Append(wire, [type |-> "error"]) /\ cache' = [cache EXCEPT !.refused = TRUE]
        <3> DEFINE m == [type |-> "error"]
        <3>1. m \in CacheMsgs /\ m.type = "error"
            BY DEF CacheMsgs
        <3> HIDE DEF m
        <3>2. /\ <<m>> \in Seq(CacheMsgs) /\ Len(<<m>>) = 1 /\ <<m>>[1] = m
              /\ Append(wire, m) = wire \o <<m>>
            BY <3>1 DEF RpkiTypes
        <3> DEFINE a == <<m>>
        <3>3. \A i \in 1 .. Len(a) : OfSession(a[i], cache.session)
            BY <3>1, <3>2 DEF OfSession
        <3>4. wire' = wire \o a
            BY <2>4, <3>2 DEF m
        <3>5. Len(a) > 0 /\ Len(a) = 1 /\ a[Len(a)].type = "error"
            BY <3>1, <3>2
        <3>6. cache'.refused = TRUE
            BY <2>4 DEF RpkiTypes, Caches
        <3> HIDE DEF a
        <3> QED
            BY <3>2, <3>3, <3>4, <3>5, <3>6, Zenon DEF a
    <2> QED
        BY <2>1, <2>2, <2>3, <2>4, Zenon DEF Rpki!CacheAnswers
<1>5. PICK a \in Seq(CacheMsgs) :
          /\ Len(a) > 0
          /\ wire' = wire \o a
          /\ \/ a[Len(a)].type = "eod" /\ a[Len(a)].serial = cache.serial
             \/ Len(a) = 1 /\ a[Len(a)].type = "reset"
             \/ Len(a) = 1 /\ a[Len(a)].type = "error" /\ cache'.refused = TRUE
          /\ \A i \in 1 .. Len(a) : OfSession(a[i], cache.session)
    BY <1>4
<1>6. StreamInv'
    BY <1>1, <1>5, <1>12, StreamGrows, Zenon
<1>7. wire' \in Seq(CacheMsgs) /\ wire' # <<>> /\ wire'[Len(wire')] = a[Len(a)]
    BY <1>5, WireGrows DEF RpkiTypes
<1>8. Len(wire') \in 1 .. Len(wire')
    BY <1>7, EmptySeq, LenProperties, SMT
<1>9. CatchInv'
    <2>1. CASE cache'.refused = TRUE
        BY <2>1, CatchVacuous
    <2>2. CASE cache'.refused # TRUE
        <3>1. EndsAnswer(wire'[Len(wire')]) /\ Brings(wire'[Len(wire')], cache'.serial)
            BY <2>2, <1>5, <1>7, <1>12 DEF EndsAnswer, Brings
        <3> QED
            BY <3>1, <1>7, <1>8, Zenon DEF CatchInv, EndsAnswer, Brings
    <2> QED
        BY <2>1, <2>2, Zenon
<1>10. RpkiTypes'
    BY <1>1, <1>2, <1>7, <1>12 DEF RpkiTypes, InHand
<1>11. AwayInv'
    BY <1>1 DEF AwayInv, Rpki!AwayOnTimer, Rpki!DeletedGone
<1> QED
    BY <1>6, <1>9, <1>10, <1>11

\* Its content changes.
LEMMA CacheUpdatesKeeps ==
    ASSUME Rpki!Constants, RpkiTypes, StreamInv, CatchInv, AwayInv,
           NEW roas \in SUBSET Roas, Rpki!CacheUpdates(roas)
    PROVE  RpkiTypes' /\ StreamInv' /\ CatchInv' /\ AwayInv'
<1> USE DEF Rpki!client, Rpki!timers, Rpki!ghosts
<1> DEFINE n == (cache.serial + 1) % SerialMod
           m == [type |-> "notify", serial |-> n]
           h == [k \in DOMAIN cache.history \cup {n} |-> IF k = n THEN roas ELSE cache.history[k]]
<1>1. /\ UNCHANGED <<goroutine, inflight, queries, eof, configured, conn, sessionID, oldSessionID,
                     serialNumber, endOfData, pendingROAs, timer, orphans, fired, table>>
      /\ cache' = [cache EXCEPT !.serial = n, !.history = h]
      /\ wire' = IF Rpki!Open THEN Append(wire, m) ELSE wire
    BY DEF Rpki!CacheUpdates
<1>2. n \in Nat
    BY DEF Rpki!Constants, RpkiTypes, Caches
<1>3. m \in CacheMsgs /\ m.type = "notify" /\ m.serial = n
    BY <1>2 DEF CacheMsgs
<1>4. h \in Histories /\ n \in DOMAIN h
    <2>1. PICK D \in SUBSET Nat : cache.history \in [D -> SUBSET Roas]
        BY DEF RpkiTypes, Caches, Histories
    <2>2. h \in [D \cup {n} -> SUBSET Roas] /\ D \cup {n} \in SUBSET Nat
        BY <2>1, <1>2, Zenon
    <2> QED
        BY <2>2, Zenon DEF Histories
<1> HIDE DEF n, m, h
<1>5. /\ cache' \in Caches
      /\ cache'.serial = n /\ cache'.history = h /\ cache'.session = cache.session
      /\ cache'.refused = cache.refused
    BY <1>1, <1>2, <1>4 DEF RpkiTypes, Caches
<1>6. /\ <<m>> \in Seq(CacheMsgs) /\ Len(<<m>>) = 1 /\ <<m>>[1] = m
      /\ Append(wire, m) = wire \o <<m>>
    BY <1>3 DEF RpkiTypes
<1>7. wire' \in Seq(CacheMsgs)
    BY <1>1, <1>3 DEF RpkiTypes
<1>8. RpkiTypes'
    BY <1>1, <1>4, <1>5, <1>7 DEF RpkiTypes, InHand
<1>9. StreamInv'
    <2>1. CASE Rpki!Open
        <3>1. \A i \in 1 .. Len(<<m>>) : OfSession(<<m>>[i], cache.session)
            BY <1>3, <1>6 DEF OfSession
        <3>2. wire' = wire \o <<m>> /\ Len(<<m>>) > 0 /\ <<m>>[Len(<<m>>)].type = "notify"
            BY <2>1, <1>1, <1>3, <1>6
        <3> QED
            BY <2>1, <3>1, <3>2, <1>1, <1>5, <1>6, StreamGrows, Zenon
    <2>2. CASE ~Rpki!Open
        BY <2>2, <1>1, <1>5, StreamSame
    <2> QED
        BY <2>1, <2>2
<1>10. ASSUME configured, conn = "up", ~eof, goroutine \in {"read", "event"}, queries = <<>>,
              ~cache.refused
       PROVE  CatchInv'
    <2>1. Rpki!Open
        BY <1>10 DEF Rpki!Open
    <2>2. wire' = wire \o <<m>>
        BY <2>1, <1>1, <1>6
    <2>3. /\ wire' # <<>> /\ wire'[Len(wire')] = m
          /\ Len(wire') = Len(wire) + 1
          /\ \A i \in 1 .. Len(wire) : wire'[i] = wire[i]
        BY <2>2, <1>6, WireGrows DEF RpkiTypes
    <2>4. Brings(wire'[Len(wire')], cache'.serial)
        BY <2>3, <1>3, <1>5 DEF Brings
    <2>5. \/ Answered
          \/ InHand /\ EndsAnswer(inflight[1])
          \/ \E i \in 1 .. Len(wire) : EndsAnswer(wire[i])
        BY <1>10 DEF CatchInv
    <2>6. 1 .. Len(wire) \subseteq 1 .. Len(wire')
        BY <2>3, LenProperties DEF RpkiTypes
    <2>7. (\E i \in 1 .. Len(wire) : EndsAnswer(wire[i])) =>
              \E i \in 1 .. Len(wire') : EndsAnswer(wire'[i])
        BY <2>3, <2>6, Zenon
    <2>8. (Answered => Answered') /\ (InHand => InHand')
        BY <1>1, <1>5 DEF Answered, InHand
    <2> QED
        BY <1>1, <2>3, <2>4, <2>5, <2>7, <2>8 DEF CatchInv, EndsAnswer, Brings
<1>11. CatchInv'
    BY <1>1, <1>5, <1>10, RefusedType, CatchVacuous, Zenon DEF RpkiTypes
<1>12. AwayInv'
    BY <1>1 DEF AwayInv, Rpki!AwayOnTimer, Rpki!DeletedGone
<1> QED
    BY <1>8, <1>9, <1>11, <1>12

\* It closes the connection, and perhaps begins another session.
LEMMA CacheClosesKeeps ==
    ASSUME Rpki!Constants, RpkiTypes, StreamInv, CatchInv, AwayInv, Rpki!CacheCloses
    PROVE  RpkiTypes' /\ StreamInv' /\ CatchInv' /\ AwayInv'
<1> USE DEF Rpki!client, Rpki!timers, Rpki!ghosts
<1>1. /\ UNCHANGED <<goroutine, inflight, wire, queries, configured, conn, sessionID, oldSessionID,
                     serialNumber, endOfData, pendingROAs, timer, orphans, fired, table>>
      /\ eof' = TRUE
    BY DEF Rpki!CacheCloses
<1>2. cache' \in Caches /\ cache'.serial \in DOMAIN cache'.history
    <2>1. CASE UNCHANGED cache
        BY <2>1 DEF RpkiTypes
    <2>2. CASE ~UNCHANGED cache
        <3> DEFINE h == [k \in {FirstSerial} |-> Rpki!content]
        <3>1. Rpki!content \in SUBSET Roas
            BY ContentType
        <3>2. FirstSerial \in Nat /\ cache.session + 1 \in Nat
            BY DEF Rpki!Constants, RpkiTypes, Caches
        <3>3. h \in [{FirstSerial} -> SUBSET Roas] /\ {FirstSerial} \in SUBSET Nat
            BY <3>1, <3>2
        <3>4. h \in Histories /\ FirstSerial \in DOMAIN h
            BY <3>3, Zenon DEF Histories
        <3>5. cache' = [cache EXCEPT !.session = cache.session + 1, !.serial = FirstSerial, !.history = h]
            BY <2>2 DEF Rpki!CacheCloses
        <3> HIDE DEF h
        <3> QED
            BY <3>2, <3>4, <3>5 DEF RpkiTypes, Caches
    <2> QED
        BY <2>1, <2>2
<1>3. RpkiTypes'
    BY <1>1, <1>2 DEF RpkiTypes, InHand
<1>4. StreamInv' /\ CatchInv'
    BY <1>1, CatchVacuous DEF StreamInv
<1>5. AwayInv'
    BY <1>1 DEF AwayInv, Rpki!AwayOnTimer, Rpki!DeletedGone
<1> QED
    BY <1>3, <1>4, <1>5

\* The inductive invariant.
LEMMA RpkiInvariant ==
    ASSUME Rpki!Constants
    PROVE  Rpki!Spec => [](RpkiTypes /\ StreamInv /\ CatchInv /\ AwayInv)
<1> DEFINE Inv == RpkiTypes /\ StreamInv /\ CatchInv /\ AwayInv
<1>1. Rpki!Init => Inv
    <2> SUFFICES ASSUME Rpki!Init PROVE Inv
        OBVIOUS
    <2>1. RpkiTypes
        <3> DEFINE h == [n \in {FirstSerial} |-> Roas]
        <3>1. FirstSerial \in Nat
            BY DEF Rpki!Constants
        <3>2. h \in [{FirstSerial} -> SUBSET Roas] /\ {FirstSerial} \in SUBSET Nat
            BY <3>1
        <3>3. h \in Histories /\ FirstSerial \in DOMAIN h
            BY <3>2, Zenon DEF Histories
        <3>4. cache = [session |-> 1, serial |-> FirstSerial, history |-> h, refused |-> FALSE]
            BY DEF Rpki!Init
        <3> HIDE DEF h
        <3>5. cache \in Caches /\ cache.serial \in DOMAIN cache.history
            BY <3>1, <3>3, <3>4 DEF Caches
        <3>6. <<>> \in Seq(CacheMsgs) /\ <<>> \in Seq(ClientMsgs) /\ Len(<<>>) = 0
            BY EmptySeq
        <3> QED
            <4>1. ~InHand
                BY Zenon DEF Rpki!Init, InHand
            <4>2. /\ wire \in Seq(CacheMsgs) /\ queries \in Seq(ClientMsgs)
                  /\ inflight \in Seq(CacheMsgs) /\ Len(inflight) = IF InHand THEN 1 ELSE 0
                <5>1. inflight = <<>> /\ wire = <<>> /\ queries = <<>>
                    BY Zenon DEF Rpki!Init
                <5> QED
                    BY <3>6, <4>1, <5>1
            <4>3. /\ configured \in BOOLEAN /\ eof \in BOOLEAN
                  /\ sessionID \in Nat /\ serialNumber \in Nat
                BY DEF Rpki!Init
            <4>4. /\ conn \in {"none", "up", "closed"}
                  /\ goroutine \in {"dial", "connected", "start", "read", "event", "ended", "gone"}
                BY Zenon DEF Rpki!Init
            <4> QED
                BY <3>5, <4>2, <4>3, <4>4, Zenon DEF RpkiTypes
    <2>2. StreamInv /\ CatchInv /\ AwayInv
        BY DEF Rpki!Init, StreamInv, CatchInv, AwayInv, Rpki!AwayOnTimer, Rpki!DeletedGone
    <2> QED
        BY <2>1, <2>2
<1>2. Inv /\ [Rpki!Next]_(Rpki!vars) => Inv'
    <2> SUFFICES ASSUME Inv, [Rpki!Next]_(Rpki!vars) PROVE Inv'
        OBVIOUS
    <2>1. CASE Rpki!Next
        BY <2>1, DialKeeps, GoroutineKeeps, ReadKeeps, ConnectionKeeps, ApiKeeps, HandleRTRKeeps,
           CacheAnswersKeeps, CacheUpdatesKeeps, CacheClosesKeeps, Zenon DEF Rpki!Next
    <2>2. CASE UNCHANGED Rpki!vars
        <3> USE <2>2 DEF Rpki!vars, Rpki!client, Rpki!net, Rpki!timers, Rpki!ghosts
        <3>1. RpkiTypes'
            BY DEF RpkiTypes, InHand
        <3>2. StreamInv' /\ CatchInv'
            BY StreamSame, CatchSame
        <3>3. AwayInv'
            BY DEF AwayInv, Rpki!AwayOnTimer, Rpki!DeletedGone
        <3> QED
            BY <3>1, <3>2, <3>3
    <2> QED
        BY <2>1, <2>2
<1> QED
    BY <1>1, <1>2, PTL DEF Rpki!Spec

\* A client of a cache with nothing more to read, and no query on its way or
\* refused, is at the cache's session and serial number and keeps no ROA back (handleRTRMsg,
\* established), whatever the cache's content, connections lost, restarts of the
\* cache, requests of the API and wraps of the serial number before.
THEOREM CaughtUpCorrect ==
    ASSUME Rpki!Constants
    PROVE  Rpki!Spec => []Rpki!CaughtUp
<1>1. RpkiTypes /\ StreamInv /\ CatchInv /\ AwayInv => Rpki!CaughtUp
    <2> SUFFICES ASSUME RpkiTypes, CatchInv, Rpki!Settled
                 PROVE  endOfData /\ pendingROAs = {} /\ sessionID = cache.session /\ serialNumber = cache.serial
        BY DEF Rpki!CaughtUp
    <2>1. configured /\ conn = "up" /\ ~eof /\ goroutine = "read" /\ queries = <<>> /\ wire = <<>>
          /\ ~cache.refused
        BY DEF Rpki!Settled
    <2>2. Len(wire) = 0 /\ ~InHand
        BY <2>1 DEF InHand
    <2> QED
        BY <2>1, <2>2 DEF CatchInv, Answered
<1> QED
    BY <1>1, RpkiInvariant, PTL

\* ROAs of a cache that is away are on a timer (HandleROAEvent, disconnected and
\* lifetimeout), and nothing of a deleted one is or comes back in the table
\* (DeleteServer, handleRTRMsg).
THEOREM RoasEndCorrect ==
    ASSUME Rpki!Constants
    PROVE  Rpki!Spec => [](Rpki!AwayOnTimer /\ Rpki!DeletedGone)
<1>1. AwayInv => Rpki!AwayOnTimer /\ Rpki!DeletedGone
    BY DEF AwayInv
<1> QED
    BY <1>1, RpkiInvariant, PTL
=============================================================================
