---------------------------- MODULE Propagation ----------------------------
(***************************************************************************)
(* From the Loc-RIB to the neighbors (server.go, peer.go): the walk of     *)
(* propagateUpdateToNeighbors over the neighbors, the filters on the way   *)
(* out, the record of what was sent (sentPaths) and of what was held back  *)
(* by ADD-PATH send-max (sendMaxPathFiltered), the dumps for a new session,*)
(* a route refresh or an outbound soft reset, the end of a session, and    *)
(* the deferral of a server that restarts gracefully.                      *)
(*                                                                         *)
(* One destination: destinations share only the sessions. A path is its    *)
(* source and an attribute; the higher attribute is preferred, then the    *)
(* higher rank of the source. The local path identifier of a path is its   *)
(* source (RibIn shows that it is unique and stable). What a neighbor      *)
(* holds is what it will hold once its queue is sent: Packer shows when    *)
(* packing keeps the order.                                                *)
(***************************************************************************)
EXTENDS Naturals, FiniteSets

CONSTANTS Peers,      \* the neighbors
          Local,      \* source of the paths of the operator
          Kind,       \* "ebgp", "ibgp" or "client" (route reflector client)
          AddPath,    \* neighbors that are sent several paths
          SendMax,    \* AddPaths.Config.SendMax
          Graceful,   \* neighbors with graceful restart
          Llgr,       \* neighbors with long-lived graceful restart, both ways
          Router,     \* the router identifier of a source
          Attrs,      \* positive numbers
          Stale,      \* attributes with the community LLGR_STALE
          Policies,   \* sets of attributes an export policy rejects
          Loops,      \* attributes whose AS path contains the neighbor's AS
          Rank,       \* of sources
          Announcers, \* sources that may announce the prefix
          Early,      \* neighbors whose session is up before anything else happens
          Restarts,   \* whether the server may start as a restarting speaker
          MaxEvents   \* bound on what neighbors and operator do

Sources == Peers \cup {Local}
Zero == "0"           \* the path identifier where ADD-PATH is off
None == 0             \* no attribute: no path

ASSUME PropagationAssumption ==
    /\ IsFiniteSet(Peers) /\ Local \notin Peers /\ Zero \notin Sources
    /\ AddPath \subseteq Peers /\ Graceful \subseteq Peers /\ Early \subseteq Peers \ Graceful
    /\ Llgr \subseteq Graceful /\ Stale \subseteq Attrs
    /\ Announcers \subseteq Sources
    /\ Kind \in [Peers -> {"ebgp", "ibgp", "client"}]
    /\ Attrs \subseteq Nat \ {0} /\ Policies \subseteq SUBSET Attrs
    /\ Loops \in [Peers -> SUBSET Attrs]
    /\ Rank \in [Sources -> Nat]
    /\ SendMax \in Nat /\ MaxEvents \in Nat /\ Restarts \subseteq BOOLEAN

VARIABLES
    known,      \* the known path list: attribute of the path of each source
    rejects,    \* attributes the export policy rejects
    walk,       \* the holder of the propagation bucket, and its progress
    st,         \* fsm.state as far as sending goes, and the callback's stage
    sync,       \* neighbors still to be served by the end of a restart
    sent,       \* sentPaths
    held,       \* sendMaxPathFiltered
    view,       \* what the neighbor holds
    restarting, \* GracefulRestart.State.LocalRestarting
    eor,        \* MpGracefulRestart.State.EndOfRibReceived
    timer,      \* the deferral timer of the present session
    gap,        \* history: why a neighbor may be behind
    heard,      \* history: neighbors whose End-of-RIB came or is not awaited
    expired,    \* history: neighbors no longer, or never, deferred by the timer
    events

outVars == <<sent, held, view>>
grVars  == <<restarting, eor, timer, heard, expired>>
vars == <<known, rejects, walk, st, sync, outVars, grVars, gap, events>>

Path(s, a, w) == [src |-> s, attr |-> a, withdraw |-> w]
NoPath == Path(Local, None, TRUE)
Withdraw(x) == [x EXCEPT !.withdraw = TRUE]
NoWalk == [by |-> Zero]

Slot(p, s) == IF p \in AddPath THEN s ELSE Zero
Slots == Sources \cup {Zero}

Init ==
    /\ known = [s \in Sources |-> None]
    /\ rejects = {}
    /\ walk = NoWalk
    /\ st = [p \in Peers |-> IF p \in Early THEN "up" ELSE "down"]
    /\ sync = [p \in Peers |-> {}]
    /\ sent = [p \in Peers |-> {}]
    /\ held = [p \in Peers |-> {}]
    /\ view = [p \in Peers |-> [i \in Slots |-> None]]
    /\ \E r \in Restarts : /\ restarting = [p \in Peers |-> r /\ p \in Graceful]
                          /\ expired = IF r THEN {} ELSE Graceful
    /\ eor = [p \in Peers |-> FALSE]
    /\ timer = [p \in Peers |-> FALSE]
    /\ gap = [p \in Peers |-> {}]
    /\ heard = Early
    /\ events = 0

----------------------------------------------------------------------------
(* The Loc-RIB *)

Better(k, s, t) == k[s] > k[t] \/ (k[s] = k[t] /\ Rank[s] >= Rank[t])
Has(k) == {s \in Sources : k[s] # None}

\* The first of the paths of S in the known path list.
First(k, S) == LET s == CHOOSE s \in S : \A t \in S : Better(k, s, t) IN Path(s, k[s], FALSE)
GetBestPath(k) == IF Has(k) = {} THEN NoPath ELSE First(k, Has(k))

\* GetChanges: the path to tell the neighbors of, and the one before it.
GetChanges(k, l) ==
    LET old == GetBestPath(k)
        best == GetBestPath(l)
    IN [best |-> IF best = old THEN NoPath
                 ELSE IF best = NoPath THEN Withdraw(old)
                 ELSE best,
        old |-> old]

----------------------------------------------------------------------------
(* Filters on the way out *)

isIBGPPeer(p) == Kind[p] # "ebgp"

\* The rule for internal neighbors: a path from an internal neighbor is not
\* passed on to one, unless one of the two is a route reflector client.
SameAs(p, x) ==
    /\ isIBGPPeer(p) /\ x.src # Local /\ x.src \in Peers
    /\ isIBGPPeer(x.src) /\ Kind[x.src] # "client" /\ Kind[p] # "client"

\* Mutant: nothing is sent to the neighbor the new best path comes from.
filterPathFromSourcePeer_Ignore(p, x, old) == IF Router[x.src] # Router[p] THEN x ELSE NoPath
\* A router is not sent its own path, over none of the sessions with it, and
\* loses the one it had before.
filterPathFromSourcePeer(p, x, old) ==
    IF Router[x.src] # Router[p] THEN x
    ELSE IF ~x.withdraw /\ old # NoPath /\ old.src # p THEN Withdraw(old)
    ELSE NoPath

ASLoop(p, x, old) ==
    IF x = NoPath \/ x.attr \notin Loops[p] THEN x
    ELSE IF ~x.withdraw /\ old # NoPath THEN Withdraw(old)
    ELSE NoPath

\* filterpath, without policy.
prePolicyFilterpath(p, x, old) ==
    IF x = NoPath THEN NoPath
    ELSE IF SameAs(p, x)
    THEN IF /\ ~x.withdraw /\ old # NoPath
            /\ old.src = Local \/ (old.src # p /\ ~isIBGPPeer(old.src))
         THEN Withdraw(old) ELSE NoPath
    ELSE ASLoop(p, filterPathFromSourcePeer(p, x, old), old)

\* ApplyPolicy passes withdrawals.
ApplyPolicy(x) == IF ~x.withdraw /\ x.attr \in rejects THEN NoPath ELSE x

\* A long-lived stale path is withdrawn from a neighbor that does not know
\* long-lived graceful restart, whether it was sent or not.
postFilterpath(p, x) ==
    IF x # NoPath /\ ~x.withdraw /\ p \notin Llgr /\ x.attr \in Stale THEN Withdraw(x) ELSE x

\* filterpath of the server: a path that is rejected takes the old one back.
filterpath(p, x, old) ==
    LET y == prePolicyFilterpath(p, x, old) IN
    postFilterpath(p, IF y = NoPath \/ ApplyPolicy(y) # NoPath THEN y
                      ELSE IF old # NoPath /\ ApplyPolicy(old) # NoPath THEN Withdraw(old)
                      ELSE NoPath)

\* What may be advertised to p at all.
Exportable(p, s) == ~filterpath(p, Path(s, known[s], FALSE), NoPath).withdraw

----------------------------------------------------------------------------
(* The record of what was sent, and the neighbor's end *)

\* updateRoutes and sendfsmOutgoingMsg for the paths of a set.
Send(p, announced, withdrawn) ==
    /\ sent' = [sent EXCEPT ![p] = (@ \ {Slot(p, x.src) : x \in withdrawn})
                                   \cup {Slot(p, x.src) : x \in announced}]
    /\ view' = [view EXCEPT ![p] = [i \in Slots |->
                   IF \E x \in announced : Slot(p, x.src) = i
                   THEN (CHOOSE x \in announced : Slot(p, x.src) = i).attr
                   ELSE IF \E x \in withdrawn : Slot(p, x.src) = i THEN None
                   ELSE @[i]]]

\* getPossibleBest
PossibleBest(p) ==
    IF p \in AddPath THEN {Path(s, known[s], FALSE) : s \in Has(known)}
    ELSE {GetBestPath(known)} \ {NoPath}

\* The lists of getBestFromLocalCallback: the paths that pass, and those that
\* pass as withdrawals. The rest is filtered.
Passed(p) == {x \in PossibleBest(p) : ~filterpath(p, x, NoPath).withdraw}
TakenBack(p) == {x \in PossibleBest(p) : filterpath(p, x, NoPath) = Withdraw(x)}

\* getBestFromLocalCallback, as a new session and a route refresh use it.
Dump(p) == Send(p, Passed(p), TakenBack(p)) /\ UNCHANGED held

\* History: reasons why p may be behind or ahead; "flagged" when a path is
\* recorded both as sent and as held back.
Gap(p, G) ==
    gap' = [gap EXCEPT ![p] = G \cup {g \in {"flagged"} : held'[p] \cap sent'[p] # {}}]

----------------------------------------------------------------------------
(* propagateUpdate *)

needToAdvertise(p) == st[p] = "up" /\ ~restarting[p]

\* Management operations hold the lock alone, callbacks share it.
Event == events < MaxEvents /\ events' = events + 1
Callback == walk.by # Local
Management ==
    /\ walk = NoWalk
    /\ \A p \in Peers : st[p] \in {"down", "storing", "up"} /\ sync[p] = {}

\* The table changes under the lock of the bucket, and the walk begins.
Begin(s, a) ==
    /\ walk = NoWalk
    /\ known' = [known EXCEPT ![s] = a]
    /\ LET changes == GetChanges(known, known')
       IN walk' = [by |-> s, new |-> Path(s, IF a = None THEN known[s] ELSE a, a = None),
                   best |-> changes.best, old |-> changes.old, todo |-> Peers]

\* A neighbor without ADD-PATH is sent the change of the best path.
VisitBest(p) ==
    LET x == filterpath(p, walk.best, walk.old) IN
    /\ IF x = NoPath THEN UNCHANGED <<sent, view>>
       ELSE IF x.withdraw THEN Send(p, {}, {x})
       ELSE Send(p, {x}, {})
    /\ UNCHANGED held

\* A path of an ADD-PATH neighbor goes: unless it was held back itself, it is
\* withdrawn, and the best of those held back takes its place, even where it can
\* only be withdrawn too.
Waiting(p) ==
    {s \in Has(known) : s \in held[p] /\ filterpath(p, Path(s, known[s], FALSE), NoPath) # NoPath}
Promoted(p) == filterpath(p, First(known, Waiting(p)), NoPath)

VisitWithdraw(p) ==
    LET x == filterpath(p, walk.new, NoPath)
        next == Promoted(p)
    IN IF x = NoPath THEN UNCHANGED outVars
       ELSE IF x.src \in held[p]
       THEN held' = [held EXCEPT ![p] = @ \ {x.src}] /\ UNCHANGED <<sent, view>>
       ELSE IF Waiting(p) = {}
       THEN Send(p, {}, {x}) /\ UNCHANGED held
       ELSE /\ Send(p, {next} \ {Withdraw(next)}, {x} \cup ({next} \cap {Withdraw(next)}))
            /\ held' = [held EXCEPT ![p] = @ \ {next.src}]

\* A stale path is withdrawn, and the record of what was sent keeps it:
\* updateRoutes is not called for a path that was sent, and removes nothing for
\* one that was not.
SendNew(p, x) ==
    /\ IF x.withdraw THEN view' = [view EXCEPT ![p][x.src] = None] /\ UNCHANGED sent
       ELSE Send(p, {x}, {})
    /\ UNCHANGED held

\* Mutant: a path over the limit is dropped.
VisitAnnounce_Drop(p) ==
    LET x == filterpath(p, walk.new, NoPath) IN
    IF x # NoPath /\ (walk.new.src \in sent[p] \/ Cardinality(sent[p]) < SendMax)
    THEN SendNew(p, x)
    ELSE UNCHANGED outVars
\* A path of an ADD-PATH neighbor is new or changed.
VisitAnnounce(p) ==
    LET x == filterpath(p, walk.new, NoPath)
        alreadySent == walk.new.src \in sent[p]
    IN IF x = NoPath THEN UNCHANGED outVars
       ELSE IF alreadySent \/ Cardinality(sent[p]) < SendMax THEN SendNew(p, x)
       ELSE held' = [held EXCEPT ![p] = @ \cup {x.src}] /\ UNCHANGED <<sent, view>>

\* History: the new version of a path that an ADD-PATH neighbor was sent is
\* filtered, and the neighbor keeps the version before it.
Outdated(p) ==
    /\ p \in AddPath /\ ~walk.new.withdraw /\ walk.new.src \in sent[p]
    /\ filterpath(p, walk.new, NoPath) = NoPath

\* History: a stale path is withdrawn from an ADD-PATH neighbor that was sent it,
\* and stays in sentPaths; or the place of a withdrawn path goes to a stale one.
Misplaced(p) ==
    /\ p \in AddPath
    /\ IF walk.new.withdraw THEN Waiting(p) # {} /\ Promoted(p).withdraw
       ELSE /\ walk.new.src \in sent[p]
            /\ filterpath(p, walk.new, NoPath) = Withdraw(walk.new)

\* One neighbor of the walk, under its routeRefreshInProgress.
Visit(p) ==
    /\ walk # NoWalk /\ p \in walk.todo
    /\ walk' = IF walk.todo = {p} THEN NoWalk ELSE [walk EXCEPT !.todo = @ \ {p}]
    /\ st' = [q \in Peers |-> IF walk' = NoWalk /\ q = walk.by /\ st[q] = "dropping"
                              THEN "down" ELSE st[q]]
    /\ IF ~needToAdvertise(p)
       THEN /\ gap' = [gap EXCEPT ![p] = IF st[p] \in {"syncing", "storing"} THEN @ \cup {"window"} ELSE @]
            /\ UNCHANGED outVars
       ELSE /\ IF p \notin AddPath THEN VisitBest(p)
               ELSE IF walk.new.withdraw THEN VisitWithdraw(p)
               ELSE VisitAnnounce(p)
            /\ Gap(p, gap[p] \cup {g \in {"replaced"} : Outdated(p)}
                             \cup {g \in {"stale"} : Misplaced(p)})
    /\ UNCHANGED <<known, rejects, sync, grVars, events>>

----------------------------------------------------------------------------
(* Callbacks of a neighbor *)

Idle(p) == Callback /\ walk.by # p /\ sync[p] = {}

\* An UPDATE of p announces or withdraws its path.
HandleUpdate(p, a) ==
    /\ st[p] = "up" /\ Idle(p) /\ Event
    /\ a # None \/ known[p] # None
    /\ Begin(p, a)
    /\ UNCHANGED <<rejects, st, sync, outVars, grVars, gap>>

\* Mutant: only established neighbors count.
receivedAllEOR_Established(q) == q \in Graceful /\ st[q] = "up" => eor[q]
\* receivedAllEOR: a neighbor that is not established counts as pending if it
\* is configured for graceful restart.
receivedAllEOR(q) == q \notin Graceful \/ (st[q] = "up" /\ eor[q])

\* time.AfterFunc with the deferral time of p.
\* Mutant: one timer for all.
StartDeferral_Once(p) ==
    timer' = [timer EXCEPT ![p] = ~\E q \in Peers : timer[q]]
StartDeferral(p) == timer' = [timer EXCEPT ![p] = TRUE]

\* The session comes up; the state is stored only after the callback. bit is
\* the Restart State bit in the OPEN of the neighbor.
Establish(p, bit) ==
    /\ st[p] = "down" /\ Idle(p)
    /\ bit => p \in Graceful /\ restarting[p]
    /\ eor' = [eor EXCEPT ![p] = bit]
    /\ heard' = IF bit \/ p \notin Graceful THEN heard \cup {p} ELSE heard
    /\ LET allEnd == (p \in Graceful => bit) /\ \A q \in Peers \ {p} : receivedAllEOR(q)
       IN IF ~restarting[p]
          THEN /\ Dump(p) /\ st' = [st EXCEPT ![p] = "storing"]
               /\ gap' = [gap EXCEPT ![p] = @ \ {"policy"}]
               /\ UNCHANGED <<sync, timer>>
          ELSE IF allEnd
          THEN /\ sync' = [sync EXCEPT ![p] = Peers]
               /\ st' = [st EXCEPT ![p] = "syncing"]
               /\ UNCHANGED <<outVars, timer, gap>>
          ELSE /\ StartDeferral(p)
               /\ st' = [st EXCEPT ![p] = "storing"]
               /\ UNCHANGED <<outVars, sync, gap>>
    /\ UNCHANGED <<known, rejects, walk, restarting, expired, events>>

\* loop() stores the state when the callback has returned.
Store(p) ==
    /\ st[p] = "storing"
    /\ st' = [st EXCEPT ![p] = "up"]
    /\ UNCHANGED <<known, rejects, walk, sync, outVars, grVars, gap, events>>

\* The deferral ends for one neighbor after the other, whatever their state.
SyncNext(p, q) ==
    /\ q \in sync[p]
    /\ sync' = [sync EXCEPT ![p] = @ \ {q}]
    /\ st' = IF st[p] = "syncing" /\ sync[p] = {q} THEN [st EXCEPT ![p] = "storing"] ELSE st
    /\ restarting' = [restarting EXCEPT ![q] = FALSE]
    /\ IF q \in Graceful
       THEN /\ Dump(q)
            /\ Gap(q, gap[q] \cup {g \in {"early"} : q # p /\ st[q] # "up"})
       ELSE UNCHANGED <<outVars, gap>>
    /\ UNCHANGED <<known, rejects, walk, eor, timer, heard, expired, events>>

\* End-of-RIB of p.
HandleEOR(p) ==
    /\ st[p] = "up" /\ Idle(p) /\ p \in Graceful /\ ~eor[p]
    /\ eor' = [eor EXCEPT ![p] = TRUE] /\ heard' = heard \cup {p}
    /\ sync' = IF restarting[p] /\ \A q \in Peers \ {p} : receivedAllEOR(q)
               THEN [sync EXCEPT ![p] = Peers] ELSE sync
    /\ UNCHANGED <<known, rejects, walk, st, outVars, restarting, timer, expired, gap, events>>

handleRouteRefresh(p) ==
    /\ st[p] = "up" /\ Idle(p) /\ Event
    /\ Dump(p)
    /\ Gap(p, gap[p] \cup {g \in {"deferred"} : restarting[p]})
    /\ UNCHANGED <<known, rejects, walk, st, sync, grVars>>

\* The session ends. The down state is published before anything is cleared.
PeerDown(p) ==
    /\ st[p] = "up" /\ Idle(p) /\ Event
    /\ st' = [st EXCEPT ![p] = "closing"]
    /\ eor' = [eor EXCEPT ![p] = FALSE]
    /\ timer' = [timer EXCEPT ![p] = FALSE]
    /\ UNCHANGED <<known, rejects, walk, sync, outVars, restarting, heard, expired, gap>>

\* Mutant: only the flags are reset.
resetAdvertisedRoutes_Flags(p) ==
    /\ st[p] = "closing" /\ Callback
    /\ st' = [st EXCEPT ![p] = "dropping"]
    /\ held' = [held EXCEPT ![p] = {}]
    /\ view' = [view EXCEPT ![p] = [i \in Slots |-> None]]
    /\ gap' = [gap EXCEPT ![p] = {}]
    /\ UNCHANGED <<known, rejects, walk, sync, sent, grVars, events>>
\* What was sent is forgotten; the neighbor has dropped it with the session.
resetAdvertisedRoutes(p) ==
    /\ st[p] = "closing" /\ Callback
    /\ st' = [st EXCEPT ![p] = "dropping"]
    /\ sent' = [sent EXCEPT ![p] = {}]
    /\ held' = [held EXCEPT ![p] = {}]
    /\ view' = [view EXCEPT ![p] = [i \in Slots |-> None]]
    /\ gap' = [gap EXCEPT ![p] = {}]
    /\ UNCHANGED <<known, rejects, walk, sync, grVars, events>>

\* dropAdjRIBIn; the routes of a graceful neighbor may be kept for a time.
dropAdjRIBIn(p) ==
    /\ st[p] = "dropping" /\ Callback /\ walk.by # p
    /\ \/ /\ known[p] # None /\ Begin(p, None) /\ UNCHANGED st
       \/ /\ known[p] = None \/ p \in Graceful
          /\ st' = [st EXCEPT ![p] = "down"]
          /\ UNCHANGED <<known, walk>>
    /\ UNCHANGED <<rejects, sync, outVars, grVars, gap, events>>

\* The restart time of a neighbor that stayed away is over, or its long-lived
\* one. Its path goes, or is marked as stale.
RestartFailed(p, a) ==
    /\ st[p] = "down" /\ Idle(p) /\ known[p] # None
    /\ a = None \/ (p \in Llgr /\ a \in Stale \ {known[p]})
    /\ Begin(p, a)
    /\ UNCHANGED <<rejects, st, sync, outVars, grVars, gap, events>>

----------------------------------------------------------------------------
(* Management operations *)

\* AddPath and DeletePath of the operator.
LocalPath(a) ==
    /\ Management /\ Event
    /\ a # None \/ known[Local] # None
    /\ Begin(Local, a)
    /\ UNCHANGED <<rejects, st, sync, outVars, grVars, gap>>

\* The export policy changes; neighbors learn of it by a soft reset.
SetPolicy(R) ==
    /\ Management /\ Event /\ R # rejects
    /\ rejects' = R
    /\ gap' = [p \in Peers |-> IF st[p] = "down" THEN gap[p] ELSE gap[p] \cup {"policy"}]
    /\ UNCHANGED <<known, walk, st, sync, outVars, grVars>>

\* softResetOut of the operator.
softResetOut(p) ==
    /\ Management /\ Event /\ st[p] = "up"
    /\ LET filtered == {x \in PossibleBest(p) : filterpath(p, x, NoPath) = NoPath}
       IN Send(p, Passed(p),
               TakenBack(p) \cup {x \in filtered : Slot(p, x.src) \in sent[p]})
    /\ UNCHANGED held
    /\ Gap(p, (gap[p] \ {"policy"}) \cup {g \in {"deferred"} : restarting[p]})
    /\ UNCHANGED <<known, rejects, walk, st, sync, grVars>>

\* The deferral timer of a session that has not been down since. It is longer
\* than the time the FSM takes to store its state. Withdrawals are left out of
\* the dump.
DeferralExpired(p) ==
    /\ Management /\ timer[p] /\ st[p] # "storing"
    /\ timer' = [timer EXCEPT ![p] = FALSE]
    /\ expired' = expired \cup {p}
    /\ IF st[p] = "up" /\ restarting[p]
       THEN /\ restarting' = [restarting EXCEPT ![p] = FALSE]
            /\ Send(p, Passed(p), {}) /\ UNCHANGED held
       ELSE UNCHANGED <<restarting, outVars>>
    /\ UNCHANGED <<known, rejects, walk, st, sync, eor, heard, gap, events>>

----------------------------------------------------------------------------

Neighbor(p) ==
    \/ \E a \in Attrs \cup {None} : p \in Announcers /\ HandleUpdate(p, a)
    \/ \E bit \in BOOLEAN : Establish(p, bit)
    \/ Store(p) \/ HandleEOR(p) \/ handleRouteRefresh(p)
    \/ \E q \in Peers : SyncNext(p, q)
    \/ PeerDown(p) \/ resetAdvertisedRoutes(p) \/ dropAdjRIBIn(p)
    \/ \E a \in Stale \cup {None} : RestartFailed(p, a)
    \/ softResetOut(p) \/ DeferralExpired(p)
    \/ Visit(p)

Operator ==
    \/ \E a \in Attrs \cup {None} : Local \in Announcers /\ LocalPath(a)
    \/ \E R \in Policies : SetPolicy(R)

Next == Operator \/ \E p \in Peers : Neighbor(p)

Spec == Init /\ [][Next]_vars

----------------------------------------------------------------------------
(* Properties *)

\* Types of the state.
TypeOK ==
    /\ known \in [Sources -> Attrs \cup {None}]
    /\ rejects \subseteq Attrs
    /\ walk = NoWalk \/ (walk.by \in Sources /\ walk.todo \subseteq Peers)
    /\ st \in [Peers -> {"down", "syncing", "storing", "up", "closing", "dropping"}]
    /\ sync \in [Peers -> SUBSET Peers]
    /\ sent \in [Peers -> SUBSET Slots] /\ held \in [Peers -> SUBSET Sources]
    /\ view \in [Peers -> [Slots -> Attrs \cup {None}]]
    /\ {restarting, eor, timer} \subseteq [Peers -> BOOLEAN]
    /\ gap \in [Peers -> SUBSET {"window", "policy", "early", "deferred", "flagged", "replaced",
                                 "stale"}]

Holds(p) == {i \in Slots : view[p][i] # None}
Settled(p) == st[p] = "up" /\ ~restarting[p] /\ walk = NoWalk /\ gap[p] = {}

\* sentPaths never lacks a path the neighbor holds, through every order of
\* walks, dumps, soft resets and session ends; and it is exactly what the
\* neighbor holds, with two exceptions: the end of a restart was dumped to a
\* neighbor that had just gone down (server.go:1982, after the reset of its
\* records), and a long-lived stale path was withdrawn from an ADD-PATH neighbor
\* that had been sent it (server.go:1634, which leaves the record as it was).
Bookkeeping ==
    /\ TypeOK
    /\ \A p \in Peers : /\ Holds(p) \subseteq sent[p]
                        /\ gap[p] \cap {"early", "stale"} = {} => sent[p] = Holds(p)

\* The attribute a neighbor without ADD-PATH is due.
Due(p) ==
    LET best == GetBestPath(known) IN
    IF best # NoPath /\ Exportable(p, best.src) THEN best.attr ELSE None

\* The changes that the walks send add up: between walks, an established
\* neighbor without ADD-PATH holds the best path if it may be advertised to
\* it and nothing otherwise, whatever sequence of best paths led there, if
\* no walk passed it between its dump and the store of its state (fsm.go:2246),
\* the policy has not changed since its last reset, and it was not refreshed
\* while the server deferred.
InSync == \A p \in Peers \ AddPath : Settled(p) => view[p][Zero] = Due(p)

Exports(p) == {s \in Has(known) : Exportable(p, s)}

\* No path is lost to send-max: an ADD-PATH neighbor holds every path that may
\* be advertised to it, or the path is flagged to be sent when there is room.
NothingForgotten ==
    \A p \in AddPath : Settled(p) => Exports(p) \subseteq Holds(p) \cup held[p]

\* The room is used: while an ADD-PATH neighbor holds fewer than send-max
\* paths, none that may be advertised is held back, unless a stale path took the
\* room (Misplaced).
NoIdleRoom ==
    \A p \in AddPath :
        Settled(p) /\ Cardinality(Holds(p)) < SendMax => Exports(p) \subseteq Holds(p)

\* An ADD-PATH neighbor holds no path that has been withdrawn and no version of
\* a path that has been replaced, with two exceptions: a path both sent and
\* flagged as held back, where the flag swallows the withdrawal
\* (server.go:1588), and a path whose new version was filtered, which leaves
\* the version before it with the neighbor (server.go:1632).
NoGhostPath == \A p \in AddPath : Settled(p) => \A s \in Holds(p) : view[p][s] = known[s]

\* An ADD-PATH neighbor holds the paths it is due or they wait for room: none is
\* forgotten, none waits while there is room, none outlives its withdrawal or its
\* replacement.
AddPathInSync == NothingForgotten /\ NoIdleRoom /\ NoGhostPath

\* A restarting server defers towards a graceful neighbor until every graceful
\* neighbor has sent its End-of-RIB, or has the Restart State bit set, or the
\* timer of that neighbor expires (RFC 4724 4.1, quoted at server.go:1955).
DeferralHonoured ==
    \A p \in Graceful : restarting[p] \/ Graceful \subseteq heard \/ p \in expired

\* A neighbor to which the server defers always has something that ends it: its
\* own timer, not voided by an earlier session, or a sync that will reach it.
DeferralEnds ==
    \A p \in Graceful :
        restarting[p] /\ st[p] \in {"storing", "up"} =>
            timer[p] \/ \E q \in Peers : p \in sync[q]

\* When no path is left and the walks are over, no neighbor holds one
\* ("in order to avoid the old best left on peers", server.go:596-597).
NoGhostRoute == \A p \in Peers : Settled(p) /\ Has(known) = {} => Holds(p) = {}

=============================================================================
