------------------------- MODULE PropagationProofs -------------------------
(***************************************************************************)
(* Proofs about Propagation: the deferral of a restarting server is        *)
(* honoured and ends, and sentPaths is what the neighbors hold. The last   *)
(* part prepares PropagationSyncProofs: what the filters let pass, what    *)
(* the view of a neighbor has to do with the Loc-RIB, and what one dump or *)
(* one soft reset makes of it.                                             *)
(***************************************************************************)
EXTENDS Propagation, FiniteSetTheorems, TLAPS

States == {"down", "syncing", "storing", "up", "closing", "dropping"}

----------------------------------------------------------------------------
(* The deferral of a restarting server *)

\* DeferralInv says how the two properties of the deferral hold together. A
\* dump of all neighbors is under way only when all have been heard, and an
\* End-of-RIB that is recorded has been heard; a callback that will end the
\* deferral of its own neighbor has not passed it yet.
DeferralInv ==
    /\ st \in [Peers -> States]
    /\ sync \in [Peers -> SUBSET Peers]
    /\ restarting \in [Peers -> BOOLEAN]
    /\ eor \in [Peers -> BOOLEAN]
    /\ timer \in [Peers -> BOOLEAN]
    /\ DeferralHonoured
    /\ DeferralEnds
    /\ \A p \in Peers : sync[p] # {} => Graceful \subseteq heard
    /\ \A p \in Graceful : eor[p] => p \in heard
    /\ \A p \in Peers : st[p] = "syncing" /\ restarting[p] => p \in sync[p]

LEMMA DeferralInit == Init => DeferralInv
<1> SUFFICES ASSUME Init PROVE DeferralInv
  OBVIOUS
<1> USE PropagationAssumption
<1>1. st \in [Peers -> States] /\ sync \in [Peers -> SUBSET Peers]
      /\ restarting \in [Peers -> BOOLEAN] /\ eor \in [Peers -> BOOLEAN]
      /\ timer \in [Peers -> BOOLEAN]
  BY DEF Init, States
<1>2. DeferralHonoured
  BY DEF Init, DeferralHonoured
<1>3. DeferralEnds
  BY DEF Init, DeferralEnds
<1>4. QED
  BY <1>1, <1>2, <1>3 DEF Init, DeferralInv

\* Steps that leave the deferral alone.
LEMMA DeferralFrame ==
    ASSUME DeferralInv, UNCHANGED <<grVars, sync>>,
           st' \in [Peers -> States],
           \A p \in Peers : st'[p] \in {"syncing", "storing", "up"} =>
               st[p] = st'[p] \/ (st[p] = "storing" /\ st'[p] = "up")
    PROVE  DeferralInv'
BY PropagationAssumption DEF DeferralInv, DeferralHonoured, DeferralEnds, grVars

LEMMA DeferralEstablish ==
    ASSUME DeferralInv, NEW p \in Peers, NEW bit \in BOOLEAN, Establish(p, bit)
    PROVE  DeferralInv'
<1> USE PropagationAssumption DEF DeferralInv
<1>1. /\ heard \subseteq heard'
      /\ restarting' = restarting /\ expired' = expired
      /\ eor' = [eor EXCEPT ![p] = bit]
      /\ bit => p \in heard'
      /\ p \notin Graceful => p \in heard'
      /\ sync[p] = {}
      /\ bit => p \in Graceful /\ restarting[p]
  BY DEF Establish, Idle
<1>2. CASE ~restarting[p]
  <2>1. /\ st' = [st EXCEPT ![p] = "storing"] /\ sync' = sync /\ timer' = timer
    BY <1>2 DEF Establish
  <2>2. QED
    BY <1>1, <1>2, <2>1 DEF DeferralHonoured, DeferralEnds, States
<1>3. CASE restarting[p] /\ (p \in Graceful => bit) /\ \A q \in Peers \ {p} : receivedAllEOR(q)
  <2>1. /\ sync' = [sync EXCEPT ![p] = Peers] /\ st' = [st EXCEPT ![p] = "syncing"]
        /\ timer' = timer
    BY <1>3 DEF Establish
  <2>2. Graceful \subseteq heard'
    BY <1>1, <1>3 DEF receivedAllEOR
  <2>3. QED
    BY <1>1, <1>3, <2>1, <2>2 DEF DeferralHonoured, DeferralEnds, States
<1>4. CASE restarting[p] /\ ~((p \in Graceful => bit) /\ \A q \in Peers \ {p} : receivedAllEOR(q))
  <2>1. /\ sync' = sync /\ st' = [st EXCEPT ![p] = "storing"]
        /\ timer' = [timer EXCEPT ![p] = TRUE]
    BY <1>4 DEF Establish, StartDeferral
  <2>2. QED
    BY <1>1, <1>4, <2>1 DEF DeferralHonoured, DeferralEnds, States
<1>5. QED
  BY <1>2, <1>3, <1>4

LEMMA DeferralSyncNext ==
    ASSUME DeferralInv, NEW p \in Peers, NEW q \in Peers, SyncNext(p, q)
    PROVE  DeferralInv'
<1> USE PropagationAssumption DEF DeferralInv
<1>1. /\ q \in sync[p]
      /\ sync' = [sync EXCEPT ![p] = @ \ {q}]
      /\ restarting' = [restarting EXCEPT ![q] = FALSE]
      /\ eor' = eor /\ timer' = timer /\ heard' = heard /\ expired' = expired
      /\ Graceful \subseteq heard
  BY DEF SyncNext
<1>2. CASE st[p] = "syncing" /\ sync[p] = {q}
  <2>1. st' = [st EXCEPT ![p] = "storing"]
    BY <1>2 DEF SyncNext
  <2>2. ~restarting'[p]
    BY <1>1, <1>2
  <2>3. DeferralEnds'
    BY <1>1, <1>2, <2>1, <2>2 DEF DeferralEnds
  <2>4. QED
    BY <1>1, <1>2, <2>1, <2>2, <2>3 DEF DeferralHonoured, States
<1>3. CASE ~(st[p] = "syncing" /\ sync[p] = {q})
  <2>1. st' = st
    BY <1>3 DEF SyncNext
  <2>3. DeferralEnds'
    BY <1>1, <1>3, <2>1 DEF DeferralEnds
  <2>4. QED
    BY <1>1, <2>1, <2>3 DEF DeferralHonoured
<1>4. QED
  BY <1>2, <1>3

LEMMA DeferralHandleEOR ==
    ASSUME DeferralInv, NEW p \in Peers, HandleEOR(p)
    PROVE  DeferralInv'
<1> USE PropagationAssumption DEF DeferralInv
<1>1. /\ eor' = [eor EXCEPT ![p] = TRUE] /\ heard' = heard \cup {p}
      /\ UNCHANGED <<st, restarting, timer, expired>>
      /\ sync[p] = {} /\ p \in Graceful
  BY DEF HandleEOR, Idle
<1>2. CASE restarting[p] /\ \A q \in Peers \ {p} : receivedAllEOR(q)
  <2>1. sync' = [sync EXCEPT ![p] = Peers]
    BY <1>2 DEF HandleEOR
  <2>2. Graceful \subseteq heard'
    BY <1>1, <1>2 DEF receivedAllEOR
  <2>3. QED
    BY <1>1, <2>1, <2>2 DEF DeferralHonoured, DeferralEnds
<1>3. CASE ~(restarting[p] /\ \A q \in Peers \ {p} : receivedAllEOR(q))
  <2>1. sync' = sync
    BY <1>3 DEF HandleEOR
  <2>2. QED
    BY <1>1, <2>1 DEF DeferralHonoured, DeferralEnds
<1>4. QED
  BY <1>2, <1>3

LEMMA DeferralExpiredStep ==
    ASSUME DeferralInv, NEW p \in Peers, DeferralExpired(p)
    PROVE  DeferralInv'
<1> USE PropagationAssumption DEF DeferralInv
<1>1. /\ timer' = [timer EXCEPT ![p] = FALSE]
      /\ expired' = expired \cup {p}
      /\ UNCHANGED <<st, sync, eor, heard>>
      /\ st[p] \in {"down", "up"}
  BY DEF DeferralExpired, Management
<1>2. CASE st[p] = "up" /\ restarting[p]
  <2>1. restarting' = [restarting EXCEPT ![p] = FALSE]
    BY <1>2 DEF DeferralExpired
  <2>2. QED
    BY <1>1, <2>1 DEF DeferralHonoured, DeferralEnds
<1>3. CASE ~(st[p] = "up" /\ restarting[p])
  <2>1. restarting' = restarting
    BY <1>3 DEF DeferralExpired
  <2>2. QED
    BY <1>1, <1>3, <2>1 DEF DeferralHonoured, DeferralEnds
<1>4. QED
  BY <1>2, <1>3

LEMMA DeferralPeerDown ==
    ASSUME DeferralInv, NEW p \in Peers, PeerDown(p)
    PROVE  DeferralInv'
BY PropagationAssumption
   DEF PeerDown, DeferralInv, DeferralHonoured, DeferralEnds, States

LEMMA DeferralNext == DeferralInv /\ [Next]_vars => DeferralInv'
<1> SUFFICES ASSUME DeferralInv, [Next]_vars PROVE DeferralInv'
  OBVIOUS
<1>t. st \in [Peers -> States]
  BY DEF DeferralInv
<1>1. CASE UNCHANGED vars
  BY <1>1, <1>t, DeferralFrame DEF vars, grVars
<1>2. ASSUME NEW a \in Attrs \cup {None}, LocalPath(a) PROVE DeferralInv'
  BY <1>2, <1>t, DeferralFrame DEF LocalPath, grVars
<1>3. ASSUME NEW R \in Policies, SetPolicy(R) PROVE DeferralInv'
  BY <1>3, <1>t, DeferralFrame DEF SetPolicy, grVars
<1>4. ASSUME NEW p \in Peers, Neighbor(p) PROVE DeferralInv'
  <2>1. ASSUME NEW a \in Attrs \cup {None}, HandleUpdate(p, a) PROVE DeferralInv'
    BY <2>1, <1>t, DeferralFrame DEF HandleUpdate, grVars
  <2>2. ASSUME NEW bit \in BOOLEAN, Establish(p, bit) PROVE DeferralInv'
    BY <2>2, DeferralEstablish
  <2>3. CASE Store(p)
    BY <2>3, <1>t, DeferralFrame DEF Store, grVars, States
  <2>4. CASE HandleEOR(p)
    BY <2>4, DeferralHandleEOR
  <2>5. CASE handleRouteRefresh(p)
    BY <2>5, <1>t, DeferralFrame DEF handleRouteRefresh, grVars
  <2>6. ASSUME NEW q \in Peers, SyncNext(p, q) PROVE DeferralInv'
    BY <2>6, DeferralSyncNext
  <2>7. CASE PeerDown(p)
    BY <2>7, DeferralPeerDown
  <2>8. CASE resetAdvertisedRoutes(p)
    BY <2>8, <1>t, DeferralFrame DEF resetAdvertisedRoutes, grVars, States
  <2>9. CASE dropAdjRIBIn(p)
    BY <2>9, <1>t, DeferralFrame DEF dropAdjRIBIn, grVars, States
  <2>10. ASSUME NEW a \in Stale \cup {None}, RestartFailed(p, a) PROVE DeferralInv'
    BY <2>10, <1>t, DeferralFrame DEF RestartFailed, grVars
  <2>11. CASE softResetOut(p)
    BY <2>11, <1>t, DeferralFrame DEF softResetOut, grVars
  <2>12. CASE DeferralExpired(p)
    BY <2>12, DeferralExpiredStep
  <2>13. CASE Visit(p)
    <3>1. /\ UNCHANGED <<grVars, sync>>
          /\ st' = [q \in Peers |-> IF walk' = NoWalk /\ q = walk.by /\ st[q] = "dropping"
                                    THEN "down" ELSE st[q]]
      BY <2>13 DEF Visit
    <3>2. st' \in [Peers -> States] /\ \A q \in Peers : st'[q] = st[q] \/ st'[q] = "down"
      BY <3>1, <1>t DEF States
    <3>3. QED
      BY <3>1, <3>2, DeferralFrame
  <2>14. QED
    BY <1>4, <2>1, <2>2, <2>3, <2>4, <2>5, <2>6, <2>7, <2>8, <2>9, <2>10, <2>11, <2>12, <2>13
       DEF Neighbor
<1>5. QED
  BY <1>1, <1>2, <1>3, <1>4 DEF Next, Operator

\* For any neighbors and any order of session ends, returns, End-of-RIBs and
\* timers, a restarting server defers towards a graceful neighbor until every
\* graceful neighbor has been heard or the timer of that neighbor expires
\* (receivedAllEOR, server.go).
THEOREM DeferralHonouredCorrect == Spec => []DeferralHonoured
<1>1. DeferralInv => DeferralHonoured
  BY DEF DeferralInv
<1>2. QED
  BY <1>1, DeferralInit, DeferralNext, PTL DEF Spec

\* A neighbor to which the server defers always has a timer of its own session
\* or a dump under way that will end the deferral.
THEOREM DeferralEndsCorrect == Spec => []DeferralEnds
<1>1. DeferralInv => DeferralEnds
  BY DEF DeferralInv
<1>2. QED
  BY <1>1, DeferralInit, DeferralNext, PTL DEF Spec

----------------------------------------------------------------------------
(* The first path of a list *)

\* Among any paths of the list one is at least as good as all: a smallest set
\* of sources without such a path would have one.
LEMMA BestExists ==
    ASSUME NEW k \in [Sources -> Nat], NEW S \in SUBSET Sources, S # {}
    PROVE  \E s \in S : \A t \in S : Better(k, s, t)
<1> USE PropagationAssumption
<1> DEFINE Bad == {T \in SUBSET Sources : T # {} /\ ~\E s \in T : \A t \in T : Better(k, s, t)}
<1>1. IsFiniteSet(Sources)
  BY FS_AddElement DEF Sources
<1>2. IsWellFoundedOn(StrictSubsetOrdering(Sources), SUBSET Sources)
  <2>1. FiniteSubsetsOf(Sources) = SUBSET Sources
    BY <1>1, FS_FiniteSubsetsOfFinite
  <2>2. IsWellFoundedOn(StrictSubsetOrdering(Sources), FiniteSubsetsOf(Sources))
    BY FS_StrictSubsetOrderingWellFounded
  <2>3. QED
    BY <2>1, <2>2, Zenon
<1>3. SUFFICES ASSUME Bad # {} PROVE FALSE
  OBVIOUS
<1>4. PICK T \in Bad : \A U \in Bad : ~(<<U, T>> \in StrictSubsetOrdering(Sources))
  <2> HIDE DEF Bad
  <2>1. Bad \subseteq SUBSET Sources
    BY DEF Bad
  <2>2. QED
    BY <1>2, <1>3, <2>1, WFMin
<1>5. PICK x \in T : TRUE
  BY <1>4
<1>6. \A s, t \in Sources : Better(k, s, t) \/ Better(k, t, s)
  BY DEF Better
<1>7. \A s, t, u \in Sources : Better(k, s, t) /\ Better(k, t, u) => Better(k, s, u)
  BY DEF Better
<1>8. CASE T = {x}
  BY <1>4, <1>6, <1>8
<1>9. CASE T # {x}
  <2>1. T \ {x} \in SUBSET Sources /\ T \ {x} # {} /\ T \ {x} \subseteq T /\ T \ {x} # T
    BY <1>4, <1>5, <1>9
  <2>2. <<T \ {x}, T>> \in StrictSubsetOrdering(Sources)
    BY <1>4, <2>1 DEF StrictSubsetOrdering
  <2>3. PICK m \in T \ {x} : \A t \in T \ {x} : Better(k, m, t)
    BY <1>4, <2>1, <2>2
  <2>4. CASE Better(k, m, x)
    BY <1>4, <2>3, <2>4
  <2>5. CASE Better(k, x, m)
    <3>1. \A t \in T : Better(k, x, t)
      BY <1>4, <1>5, <1>6, <1>7, <2>3, <2>5
    <3>2. QED
      BY <1>4, <1>5, <3>1
  <2>6. QED
    BY <1>4, <1>5, <1>6, <2>3, <2>4, <2>5
<1>10. QED
  BY <1>8, <1>9

----------------------------------------------------------------------------
(* Paths *)

\* Paths that may be sent: an announcement has an attribute.
Paths == {x \in [src : Sources, attr : Attrs \cup {None}, withdraw : BOOLEAN] :
             x.withdraw \/ x.attr # None}

LEMMA NoPathIsPath == NoPath \in Paths
BY DEF NoPath, Path, Paths, Sources

LEMMA PathIsPath ==
    ASSUME NEW s \in Sources, NEW a \in Attrs \cup {None}, NEW w \in BOOLEAN, w \/ a # None
    PROVE  Path(s, a, w) \in Paths /\ Path(s, a, w).src = s
BY DEF Path, Paths

LEMMA WithdrawIsPath ==
    ASSUME NEW x \in Paths
    PROVE  Withdraw(x) \in Paths
BY Zenon DEF Withdraw, Paths

LEMMA FirstIsPath ==
    ASSUME NEW k \in [Sources -> Attrs \cup {None}], NEW S \in SUBSET Has(k), S # {}
    PROVE  First(k, S) \in Paths /\ First(k, S).src \in S /\ ~First(k, S).withdraw
<1> DEFINE s == CHOOSE s \in S : \A t \in S : Better(k, s, t)
<1>1. k \in [Sources -> Nat] /\ S \in SUBSET Sources
  <2>1. Attrs \cup {None} \subseteq Nat
    BY PropagationAssumption DEF None
  <2>2. QED
    BY <2>1 DEF Has
<1>2. s \in S
  BY <1>1, BestExists
<1>3. First(k, S) = Path(s, k[s], FALSE)
  BY DEF First
<1> HIDE DEF s
<1>4. s \in Sources /\ k[s] \in Attrs \cup {None} /\ k[s] # None
  BY <1>1, <1>2 DEF Has
<1>5. Path(s, k[s], FALSE) \in Paths
  BY <1>4, PathIsPath, Zenon
<1>6. QED
  BY <1>2, <1>3, <1>5 DEF Path

LEMMA BestIsPath ==
    ASSUME NEW k \in [Sources -> Attrs \cup {None}]
    PROVE  GetBestPath(k) \in Paths
BY NoPathIsPath, FirstIsPath DEF GetBestPath

LEMMA ChangesArePaths ==
    ASSUME NEW k \in [Sources -> Attrs \cup {None}], NEW l \in [Sources -> Attrs \cup {None}]
    PROVE  GetChanges(k, l).best \in Paths /\ GetChanges(k, l).old \in Paths
<1> DEFINE o == GetBestPath(k)
<1> DEFINE b == GetBestPath(l)
<1>1. o \in Paths /\ b \in Paths /\ Withdraw(o) \in Paths /\ NoPath \in Paths
  BY BestIsPath, WithdrawIsPath, NoPathIsPath
<1>2. GetChanges(k, l) = [best |-> IF b = o THEN NoPath
                                    ELSE IF b = NoPath THEN Withdraw(o)
                                    ELSE b,
                           old |-> o]
  BY DEF GetChanges
<1> HIDE DEF o, b
<1>3. QED
  BY <1>1, <1>2

\* Every filter passes a path on, or takes it or the old one back, or drops it.
LEMMA FilterOutcome ==
    ASSUME NEW p \in Peers, NEW x \in Paths, NEW old \in Paths
    PROVE  filterpath(p, x, old) \in {x, Withdraw(x), Withdraw(old), NoPath}
<1> DEFINE Outcomes == {x, Withdraw(old), NoPath}
           y == prePolicyFilterpath(p, x, old)
           z == IF y = NoPath \/ ApplyPolicy(y) # NoPath THEN y
                ELSE IF old # NoPath /\ ApplyPolicy(old) # NoPath THEN Withdraw(old)
                ELSE NoPath
<1>1. filterPathFromSourcePeer(p, x, old) \in Outcomes
  BY DEF filterPathFromSourcePeer
<1>2. \A v \in Outcomes : ASLoop(p, v, old) \in Outcomes
  BY DEF ASLoop
<1>3. y \in Outcomes
  BY <1>1, <1>2 DEF prePolicyFilterpath
<1>4. z \in Outcomes
  BY <1>3
<1>5. filterpath(p, x, old) = postFilterpath(p, z)
  BY DEF filterpath
<1>6. Withdraw(old).withdraw
  BY Zenon DEF Withdraw, Paths
<1>7. postFilterpath(p, x) \in {x, Withdraw(x)}
  BY DEF postFilterpath
<1>8. postFilterpath(p, Withdraw(old)) = Withdraw(old) /\ postFilterpath(p, NoPath) = NoPath
  BY <1>6 DEF postFilterpath
<1> HIDE DEF z
<1>9. QED
  BY <1>4, <1>5, <1>7, <1>8, Zenon

LEMMA FilterIsPath ==
    ASSUME NEW p \in Peers, NEW x \in Paths, NEW old \in Paths
    PROVE  filterpath(p, x, old) \in Paths
BY FilterOutcome, WithdrawIsPath, NoPathIsPath

----------------------------------------------------------------------------
(* The Loc-RIB and the walk over the neighbors *)

KnownInv ==
    /\ known \in [Sources -> Attrs \cup {None}]
    /\ rejects \subseteq Attrs
    /\ walk = NoWalk \/ walk \in [by : Sources, new : Paths, best : Paths, old : Paths,
                                  todo : SUBSET Peers]

LEMMA BeginKnown ==
    ASSUME KnownInv, NEW s \in Sources, NEW a \in Attrs \cup {None}, Begin(s, a),
           UNCHANGED rejects
    PROVE  KnownInv'
<1> DEFINE new == Path(s, IF a = None THEN known[s] ELSE a, a = None)
<1>1. known' \in [Sources -> Attrs \cup {None}]
  BY DEF Begin, KnownInv
<1>2. new \in Paths
  BY PathIsPath, Zenon DEF KnownInv
<1>3. GetChanges(known, known').best \in Paths /\ GetChanges(known, known').old \in Paths
  BY <1>1, ChangesArePaths DEF KnownInv
<1>4. walk' = [by |-> s, new |-> new, best |-> GetChanges(known, known').best,
               old |-> GetChanges(known, known').old, todo |-> Peers]
  BY DEF Begin
<1> HIDE DEF new
<1>5. QED
  BY <1>1, <1>2, <1>3, <1>4 DEF KnownInv

LEMMA KnownNext == KnownInv /\ [Next]_vars => KnownInv'
<1> SUFFICES ASSUME KnownInv, [Next]_vars PROVE KnownInv'
  OBVIOUS
<1>1. UNCHANGED <<known, rejects, walk>> => KnownInv'
  BY DEF KnownInv
<1>2. ASSUME NEW a \in Attrs \cup {None}, LocalPath(a) PROVE KnownInv'
  BY <1>2, BeginKnown DEF LocalPath, Sources
<1>3. ASSUME NEW R \in Policies, SetPolicy(R) PROVE KnownInv'
  BY <1>3, PropagationAssumption DEF SetPolicy, KnownInv
<1>4. ASSUME NEW p \in Peers, Neighbor(p) PROVE KnownInv'
  <2> p \in Sources
    BY DEF Sources
  <2>1. ASSUME NEW a \in Attrs \cup {None}, HandleUpdate(p, a) PROVE KnownInv'
    BY <2>1, BeginKnown DEF HandleUpdate
  <2>2. CASE dropAdjRIBIn(p)
    BY <2>2, <1>1, BeginKnown DEF dropAdjRIBIn
  <2>3. ASSUME NEW a \in Stale \cup {None}, RestartFailed(p, a) PROVE KnownInv'
    BY <2>3, PropagationAssumption, BeginKnown DEF RestartFailed
  <2>4. CASE Visit(p)
    <3>1. /\ walk # NoWalk /\ UNCHANGED <<known, rejects>>
          /\ walk' = IF walk.todo = {p} THEN NoWalk ELSE [walk EXCEPT !.todo = @ \ {p}]
      BY <2>4, SMTT(30) DEF Visit
    <3>2. QED
      BY <3>1 DEF KnownInv
  <2>5. CASE \/ \E bit \in BOOLEAN : Establish(p, bit)
             \/ Store(p) \/ HandleEOR(p) \/ handleRouteRefresh(p)
             \/ \E q \in Peers : SyncNext(p, q)
             \/ PeerDown(p) \/ resetAdvertisedRoutes(p)
             \/ softResetOut(p) \/ DeferralExpired(p)
    BY <2>5, <1>1, Zenon DEF Establish, Store, HandleEOR, handleRouteRefresh, SyncNext, PeerDown,
       resetAdvertisedRoutes, softResetOut, DeferralExpired
  <2>6. QED
    BY <1>4, <2>1, <2>2, <2>3, <2>4, <2>5 DEF Neighbor
<1>5. QED
  BY <1>1, <1>2, <1>3, <1>4 DEF Next, Operator, vars

----------------------------------------------------------------------------
(* What was sent, and what the neighbors hold *)

Gaps == {"window", "policy", "early", "deferred", "flagged", "replaced", "stale"}

OutInv ==
    /\ sent \in [Peers -> SUBSET Slots]
    /\ view \in [Peers -> [Slots -> Attrs \cup {None}]]
    /\ held \in [Peers -> SUBSET Sources]
    /\ gap \in [Peers -> SUBSET Gaps]
    /\ \A p \in Peers : /\ Holds(p) \subseteq sent[p]
                        /\ gap[p] \cap {"early", "stale"} = {} => sent[p] = Holds(p)

\* A step may only add these two.
EarlyStays ==
    /\ gap' \in [Peers -> SUBSET Gaps]
    /\ \A q \in Peers : gap[q] \cap {"early", "stale"} \subseteq gap'[q]

Announcements == {x \in Paths : ~x.withdraw}

LEMMA SlotIsSlot ==
    ASSUME NEW p \in Peers, NEW x \in Paths
    PROVE  Slot(p, x.src) \in Slots
BY DEF Slot, Slots, Paths

\* Send changes what is recorded and what the neighbor holds in the same way.
LEMMA SendKeeps ==
    ASSUME OutInv, NEW p \in Peers, NEW A \in SUBSET Announcements, NEW W \in SUBSET Paths,
           Send(p, A, W), held' \in [Peers -> SUBSET Sources], EarlyStays
    PROVE  OutInv'
<1> DEFINE SA == {Slot(p, x.src) : x \in A}
<1> DEFINE SW == {Slot(p, x.src) : x \in W}
<1> DEFINE v == [i \in Slots |->
                   IF \E x \in A : Slot(p, x.src) = i
                   THEN (CHOOSE x \in A : Slot(p, x.src) = i).attr
                   ELSE IF \E x \in W : Slot(p, x.src) = i THEN None
                   ELSE view[p][i]]
<1>0. /\ sent \in [Peers -> SUBSET Slots]
      /\ view \in [Peers -> [Slots -> Attrs \cup {None}]]
  BY DEF OutInv
<1>1. SA \subseteq Slots /\ SW \subseteq Slots
  BY SlotIsSlot DEF Announcements
<1>2. sent' = [sent EXCEPT ![p] = (sent[p] \ SW) \cup SA]
  BY <1>0 DEF Send
<1>3. view' = [view EXCEPT ![p] = v]
  BY <1>0 DEF Send
<1>4. \A i \in Slots : i \in SA => v[i] \in Attrs /\ v[i] # None
  <2> TAKE i \in Slots
  <2> HAVE i \in SA
  <2>1. PICK x \in A : Slot(p, x.src) = i
    OBVIOUS
  <2> DEFINE y == CHOOSE y \in A : Slot(p, y.src) = i
  <2>2. y \in A
    BY <2>1
  <2>3. v[i] = y.attr
    BY <2>1
  <2> HIDE DEF y, v
  <2>4. QED
    BY <2>2, <2>3 DEF Announcements, Paths
<1>5. \A i \in Slots : i \notin SA /\ i \in SW => v[i] = None
  OBVIOUS
<1>6. \A i \in Slots : i \notin SA /\ i \notin SW => v[i] = view[p][i]
  OBVIOUS
<1>7. v \in [Slots -> Attrs \cup {None}]
  <2>1. \A i \in Slots : v[i] \in Attrs \cup {None}
    <3> HIDE DEF v, SA, SW
    <3>1. QED
      BY <1>0, <1>4, <1>5, <1>6
  <2>2. v = [i \in Slots |-> v[i]]
    OBVIOUS
  <2> HIDE DEF v
  <2>3. QED
    BY <2>1, <2>2
<1> HIDE DEF v, SA, SW
<1>8. /\ sent' \in [Peers -> SUBSET Slots]
      /\ view' \in [Peers -> [Slots -> Attrs \cup {None}]]
  BY <1>0, <1>1, <1>2, <1>3, <1>7
<1>9. Holds(p)' = (Holds(p) \ SW) \cup SA
  BY <1>0, <1>1, <1>3, <1>4, <1>5, <1>6 DEF Holds
<1>10. sent'[p] = (sent[p] \ SW) \cup SA
  BY <1>0, <1>2
<1>11. \A q \in Peers \ {p} : Holds(q)' = Holds(q) /\ sent'[q] = sent[q]
  BY <1>0, <1>2, <1>3 DEF Holds
<1>12. ASSUME NEW q \in Peers
       PROVE  /\ Holds(q)' \subseteq sent'[q]
              /\ gap'[q] \cap {"early", "stale"} = {} => sent'[q] = Holds(q)'
  <2>1. /\ Holds(q) \subseteq sent[q]
        /\ gap'[q] \cap {"early", "stale"} = {} => sent[q] = Holds(q)
    BY DEF OutInv, EarlyStays
  <2>2. CASE q = p
    BY <1>9, <1>10, <2>1, <2>2, Zenon
  <2>3. CASE q # p
    BY <1>11, <2>1, <2>3
  <2>4. QED
    BY <2>2, <2>3
<1>13. QED
  BY <1>8, <1>12 DEF OutInv, EarlyStays

LEMMA SameKeeps ==
    ASSUME OutInv, UNCHANGED <<sent, view>>, held' \in [Peers -> SUBSET Sources], EarlyStays
    PROVE  OutInv'
BY DEF OutInv, EarlyStays, Holds

\* Gap keeps what it is given.
LEMMA GapKeeps ==
    ASSUME OutInv, NEW p \in Peers, NEW G \in SUBSET Gaps, Gap(p, G),
           gap[p] \cap {"early", "stale"} \subseteq G
    PROVE  EarlyStays
BY Zenon DEF OutInv, EarlyStays, Gap, Gaps

LEMMA PossibleBestPaths ==
    ASSUME KnownInv, NEW p \in Peers
    PROVE  PossibleBest(p) \subseteq Announcements
<1>1. ASSUME NEW s \in Has(known) PROVE Path(s, known[s], FALSE) \in Announcements
  <2>1. s \in Sources /\ known[s] \in Attrs \cup {None} /\ known[s] # None
    BY DEF Has, KnownInv
  <2>2. Path(s, known[s], FALSE) \in Paths
    BY <2>1, PathIsPath, Zenon
  <2>3. QED
    BY <2>2 DEF Path, Announcements
<1>2. GetBestPath(known) # NoPath => GetBestPath(known) \in Announcements
  BY FirstIsPath DEF GetBestPath, KnownInv, Announcements
<1>3. QED
  BY <1>1, <1>2, Zenon DEF PossibleBest

LEMMA PassedKeeps ==
    ASSUME OutInv, KnownInv, NEW p \in Peers, NEW W \in SUBSET PossibleBest(p),
           Send(p, Passed(p), W), held' = held, EarlyStays
    PROVE  OutInv'
<1>1. Passed(p) \in SUBSET Announcements /\ W \in SUBSET Paths
  BY PossibleBestPaths DEF Passed, Announcements
<1>2. QED
  BY <1>1, SendKeeps, Zenon DEF OutInv

LEMMA DumpKeeps ==
    ASSUME OutInv, KnownInv, NEW p \in Peers, Dump(p), EarlyStays
    PROVE  OutInv'
<1>1. TakenBack(p) \in SUBSET PossibleBest(p)
  BY Zenon DEF TakenBack
<1>2. QED
  BY <1>1, PassedKeeps, Zenon DEF Dump

LEMMA VisitBestKeeps ==
    ASSUME OutInv, NEW p \in Peers, walk.best \in Paths, walk.old \in Paths,
           VisitBest(p), EarlyStays
    PROVE  OutInv'
<1> DEFINE x == filterpath(p, walk.best, walk.old)
<1>1. x \in Paths
  BY FilterIsPath
<1>2. held' = held
  BY DEF VisitBest
<1>3. \/ UNCHANGED <<sent, view>>
      \/ Send(p, {}, {x})
      \/ ~x.withdraw /\ Send(p, {x}, {})
  BY DEF VisitBest
<1> HIDE DEF x
<1>4. held' \in [Peers -> SUBSET Sources]
  BY <1>2 DEF OutInv
<1>5. CASE UNCHANGED <<sent, view>>
  BY <1>4, <1>5, SameKeeps
<1>6. CASE Send(p, {}, {x})
  <2>1. {} \in SUBSET Announcements /\ {x} \in SUBSET Paths
    BY <1>1
  <2>2. QED
    BY <1>4, <1>6, <2>1, SendKeeps
<1>7. CASE ~x.withdraw /\ Send(p, {x}, {})
  <2>1. {x} \in SUBSET Announcements /\ {} \in SUBSET Paths
    BY <1>1, <1>7 DEF Announcements
  <2>2. QED
    BY <1>4, <1>7, <2>1, SendKeeps
<1>8. QED
  BY <1>3, <1>5, <1>6, <1>7

\* The path that takes the place of a withdrawn one.
LEMMA PromotedIsPath ==
    ASSUME KnownInv, NEW p \in Peers, Waiting(p) # {}
    PROVE  Promoted(p) \in Paths
<1>1. Waiting(p) \in SUBSET Has(known) /\ known \in [Sources -> Attrs \cup {None}]
  BY Zenon DEF Waiting, KnownInv
<1>2. First(known, Waiting(p)) \in Paths
  BY <1>1, FirstIsPath, Zenon
<1>3. QED
  BY <1>2, FilterIsPath, NoPathIsPath, Zenon DEF Promoted

LEMMA VisitWithdrawKeeps ==
    ASSUME OutInv, KnownInv, NEW p \in Peers, walk.new \in Paths,
           VisitWithdraw(p), EarlyStays
    PROVE  OutInv'
<1> DEFINE x == filterpath(p, walk.new, NoPath)
           next == Promoted(p)
           A == {next} \ {Withdraw(next)}
           W == {x} \cup ({next} \cap {Withdraw(next)})
<1>1. x \in Paths
  BY FilterIsPath, NoPathIsPath
<1>2. Waiting(p) # {} => next \in Paths
  BY PromotedIsPath
<1>3. \/ UNCHANGED <<sent, held, view>>
      \/ held' = [held EXCEPT ![p] = @ \ {x.src}] /\ UNCHANGED <<sent, view>>
      \/ Send(p, {}, {x}) /\ UNCHANGED held
      \/ Waiting(p) # {} /\ Send(p, A, W) /\ held' = [held EXCEPT ![p] = @ \ {next.src}]
  BY Zenon DEF VisitWithdraw, outVars
<1>4. Waiting(p) # {} => A \in SUBSET Announcements /\ W \in SUBSET Paths
  <2> HIDE DEF next, x
  <2>1. next \in Paths /\ next.withdraw => Withdraw(next) = next
    BY Zenon DEF Withdraw, Paths
  <2>2. QED
    BY <1>1, <1>2, <2>1 DEF Announcements
<1> HIDE DEF x, next, A, W
<1>5. held \in [Peers -> SUBSET Sources]
  BY DEF OutInv
<1>6. held' \in [Peers -> SUBSET Sources]
  BY <1>3, <1>5
<1>7. CASE UNCHANGED <<sent, view>>
  BY <1>6, <1>7, SameKeeps
<1>8. CASE Send(p, {}, {x})
  <2>1. {} \in SUBSET Announcements /\ {x} \in SUBSET Paths
    BY <1>1
  <2>2. QED
    BY <1>6, <1>8, <2>1, SendKeeps
<1>9. CASE Waiting(p) # {} /\ Send(p, A, W)
  BY <1>4, <1>6, <1>9, SendKeeps
<1>10. QED
  BY <1>3, <1>7, <1>8, <1>9

\* A stale path is withdrawn: nothing changes for a neighbor that was not sent
\* it, and the record of one that was is no longer what it holds.
LEMMA TakeBackKeeps ==
    ASSUME OutInv, NEW p \in Peers, NEW s \in Slots, EarlyStays, held' = held, sent' = sent,
           view' = [view EXCEPT ![p][s] = None], s \in sent[p] => "stale" \in gap'[p]
    PROVE  OutInv'
<1>1. view \in [Peers -> [Slots -> Attrs \cup {None}]]
  BY DEF OutInv
<1>2. view' = [view EXCEPT ![p] = [view[p] EXCEPT ![s] = None]]
  BY <1>1
<1>3. view' \in [Peers -> [Slots -> Attrs \cup {None}]]
  BY <1>1, <1>2
<1>4. Holds(p)' = Holds(p) \ {s}
  BY <1>1, <1>2 DEF Holds
<1>5. \A q \in Peers \ {p} : Holds(q)' = Holds(q)
  BY <1>1, <1>2 DEF Holds
<1>6. ASSUME NEW q \in Peers
      PROVE  /\ Holds(q)' \subseteq sent[q]
             /\ gap'[q] \cap {"early", "stale"} = {} => sent[q] = Holds(q)'
  <2>1. /\ Holds(q) \subseteq sent[q]
        /\ gap'[q] \cap {"early", "stale"} = {} => sent[q] = Holds(q)
    BY DEF OutInv, EarlyStays
  <2>2. QED
    BY <1>4, <1>5, <2>1
<1>7. QED
  BY <1>3, <1>6, Zenon DEF OutInv, EarlyStays

LEMMA VisitAnnounceKeeps ==
    ASSUME OutInv, NEW p \in AddPath, walk.new \in Announcements, VisitAnnounce(p), EarlyStays,
           Misplaced(p) => "stale" \in gap'[p]
    PROVE  OutInv'
<1> DEFINE x == filterpath(p, walk.new, NoPath)
<1>0. p \in Peers /\ walk.new \in Paths /\ ~walk.new.withdraw
  BY PropagationAssumption DEF Announcements
<1>1. x \in {NoPath, walk.new, Withdraw(walk.new)}
  <2>1. x \in {walk.new, Withdraw(walk.new), Withdraw(NoPath), NoPath}
    BY <1>0, FilterOutcome, NoPathIsPath
  <2>2. Withdraw(NoPath) = NoPath
    <3>1. NoPath.withdraw = TRUE
      BY DEF NoPath, Path
    <3>2. QED
      BY <3>1, NoPathIsPath DEF Withdraw, Paths
  <2>3. QED
    BY <2>1, <2>2
<1>2. Withdraw(walk.new).withdraw /\ Withdraw(walk.new).src = walk.new.src /\ walk.new.src \in Sources
  BY <1>0, Zenon DEF Withdraw, Paths
<1>3. \/ UNCHANGED <<sent, held, view>>
      \/ x # NoPath /\ SendNew(p, x)
      \/ x # NoPath /\ held' = [held EXCEPT ![p] = @ \cup {x.src}] /\ UNCHANGED <<sent, view>>
  BY DEF VisitAnnounce, outVars
<1>4. Misplaced(p) <=> walk.new.src \in sent[p] /\ x = Withdraw(walk.new)
  BY <1>0 DEF Misplaced
<1> HIDE DEF x
<1>5. held \in [Peers -> SUBSET Sources]
  BY <1>0 DEF OutInv
<1>6. held' \in [Peers -> SUBSET Sources]
  BY <1>1, <1>2, <1>3, <1>5 DEF SendNew
<1>7. CASE UNCHANGED <<sent, view>>
  BY <1>6, <1>7, SameKeeps
<1>8. CASE x # NoPath /\ SendNew(p, x) /\ x = walk.new
  <2>1. {x} \in SUBSET Announcements /\ {} \in SUBSET Paths
    BY <1>8
  <2>2. Send(p, {x}, {})
    BY <1>0, <1>8 DEF SendNew
  <2>3. QED
    BY <1>0, <1>6, <2>1, <2>2, SendKeeps
<1>9. CASE SendNew(p, x) /\ x = Withdraw(walk.new)
  <2>1. /\ view' = [view EXCEPT ![p][walk.new.src] = None] /\ sent' = sent /\ held' = held
        /\ walk.new.src \in Slots
    BY <1>2, <1>9 DEF SendNew, Slots
  <2>2. walk.new.src \in sent[p] => "stale" \in gap'[p]
    BY <1>4, <1>9
  <2>3. QED
    BY <1>0, <2>1, <2>2, TakeBackKeeps, Zenon
<1>10. QED
  BY <1>1, <1>3, <1>7, <1>8, <1>9

LEMMA VisitKeeps ==
    ASSUME OutInv, KnownInv, NEW p \in Peers, Visit(p)
    PROVE  OutInv'
<1>1. walk \in [by : Sources, new : Paths, best : Paths, old : Paths, todo : SUBSET Peers]
  BY DEF Visit, KnownInv
<1>2. CASE ~needToAdvertise(p)
  <2>1. /\ gap' = [gap EXCEPT ![p] = IF st[p] \in {"syncing", "storing"} THEN @ \cup {"window"} ELSE @]
        /\ UNCHANGED <<sent, held, view>>
    BY <1>2 DEF Visit, outVars
  <2>2. EarlyStays
    BY <2>1 DEF OutInv, EarlyStays, Gaps
  <2>3. QED
    BY <2>1, <2>2, SameKeeps DEF OutInv
<1>3. CASE needToAdvertise(p)
  <2>1. /\ IF p \notin AddPath THEN VisitBest(p)
           ELSE IF walk.new.withdraw THEN VisitWithdraw(p)
           ELSE VisitAnnounce(p)
        /\ Gap(p, gap[p] \cup {g \in {"replaced"} : Outdated(p)}
                         \cup {g \in {"stale"} : Misplaced(p)})
    BY <1>3 DEF Visit
  <2>2. EarlyStays /\ (Misplaced(p) => "stale" \in gap'[p])
    <3> DEFINE G == gap[p] \cup {g \in {"replaced"} : Outdated(p)}
                          \cup {g \in {"stale"} : Misplaced(p)}
    <3>1. G \in SUBSET Gaps /\ gap[p] \cap {"early", "stale"} \subseteq G
      BY DEF OutInv, Gaps
    <3>2. Misplaced(p) => "stale" \in G
      OBVIOUS
    <3>3. Gap(p, G)
      BY <2>1
    <3> HIDE DEF G
    <3>4. EarlyStays
      BY <3>1, <3>3, GapKeeps
    <3>5. G \subseteq gap'[p]
      BY <3>3 DEF Gap, OutInv
    <3>6. QED
      BY <3>2, <3>4, <3>5
  <2>3. ~walk.new.withdraw => walk.new \in Announcements
    BY <1>1 DEF Announcements
  <2>4. QED
    BY <1>1, <2>1, <2>2, <2>3, VisitBestKeeps, VisitWithdrawKeeps, VisitAnnounceKeeps
<1>4. QED
  BY <1>2, <1>3

LEMMA SoftResetKeeps ==
    ASSUME OutInv, KnownInv, NEW p \in Peers, softResetOut(p)
    PROVE  OutInv'
<1> DEFINE filtered == {x \in PossibleBest(p) : filterpath(p, x, NoPath) = NoPath}
           W == TakenBack(p) \cup {x \in filtered : Slot(p, x.src) \in sent[p]}
           G == (gap[p] \ {"policy"}) \cup {g \in {"deferred"} : restarting[p]}
<1>1. W \in SUBSET PossibleBest(p)
  BY DEF TakenBack
<1>2. Send(p, Passed(p), W) /\ held' = held /\ Gap(p, G)
  BY DEF softResetOut
<1>3. G \in SUBSET Gaps /\ gap[p] \cap {"early", "stale"} \subseteq G
  BY DEF OutInv, Gaps
<1> HIDE DEF W, G
<1>4. EarlyStays
  BY <1>2, <1>3, GapKeeps
<1>5. QED
  BY <1>1, <1>2, <1>4, PassedKeeps, ZenonT(30)

LEMMA SyncKeeps ==
    ASSUME OutInv, KnownInv, NEW p \in Peers, NEW q \in Peers, SyncNext(p, q)
    PROVE  OutInv'
<1> DEFINE G == gap[q] \cup {g \in {"early"} : q # p /\ st[q] # "up"}
<1>1. G \in SUBSET Gaps /\ gap[q] \cap {"early", "stale"} \subseteq G
  BY DEF OutInv, Gaps
<1>2. CASE q \in Graceful
  <2>1. Dump(q) /\ Gap(q, G)
    BY <1>2 DEF SyncNext
  <2> HIDE DEF G
  <2>2. QED
    BY <1>1, <2>1, GapKeeps, DumpKeeps
<1>3. CASE q \notin Graceful
  BY <1>3, SameKeeps DEF SyncNext, outVars, OutInv, EarlyStays
<1>4. QED
  BY <1>2, <1>3

LEMMA ResetKeeps ==
    ASSUME OutInv, NEW p \in Peers, resetAdvertisedRoutes(p)
    PROVE  OutInv'
<1>1. /\ sent' = [sent EXCEPT ![p] = {}]
      /\ held' = [held EXCEPT ![p] = {}]
      /\ view' = [view EXCEPT ![p] = [i \in Slots |-> None]]
      /\ gap' = [gap EXCEPT ![p] = {}]
  BY DEF resetAdvertisedRoutes
<1>2. /\ sent' \in [Peers -> SUBSET Slots]
      /\ view' \in [Peers -> [Slots -> Attrs \cup {None}]]
      /\ held' \in [Peers -> SUBSET Sources]
      /\ gap' \in [Peers -> SUBSET Gaps]
  BY <1>1 DEF OutInv
<1>3. Holds(p)' = {} /\ sent'[p] = {}
  BY <1>1 DEF OutInv, Holds
<1>4. \A q \in Peers \ {p} : Holds(q)' = Holds(q) /\ sent'[q] = sent[q] /\ gap'[q] = gap[q]
  BY <1>1, SMTT(30) DEF OutInv, Holds
<1>5. QED
  BY <1>2, <1>3, <1>4, Zenon DEF OutInv

LEMMA EstablishKeeps ==
    ASSUME OutInv, KnownInv, NEW p \in Peers, NEW bit \in BOOLEAN, Establish(p, bit)
    PROVE  OutInv'
<1>1. \/ Dump(p) /\ gap' = [gap EXCEPT ![p] = @ \ {"policy"}]
      \/ UNCHANGED <<sent, held, view, gap>>
  BY DEF Establish, outVars
<1>2. EarlyStays
  BY <1>1, ZenonT(30) DEF OutInv, EarlyStays
<1>3. QED
  BY <1>1, <1>2, DumpKeeps, SameKeeps DEF OutInv

LEMMA OutNext == OutInv /\ KnownInv /\ [Next]_vars => OutInv'
<1> SUFFICES ASSUME OutInv, KnownInv, [Next]_vars PROVE OutInv'
  OBVIOUS
<1>1. UNCHANGED <<sent, held, view, gap>> => OutInv'
  BY SameKeeps DEF OutInv, EarlyStays
<1>2. ASSUME NEW a \in Attrs \cup {None}, LocalPath(a) PROVE OutInv'
  BY <1>1, <1>2 DEF LocalPath, outVars
<1>3. ASSUME NEW R \in Policies, SetPolicy(R) PROVE OutInv'
  <2>1. EarlyStays
    BY <1>3 DEF SetPolicy, OutInv, EarlyStays, Gaps
  <2>2. QED
    BY <1>3, <2>1, SameKeeps DEF SetPolicy, outVars, OutInv
<1>4. ASSUME NEW p \in Peers, Neighbor(p) PROVE OutInv'
  <2>1. ASSUME NEW a \in Attrs \cup {None}, HandleUpdate(p, a) PROVE OutInv'
    BY <1>1, <2>1 DEF HandleUpdate, outVars
  <2>2. ASSUME NEW bit \in BOOLEAN, Establish(p, bit) PROVE OutInv'
    BY <2>2, EstablishKeeps
  <2>3. CASE handleRouteRefresh(p)
    <3> DEFINE G == gap[p] \cup {g \in {"deferred"} : restarting[p]}
    <3>1. G \in SUBSET Gaps /\ gap[p] \cap {"early", "stale"} \subseteq G
      BY DEF OutInv, Gaps
    <3>2. Dump(p) /\ Gap(p, G)
      BY <2>3 DEF handleRouteRefresh
    <3> HIDE DEF G
    <3>3. QED
      BY <3>1, <3>2, GapKeeps, DumpKeeps
  <2>4. ASSUME NEW q \in Peers, SyncNext(p, q) PROVE OutInv'
    BY <2>4, SyncKeeps
  <2>5. CASE resetAdvertisedRoutes(p)
    BY <2>5, ResetKeeps
  <2>6. CASE softResetOut(p)
    BY <2>6, SoftResetKeeps
  <2>7. CASE DeferralExpired(p)
    <3>1. /\ gap' = gap
          /\ (Send(p, Passed(p), {}) /\ held' = held) \/ UNCHANGED <<sent, held, view>>
      BY <2>7 DEF DeferralExpired, outVars
    <3>2. EarlyStays
      BY <3>1, SMTT(30) DEF EarlyStays, OutInv
    <3>3. QED
      BY <1>1, <3>1, <3>2, PassedKeeps
  <2>8. CASE Visit(p)
    BY <2>8, VisitKeeps
  <2>9. CASE \/ Store(p) \/ HandleEOR(p) \/ PeerDown(p) \/ dropAdjRIBIn(p)
             \/ \E a \in Stale \cup {None} : RestartFailed(p, a)
    BY <1>1, <2>9 DEF Store, HandleEOR, PeerDown, dropAdjRIBIn, RestartFailed, outVars
  <2>10. QED
    BY <1>4, <2>1, <2>2, <2>3, <2>4, <2>5, <2>6, <2>7, <2>8, <2>9, SMTT(30) DEF Neighbor
<1>5. QED
  BY <1>1, <1>2, <1>3, <1>4 DEF Next, Operator, vars, outVars

LEMMA OutInit == Init => OutInv /\ KnownInv
<1> SUFFICES ASSUME Init PROVE OutInv /\ KnownInv
  OBVIOUS
<1>1. KnownInv
  BY DEF Init, KnownInv
<1>2. \A p \in Peers : Holds(p) = {} /\ sent[p] = {}
  BY DEF Init, Holds
<1>3. QED
  BY <1>1, <1>2 DEF Init, OutInv

\* Whatever the neighbors, their kinds, the policies and send-max: sentPaths
\* never lacks a path a neighbor holds, and is exactly what it holds but for
\* the dump to a neighbor that has just gone down and the long-lived stale
\* paths that are withdrawn from an ADD-PATH neighbor without the record
\* (propagateUpdateToNeighbors, server.go:1634).
THEOREM BookkeepingCorrect == Spec => []Bookkeeping
<1>1. OutInv /\ KnownInv /\ DeferralInv => Bookkeeping
  BY DEF OutInv, KnownInv, DeferralInv, Bookkeeping, TypeOK, States, Gaps
<1>2. QED
  BY <1>1, OutInit, OutNext, KnownNext, DeferralInit, DeferralNext, PTL DEF Spec

----------------------------------------------------------------------------
(* What a neighbor may have *)

\* The rules that do not depend on the policy.
Internal(p, s) ==
    /\ isIBGPPeer(p) /\ s # Local /\ s \in Peers
    /\ isIBGPPeer(s) /\ Kind[s] # "client" /\ Kind[p] # "client"
Passes(p, s, a) == ~Internal(p, s) /\ Router[s] # Router[p] /\ a \notin Loops[p]
May(p, x) == x # NoPath /\ Passes(p, x.src, x.attr)

\* Whether a neighbor may be told of a path that is, or is not, stale.
Takes(p, a) == p \in Llgr \/ a \notin Stale

\* What a neighbor is due when x is the best path.
DueOf(p, x) == IF May(p, x) /\ x.attr \notin rejects /\ Takes(p, x.attr) THEN x.attr ELSE None

\* The internal neighbors are all route reflector clients or none is. With a
\* client and another internal neighbor, filterpath leaves the old best path
\* with the latter when the best path moves from the client to it.
OneKindOfInternal ==
    \/ \A p \in Peers : Kind[p] # "client"
    \/ \A p \in Peers : Kind[p] # "ibgp"

Bests == Announcements \cup {NoPath}

----------------------------------------------------------------------------
(* What the filters do *)

LEMMA NoPathFacts ==
    /\ NoPath \notin Announcements /\ NoPath.withdraw /\ NoPath.attr = None
    /\ Withdraw(NoPath) = NoPath
<1>1. NoPath.withdraw = TRUE /\ NoPath.attr = None
  BY DEF NoPath, Path
<1>2. QED
  BY <1>1, NoPathIsPath DEF Announcements, Withdraw, Paths

LEMMA WithdrawFacts ==
    ASSUME NEW x \in Paths
    PROVE  /\ Withdraw(x).src = x.src /\ Withdraw(x).attr = x.attr /\ Withdraw(x).withdraw
           /\ x.attr # None => Withdraw(x) # NoPath
  BY NoPathFacts DEF Withdraw, Paths

LEMMA SameAsIs ==
    ASSUME NEW p, NEW x
    PROVE  SameAs(p, x) <=> Internal(p, x.src)
  BY DEF SameAs, Internal

LEMMA PostIs ==
    ASSUME NEW p, NEW x, x # NoPath
    PROVE  /\ postFilterpath(p, x) = IF x.withdraw \/ Takes(p, x.attr) THEN x ELSE Withdraw(x)
           /\ postFilterpath(p, NoPath) = NoPath
  BY DEF postFilterpath, Takes

\* Without an old path, a path passes, is taken back or is dropped.
LEMMA FilterAlone ==
    ASSUME NEW p \in Peers, NEW x \in Paths, x.attr # None
    PROVE  filterpath(p, x, NoPath) =
               IF Passes(p, x.src, x.attr) /\ (x.withdraw \/ x.attr \notin rejects)
               THEN IF x.withdraw \/ Takes(p, x.attr) THEN x ELSE Withdraw(x)
               ELSE NoPath
<1>1. x # NoPath
  BY NoPathFacts
<1>2. prePolicyFilterpath(p, x, NoPath) = IF Passes(p, x.src, x.attr) THEN x ELSE NoPath
  BY <1>1, SameAsIs DEF prePolicyFilterpath, filterPathFromSourcePeer, ASLoop, Passes
<1>3. ApplyPolicy(x) = IF x.withdraw \/ x.attr \notin rejects THEN x ELSE NoPath
  BY DEF ApplyPolicy
<1>4. filterpath(p, x, NoPath) =
          postFilterpath(p, IF Passes(p, x.src, x.attr) /\ (x.withdraw \/ x.attr \notin rejects)
                            THEN x ELSE NoPath)
  BY <1>1, <1>2, <1>3 DEF filterpath
<1>5. QED
  BY <1>1, <1>4, PostIs, Zenon

LEMMA ExportableIs ==
    ASSUME KnownInv, NEW p \in Peers, NEW s \in Sources, known[s] # None
    PROVE  Exportable(p, s) <=>
               Passes(p, s, known[s]) /\ known[s] \notin rejects /\ Takes(p, known[s])
<1> DEFINE x == Path(s, known[s], FALSE)
<1>1. x \in Paths /\ x.src = s /\ x.attr = known[s] /\ ~x.withdraw
  <2>1. known[s] \in Attrs \cup {None}
    BY DEF KnownInv
  <2>2. x \in Paths
    BY <2>1, PathIsPath, Zenon
  <2>3. QED
    BY <2>2 DEF Path
<1>2. filterpath(p, x, NoPath) = IF Passes(p, s, known[s]) /\ known[s] \notin rejects
                                 THEN IF Takes(p, known[s]) THEN x ELSE Withdraw(x)
                                 ELSE NoPath
  <2> HIDE DEF x
  <2>1. QED
    BY <1>1, FilterAlone
<1>3. Exportable(p, s) <=> ~filterpath(p, x, NoPath).withdraw
  BY DEF Exportable
<1> HIDE DEF x
<1>4. QED
  BY <1>1, <1>2, <1>3, NoPathFacts, WithdrawFacts

LEMMA BestIsBest ==
    ASSUME NEW k \in [Sources -> Attrs \cup {None}]
    PROVE  LET b == GetBestPath(k) IN
           /\ b \in Bests
           /\ b # NoPath => b.src \in Sources /\ k[b.src] # None /\ b.attr = k[b.src]
<1>1. CASE Has(k) = {}
  BY <1>1 DEF GetBestPath, Bests
<1>2. CASE Has(k) # {}
  <2> DEFINE s == CHOOSE s \in Has(k) : \A t \in Has(k) : Better(k, s, t)
             b == First(k, Has(k))
  <2>1. b \in Paths /\ b.src \in Has(k) /\ ~b.withdraw
    BY <1>2, FirstIsPath
  <2>2. b = Path(s, k[s], FALSE)
    BY DEF First
  <2>3. b.attr = k[b.src]
    <3> HIDE DEF s
    <3>1. QED
      BY <2>2 DEF Path
  <2>4. GetBestPath(k) = b
    BY <1>2 DEF GetBestPath
  <2> HIDE DEF b
  <2>5. QED
    BY <2>1, <2>3, <2>4 DEF Has, Bests, Announcements
<1>3. QED
  BY <1>1, <1>2

LEMMA DueIs ==
    ASSUME KnownInv, NEW p \in Peers
    PROVE  Due(p) = DueOf(p, GetBestPath(known))
<1> DEFINE b == GetBestPath(known)
<1>1. b # NoPath => b.src \in Sources /\ known[b.src] # None /\ b.attr = known[b.src]
  BY BestIsBest DEF KnownInv
<1>2. Due(p) = IF b # NoPath /\ Exportable(p, b.src) THEN b.attr ELSE None
  BY DEF Due
<1> HIDE DEF b
<1>3. QED
  BY <1>1, <1>2, ExportableIs DEF b, DueOf, May

\* The change of the best path from o to n, as GetChanges reports it.
ChangeOf(o, n) == IF n = o THEN NoPath ELSE IF n = NoPath THEN Withdraw(o) ELSE n

\* The heart of InSync: a neighbor that held what it was due for o is sent what
\* makes that what it is due for n. Nothing is sent only if that is the same.
LEMMA ChangeOutcome ==
    ASSUME OneKindOfInternal, NEW p \in Peers, NEW o \in Bests, NEW n \in Bests,
           NEW x, x = filterpath(p, ChangeOf(o, n), o)
    PROVE  \/ x = NoPath /\ DueOf(p, o) = DueOf(p, n) /\ (May(p, o) => May(p, n))
           \/ x # NoPath /\ x.withdraw /\ DueOf(p, n) = None
           \/ x = n /\ n # NoPath /\ ~n.withdraw /\ May(p, n) /\ DueOf(p, n) = n.attr
<1> USE DEF Bests
<1>1. /\ o # NoPath => o \in Paths /\ o.src \in Sources /\ o.attr # None /\ ~o.withdraw
      /\ n # NoPath => n \in Paths /\ n.src \in Sources /\ n.attr # None /\ ~n.withdraw
  BY DEF Announcements, Paths
<1>2. /\ o # NoPath => /\ Withdraw(o) # NoPath /\ Withdraw(o).withdraw
                       /\ Withdraw(o).src = o.src /\ Withdraw(o).attr = o.attr
      /\ Withdraw(NoPath) = NoPath
  BY <1>1, WithdrawFacts, NoPathFacts
<1>p. \A y : y = NoPath \/ y.withdraw => postFilterpath(p, y) = y
  BY DEF postFilterpath
<1>3. CASE n = o
  BY <1>3, <1>p DEF ChangeOf, filterpath, prePolicyFilterpath
<1>4. CASE n # o /\ n = NoPath
  <2>1. x = filterpath(p, Withdraw(o), o) /\ o # NoPath
    BY <1>4 DEF ChangeOf
  <2>2. prePolicyFilterpath(p, Withdraw(o), o) = IF May(p, o) THEN Withdraw(o) ELSE NoPath
    BY <1>2, <2>1, SameAsIs
       DEF prePolicyFilterpath, filterPathFromSourcePeer, ASLoop, May, Passes
  <2>3. ApplyPolicy(Withdraw(o)) = Withdraw(o)
    BY <1>2, <2>1 DEF ApplyPolicy
  <2>4. x = IF May(p, o) THEN Withdraw(o) ELSE NoPath
    BY <1>2, <1>p, <2>1, <2>2, <2>3 DEF filterpath
  <2>5. QED
    BY <1>2, <1>4, <2>1, <2>4 DEF DueOf, May
<1>5. CASE n # o /\ n # NoPath
  <2>1. x = filterpath(p, n, o)
    BY <1>5 DEF ChangeOf
  <2>2. CASE Internal(p, n.src)
    <3>1. prePolicyFilterpath(p, n, o) =
              IF o # NoPath /\ (o.src = Local \/ (o.src # p /\ ~isIBGPPeer(o.src)))
              THEN Withdraw(o) ELSE NoPath
      BY <1>1, <1>5, <2>2, SameAsIs DEF prePolicyFilterpath
    <3>2. ~May(p, n)
      BY <2>2 DEF May, Passes
    <3>3. May(p, o) => o.src = Local \/ (o.src # p /\ ~isIBGPPeer(o.src))
      BY <1>1, <2>2, PropagationAssumption
         DEF OneKindOfInternal, May, Passes, Internal, isIBGPPeer, Sources
    <3>4. ApplyPolicy(Withdraw(o)) = Withdraw(o)
      BY <1>2, NoPathFacts DEF ApplyPolicy
    <3>5. x = prePolicyFilterpath(p, n, o)
      BY <1>2, <1>p, <2>1, <3>1, <3>4 DEF filterpath
    <3>6. QED
      BY <1>2, <3>1, <3>2, <3>3, <3>5 DEF DueOf, May
  <2>3. CASE ~Internal(p, n.src) /\ Router[n.src] = Router[p]
    <3>1. filterPathFromSourcePeer(p, n, o) =
              IF o # NoPath /\ o.src # p THEN Withdraw(o) ELSE NoPath
      BY <1>1, <1>5, <2>3 DEF filterPathFromSourcePeer
    <3>2. prePolicyFilterpath(p, n, o) =
              IF o # NoPath /\ o.src # p /\ o.attr \notin Loops[p] THEN Withdraw(o) ELSE NoPath
      BY <1>2, <1>5, <2>3, <3>1, SameAsIs DEF prePolicyFilterpath, ASLoop
    <3>3. ApplyPolicy(Withdraw(o)) = Withdraw(o)
      BY <1>2, NoPathFacts DEF ApplyPolicy
    <3>4. x = prePolicyFilterpath(p, n, o)
      BY <1>2, <1>p, <2>1, <3>2, <3>3 DEF filterpath
    <3>5. ~May(p, n)
      BY <2>3 DEF May, Passes
    <3>6. QED
      BY <1>2, <3>2, <3>4, <3>5 DEF DueOf, May, Passes
  <2>4. CASE ~Internal(p, n.src) /\ Router[n.src] # Router[p] /\ n.attr \in Loops[p]
    <3>1. prePolicyFilterpath(p, n, o) = IF o # NoPath THEN Withdraw(o) ELSE NoPath
      BY <1>1, <1>5, <2>4, SameAsIs DEF prePolicyFilterpath, filterPathFromSourcePeer, ASLoop
    <3>2. ApplyPolicy(Withdraw(o)) = Withdraw(o)
      BY <1>2, NoPathFacts DEF ApplyPolicy
    <3>3. x = prePolicyFilterpath(p, n, o)
      BY <1>2, <1>p, <2>1, <3>1, <3>2 DEF filterpath
    <3>4. ~May(p, n)
      BY <2>4 DEF May, Passes
    <3>5. QED
      BY <1>2, <3>1, <3>3, <3>4 DEF DueOf, May
  <2>5. CASE ~Internal(p, n.src) /\ Router[n.src] # Router[p] /\ n.attr \notin Loops[p]
    <3>1. prePolicyFilterpath(p, n, o) = n
      BY <1>1, <1>5, <2>5, SameAsIs DEF prePolicyFilterpath, filterPathFromSourcePeer, ASLoop
    <3>2. May(p, n)
      BY <1>5, <2>5 DEF May, Passes
    <3>3. CASE n.attr \notin rejects
      <4>1. x = postFilterpath(p, n)
        BY <1>1, <1>5, <2>1, <3>1, <3>3 DEF filterpath, ApplyPolicy
      <4>2. CASE Takes(p, n.attr)
        <5>1. x = n
          BY <1>5, <4>1, <4>2, PostIs
        <5>2. QED
          BY <1>1, <1>5, <3>2, <3>3, <4>2, <5>1 DEF DueOf
      <4>3. CASE ~Takes(p, n.attr)
        <5>1. x = Withdraw(n)
          BY <1>1, <1>5, <4>1, <4>3, PostIs
        <5>2. QED
          BY <1>1, <1>5, <4>3, <5>1, WithdrawFacts DEF DueOf
      <4>4. QED
        BY <4>2, <4>3
    <3>4. CASE n.attr \in rejects
      <4>1. DueOf(p, n) = None
        BY <3>4 DEF DueOf
      <4>2. x = IF o # NoPath /\ ApplyPolicy(o) # NoPath THEN Withdraw(o) ELSE NoPath
        BY <1>1, <1>2, <1>5, <1>p, <2>1, <3>1, <3>4 DEF filterpath, ApplyPolicy
      <4>3. o = NoPath \/ ApplyPolicy(o) = NoPath => DueOf(p, o) = None
        BY <1>1 DEF ApplyPolicy, DueOf, May
      <4>4. QED
        BY <1>2, <3>2, <4>1, <4>2, <4>3
    <3>5. QED
      BY <3>3, <3>4
  <2>6. QED
    BY <2>2, <2>3, <2>4, <2>5
<1>6. QED
  BY <1>3, <1>4, <1>5

----------------------------------------------------------------------------
(* The invariant *)

\* The neighbors that walks and dumps keep up to date, those that have nothing,
\* and what is still to come from the walk under way.
Active(p) == st[p] \in {"syncing", "storing", "up"} /\ ~restarting[p]
Unserved(p) == st[p] \in {"down", "dropping"} \/ (restarting[p] /\ st[p] # "closing")
Pending(p) == walk # NoWalk /\ p \in walk.todo
Waits(p, s) == Pending(p) /\ walk.by = s

\* Before its dump, and while the server defers to it, nothing has been sent.
BlankInv(p) ==
    Unserved(p) /\ gap[p] \cap {"early", "deferred"} = {} => sent[p] = {} /\ held[p] = {}

\* A neighbor without ADD-PATH holds what it is due, or the walk has yet to
\* come by and it holds what it was due before. After a change of policy it
\* may hold something else, but only while the best path gets as far as the
\* policy: so the withdrawal of the best path reaches it.
BestInv(p) ==
    Active(p) =>
        /\ gap[p] = {} => \/ view[p][Zero] = DueOf(p, GetBestPath(known))
                          \/ Pending(p) /\ view[p][Zero] = DueOf(p, walk.old)
        /\ gap[p] \subseteq {"policy"} /\ view[p][Zero] # None =>
               \/ May(p, GetBestPath(known))
               \/ Pending(p) /\ May(p, walk.old)

\* An ADD-PATH neighbor. Each path it was sent would pass again but for the
\* policy, so its withdrawal will be sent.
AddInv(p) ==
    Active(p) =>
        /\ gap[p] = {} => \A s \in Exports(p) : s \in sent[p] \cup held[p] \/ Waits(p, s)
        /\ gap[p] = {} /\ Cardinality(sent[p]) < SendMax =>
               \A s \in Exports(p) : s \in sent[p] \/ Waits(p, s)
        /\ gap[p] \subseteq {"policy"} =>
               /\ held[p] \cap sent[p] = {}
               /\ \A s \in sent[p] :
                      /\ s \in Sources
                      /\ ~Waits(p, s) => view[p][s] = known[s] /\ Passes(p, s, known[s])
                      /\ Waits(p, s) /\ walk.new.withdraw => Passes(p, s, walk.new.attr)

NeighborInv(p) ==
    /\ BlankInv(p)
    /\ p \in AddPath => AddInv(p)
    /\ p \notin AddPath /\ OneKindOfInternal => BestInv(p)

\* What the walk carries: the change of the best path and of one source.
WalkInv ==
    walk # NoWalk =>
        /\ walk.old \in Bests /\ walk.best = ChangeOf(walk.old, GetBestPath(known))
        /\ walk.new.src = walk.by /\ walk.new.attr # None
        /\ IF walk.new.withdraw THEN known[walk.by] = None ELSE walk.new.attr = known[walk.by]

SyncInv ==
    /\ WalkInv
    /\ \A p \in Peers : restarting[p] => p \in Graceful
    /\ \A p \in Peers : sync[p] # {} => st[p] \in {"syncing", "up"}
    /\ \A p \in Peers : NeighborInv(p)

----------------------------------------------------------------------------
(* What sending does *)

\* The effect on the neighbor itself.
Effect(p, A, W) ==
    /\ sent'[p] = (sent[p] \ {Slot(p, x.src) : x \in W}) \cup {Slot(p, x.src) : x \in A}
    /\ \A i \in Slots : (\A x \in A : Slot(p, x.src) # i) =>
           view'[p][i] = IF \E x \in W : Slot(p, x.src) = i THEN None ELSE view[p][i]
    /\ \A x \in A : Slot(p, x.src) \in Slots
                    /\ (\A y \in A : Slot(p, y.src) = Slot(p, x.src) => y = x) =>
           view'[p][Slot(p, x.src)] = x.attr

LEMMA SendEffectOn ==
    ASSUME OutInv, NEW p \in Peers, NEW A, NEW W, Send(p, A, W)
    PROVE  Effect(p, A, W)
<1> DEFINE v == [i \in Slots |->
                   IF \E x \in A : Slot(p, x.src) = i
                   THEN (CHOOSE x \in A : Slot(p, x.src) = i).attr
                   ELSE IF \E x \in W : Slot(p, x.src) = i THEN None
                   ELSE view[p][i]]
<1>1. sent \in [Peers -> SUBSET Slots] /\ view \in [Peers -> [Slots -> Attrs \cup {None}]]
  BY DEF OutInv
<1>2. sent' = [sent EXCEPT ![p] = (@ \ {Slot(p, x.src) : x \in W}) \cup {Slot(p, x.src) : x \in A}]
  BY DEF Send
<1>3. view' = [view EXCEPT ![p] = v]
  BY <1>1 DEF Send
<1>4. ASSUME NEW x \in A, Slot(p, x.src) \in Slots,
             \A y \in A : Slot(p, y.src) = Slot(p, x.src) => y = x
      PROVE  v[Slot(p, x.src)] = x.attr
  <2> DEFINE i == Slot(p, x.src)
             z == CHOOSE y \in A : Slot(p, y.src) = i
  <2>1. z \in A /\ Slot(p, z.src) = i
    OBVIOUS
  <2>2. z = x
    BY <1>4, <2>1
  <2>3. v[i] = z.attr
    BY <1>4
  <2> HIDE DEF z
  <2>4. QED
    BY <2>2, <2>3
<1>5. \A i \in Slots : (\A x \in A : Slot(p, x.src) # i) =>
          v[i] = IF \E x \in W : Slot(p, x.src) = i THEN None ELSE view[p][i]
  OBVIOUS
<1> HIDE DEF v
<1>6. sent'[p] = (sent[p] \ {Slot(p, x.src) : x \in W}) \cup {Slot(p, x.src) : x \in A}
  BY <1>1, <1>2
<1>7. view'[p] = v
  BY <1>1, <1>3
<1>8. QED
  BY <1>4, <1>5, <1>6, <1>7 DEF Effect

LEMMA SendEffect ==
    ASSUME OutInv, NEW p \in Peers, NEW A, NEW W, Send(p, A, W)
    PROVE  /\ \A q \in Peers \ {p} : sent'[q] = sent[q] /\ view'[q] = view[q]
           /\ sent'[p] = (sent[p] \ {Slot(p, x.src) : x \in W}) \cup {Slot(p, x.src) : x \in A}
           /\ \A i \in Slots : (\A x \in A : Slot(p, x.src) # i) =>
                  view'[p][i] = IF \E x \in W : Slot(p, x.src) = i THEN None ELSE view[p][i]
           /\ \A x \in A : Slot(p, x.src) \in Slots
                           /\ (\A y \in A : Slot(p, y.src) = Slot(p, x.src) => y = x) =>
                  view'[p][Slot(p, x.src)] = x.attr
<1>1. sent \in [Peers -> SUBSET Slots] /\ view \in [Peers -> [Slots -> Attrs \cup {None}]]
  BY DEF OutInv
<1>2. \A q \in Peers \ {p} : sent'[q] = sent[q] /\ view'[q] = view[q]
  BY <1>1 DEF Send
<1>3. Effect(p, A, W)
  BY SendEffectOn, Zenon
<1> QED
  BY <1>2, <1>3, Zenon DEF Effect

LEMMA ZeroSlot ==
    ASSUME NEW p \in Peers, p \notin AddPath
    PROVE  Zero \in Slots /\ \A s : Slot(p, s) = Zero
  BY DEF Slot, Slots

LEMMA SourceSlot ==
    ASSUME NEW p \in AddPath
    PROVE  p \in Peers /\ \A s : Slot(p, s) = s /\ (s \in Sources => s \in Slots)
  BY PropagationAssumption DEF Slot, Slots

\* The paths of the Loc-RIB, and which of them are for p.
LEMMA PathsOfKnown ==
    ASSUME KnownInv, NEW p \in Peers, NEW s \in Has(known)
    PROVE  LET x == Path(s, known[s], FALSE) IN
           /\ s \in Sources /\ x.src = s /\ x.attr = known[s]
           /\ ~filterpath(p, x, NoPath).withdraw <=> s \in Exports(p)
  BY DEF Path, Has, Exports, Exportable

ExportsOf(p, k, R) ==
    {s \in Sources : k[s] # None /\ Passes(p, s, k[s]) /\ k[s] \notin R /\ Takes(p, k[s])}

LEMMA ExportsAre == KnownInv => \A p \in Peers : Exports(p) = ExportsOf(p, known, rejects)
  BY ExportableIs DEF Exports, Has, ExportsOf

LEMMA ExportsAreNext == KnownInv' => \A p \in Peers : Exports(p)' = ExportsOf(p, known', rejects')
<1>1. (KnownInv => \A p \in Peers : Exports(p) = ExportsOf(p, known, rejects))'
  BY ExportsAre, PTL
<1>2. QED
  BY <1>1

LEMMA BestOfKnown ==
    ASSUME KnownInv, NEW p \in Peers, GetBestPath(known) # NoPath
    PROVE  LET b == GetBestPath(known) IN
           ~filterpath(p, b, NoPath).withdraw <=> DueOf(p, b) # None
<1> DEFINE b == GetBestPath(known)
<1>1. b \in Paths /\ ~b.withdraw /\ b.attr # None
  BY BestIsBest DEF KnownInv, Bests, Announcements, Paths
<1>2. b # NoPath
  OBVIOUS
<1> HIDE DEF b
<1>3. filterpath(p, b, NoPath) = IF Passes(p, b.src, b.attr) /\ b.attr \notin rejects
                                 THEN IF Takes(p, b.attr) THEN b ELSE Withdraw(b)
                                 ELSE NoPath
  BY <1>1, FilterAlone
<1>4. ~filterpath(p, b, NoPath).withdraw <=> DueOf(p, b) # None
  BY <1>1, <1>2, <1>3, NoPathFacts, WithdrawFacts DEF DueOf, May
<1>5. QED
  BY <1>4 DEF b

\* A neighbor without ADD-PATH is sent one path, or none.
LEMMA SendOne ==
    ASSUME OutInv, NEW p \in Peers, p \notin AddPath, NEW b, NEW W, Send(p, {b}, W)
    PROVE  view'[p][Zero] = b.attr
<1>1. Effect(p, {b}, W)
  BY SendEffectOn, Zenon
<1>2. Slot(p, b.src) = Zero /\ Zero \in Slots
  BY ZeroSlot
<1> QED
  BY <1>1, <1>2, Zenon DEF Effect

LEMMA SendNone ==
    ASSUME OutInv, NEW p \in Peers, p \notin AddPath, NEW W, Send(p, {}, W)
    PROVE  view'[p][Zero] = IF W = {} THEN view[p][Zero] ELSE None
<1>1. Effect(p, {}, W)
  BY SendEffectOn, Zenon
<1>2. Zero \in Slots /\ \A s : Slot(p, s) = Zero
  BY ZeroSlot
<1> QED
  BY <1>1, <1>2, Zenon DEF Effect

\* A dump to a neighbor without ADD-PATH, and a soft reset.
LEMMA PassedIs ==
    ASSUME KnownInv, NEW p \in Peers, p \notin AddPath
    PROVE  LET b == GetBestPath(known) IN
           Passed(p) = IF b # NoPath /\ DueOf(p, b) # None THEN {b} ELSE {}
<1> DEFINE b == GetBestPath(known)
<1>1. PossibleBest(p) = {b} \ {NoPath}
  BY DEF PossibleBest
<1>2. QED
  BY <1>1, BestOfKnown DEF Passed

LEMMA PassedBest ==
    ASSUME KnownInv, OutInv, NEW p \in Peers, p \notin AddPath, NEW W, Send(p, Passed(p), W)
    PROVE  LET due == DueOf(p, GetBestPath(known)) IN
           IF due # None THEN view'[p][Zero] = due ELSE view'[p][Zero] \in {None, view[p][Zero]}
<1> DEFINE b == GetBestPath(known)
<1>1. Passed(p) = IF b # NoPath /\ DueOf(p, b) # None THEN {b} ELSE {}
  BY PassedIs
<1>2. DueOf(p, b) # None => b # NoPath /\ DueOf(p, b) = b.attr
  BY DEF DueOf, May
<1> HIDE DEF b
<1>3. CASE DueOf(p, b) # None
  <2>1. Passed(p) = {b}
    BY <1>1, <1>2, <1>3
  <2>2. view'[p][Zero] = b.attr
    BY <2>1, SendOne, Zenon
  <2>3. QED
    BY <1>2, <1>3, <2>2 DEF b
<1>4. CASE DueOf(p, b) = None
  <2>1. Passed(p) = {}
    BY <1>1, <1>4
  <2>2. view'[p][Zero] \in {None, view[p][Zero]}
    BY <2>1, SendNone, Zenon
  <2>3. QED
    BY <1>4, <2>2 DEF b
<1>5. QED
  BY <1>3, <1>4

LEMMA ResetBest ==
    ASSUME KnownInv, OutInv, NEW p \in Peers, p \notin AddPath, softResetOut(p)
    PROVE  view'[p][Zero] = IF GetBestPath(known) # NoPath THEN DueOf(p, GetBestPath(known))
                            ELSE view[p][Zero]
<1> DEFINE b == GetBestPath(known)
           y == filterpath(p, b, NoPath)
           filtered == {x \in PossibleBest(p) : filterpath(p, x, NoPath) = NoPath}
           W == TakenBack(p) \cup {x \in filtered : Slot(p, x.src) \in sent[p]}
<1>1. PossibleBest(p) = {b} \ {NoPath}
  BY DEF PossibleBest
<1>2. Passed(p) = IF b # NoPath /\ DueOf(p, b) # None THEN {b} ELSE {}
  BY PassedIs
<1>3. DueOf(p, b) # None => DueOf(p, b) = b.attr
  BY DEF DueOf
<1>4. b # NoPath /\ DueOf(p, b) = None => y \in {NoPath, Withdraw(b)}
  <2>1. b \in Bests
    BY BestIsBest DEF KnownInv
  <2>2. b # NoPath => b \in Paths /\ ~b.withdraw
    BY <2>1 DEF Bests, Announcements
  <2>3. b # NoPath => y \in {b, Withdraw(b), NoPath}
    BY <2>2, FilterOutcome, NoPathIsPath, NoPathFacts
  <2>4. b # NoPath => (~y.withdraw <=> DueOf(p, b) # None)
    BY BestOfKnown
  <2> HIDE DEF b, y
  <2>5. QED
    BY <2>2, <2>3, <2>4
<1>5. b # NoPath /\ DueOf(p, b) = None /\ Zero \in sent[p] => W = {b}
  BY <1>1, <1>4, ZeroSlot DEF TakenBack
<1>6. b = NoPath => W = {}
  BY <1>1 DEF TakenBack
<1>7. Send(p, Passed(p), W)
  BY DEF softResetOut
<1>8. Zero \notin sent[p] => view[p][Zero] = None
  BY ZeroSlot DEF OutInv, Holds
<1> HIDE DEF W, b, y
<1>9. CASE b # NoPath /\ DueOf(p, b) # None
  <2>1. view'[p][Zero] = b.attr
    BY <1>2, <1>7, <1>9, SendOne, Zenon
  <2>2. QED
    BY <1>3, <1>9, <2>1, Zenon DEF b
<1>10. CASE b # NoPath /\ DueOf(p, b) = None
  <2>1. view'[p][Zero] = IF W = {} THEN view[p][Zero] ELSE None
    BY <1>2, <1>7, <1>10, SendNone, Zenon
  <2>2. view'[p][Zero] = None
    BY <1>5, <1>8, <1>10, <2>1, Zenon
  <2>3. QED
    BY <1>10, <2>2, Zenon DEF b
<1>11. CASE b = NoPath
  <2>1. view'[p][Zero] = view[p][Zero]
    BY <1>2, <1>6, <1>7, <1>11, SendNone, Zenon
  <2>2. QED
    BY <1>11, <2>1, Zenon DEF b
<1>12. QED
  BY <1>9, <1>10, <1>11

\* The same for an ADD-PATH neighbor.
LEMMA ExportPaths ==
    ASSUME KnownInv, NEW p \in AddPath, NEW A,
           A = {x \in PossibleBest(p) : ~filterpath(p, x, NoPath).withdraw}
    PROVE  /\ \A x \in A : Slot(p, x.src) \in Exports(p) /\ Slot(p, x.src) \in Slots
           /\ \A x, y \in A : Slot(p, x.src) = Slot(p, y.src) => x = y
           /\ \A s \in Exports(p) : \E x \in A : Slot(p, x.src) = s /\ x.attr = known[s]
<1>0. p \in Peers
  BY SourceSlot
<1>1. PossibleBest(p) = {Path(s, known[s], FALSE) : s \in Has(known)}
  BY DEF PossibleBest
<1>2. ASSUME NEW s \in Exports(p)
      PROVE  \E x \in A : Slot(p, x.src) = s /\ x.attr = known[s]
  <2> DEFINE x == Path(s, known[s], FALSE)
  <2>1. s \in Has(known)
    BY DEF Exports
  <2>2. x.src = s /\ x.attr = known[s] /\ ~filterpath(p, x, NoPath).withdraw
    BY <1>0, <2>1, PathsOfKnown, Zenon
  <2>3. x \in A
    BY <1>1, <2>1, <2>2, Zenon
  <2>4. Slot(p, x.src) = s
    BY <2>2, SourceSlot, Zenon
  <2> HIDE DEF x
  <2>5. QED
    BY <2>2, <2>3, <2>4
<1>3. ASSUME NEW x \in A
      PROVE  /\ Slot(p, x.src) = x.src /\ x.src \in Slots /\ x.src \in Exports(p)
             /\ x = Path(x.src, known[x.src], FALSE)
  <2>1. PICK s \in Has(known) : x = Path(s, known[s], FALSE)
    BY <1>1, Zenon
  <2>2. ~filterpath(p, x, NoPath).withdraw
    OBVIOUS
  <2>3. x.src = s /\ s \in Exports(p) /\ s \in Sources
    BY <1>0, <2>1, <2>2, PathsOfKnown, Zenon
  <2>4. QED
    BY <2>1, <2>3, SourceSlot, Zenon
<1>4. \A x, y \in A : Slot(p, x.src) = Slot(p, y.src) => x = y
  <2> TAKE x, y \in A
  <2> HAVE Slot(p, x.src) = Slot(p, y.src)
  <2>1. x.src = y.src
    BY <1>3, Zenon
  <2>2. QED
    BY <1>3, <2>1, Zenon
<1>5. ASSUME NEW x \in A PROVE Slot(p, x.src) \in Exports(p) /\ Slot(p, x.src) \in Slots
  BY <1>3, Zenon
<1>6. QED
  BY <1>2, <1>4, <1>5, Zenon

LEMMA PassedAll ==
    ASSUME KnownInv, OutInv, NEW p \in AddPath, NEW W, Send(p, Passed(p), W)
    PROVE  /\ Exports(p) \subseteq sent'[p]
           /\ \A s \in Exports(p) : view'[p][s] = known[s]
           /\ \A s \in sent'[p] \ Exports(p) : s \in sent[p] /\ view'[p][s] = view[p][s]
<1>0. p \in Peers
  BY SourceSlot
<1>1. PICK A : A = {x \in PossibleBest(p) : ~filterpath(p, x, NoPath).withdraw} /\ Send(p, A, W)
  BY DEF Passed
<1>2. /\ \A x \in A : Slot(p, x.src) \in Exports(p) /\ Slot(p, x.src) \in Slots
      /\ \A x, y \in A : Slot(p, x.src) = Slot(p, y.src) => x = y
      /\ \A s \in Exports(p) : \E x \in A : Slot(p, x.src) = s /\ x.attr = known[s]
  BY <1>1, ExportPaths, ZenonT(30)
<1>3. {Slot(p, x.src) : x \in A} = Exports(p)
  BY <1>2
<1>8. /\ sent'[p] = (sent[p] \ {Slot(p, x.src) : x \in W}) \cup {Slot(p, x.src) : x \in A}
      /\ \A i \in Slots : (\A x \in A : Slot(p, x.src) # i) =>
             view'[p][i] = IF \E x \in W : Slot(p, x.src) = i THEN None ELSE view[p][i]
      /\ \A x \in A : Slot(p, x.src) \in Slots
                      /\ (\A y \in A : Slot(p, y.src) = Slot(p, x.src) => y = x) =>
             view'[p][Slot(p, x.src)] = x.attr
  <2>1. Send(p, A, W)
    BY <1>1
  <2>2. Effect(p, A, W)
    BY <1>0, <2>1, SendEffectOn, Zenon
  <2> QED
    BY <2>2, Zenon DEF Effect
<1>4. sent'[p] = (sent[p] \ {Slot(p, x.src) : x \in W}) \cup Exports(p)
  BY <1>3, <1>8, Zenon
<1>5. \A s \in Exports(p) : view'[p][s] = known[s]
  BY <1>2, <1>8, ZenonT(30)
<1>6. ASSUME NEW s \in sent'[p] \ Exports(p) PROVE s \in sent[p] /\ view'[p][s] = view[p][s]
  <2>1. \A x \in A : Slot(p, x.src) # s
    BY <1>2
  <2>2. s \in sent[p] /\ ~\E x \in W : Slot(p, x.src) = s
    BY <1>4
  <2>3. s \in Slots
    BY <1>0, <2>2 DEF OutInv
  <2>4. QED
    BY <1>8, <2>1, <2>2, <2>3, Zenon
<1>7. QED
  BY <1>4, <1>5, <1>6, ZenonT(30)

=============================================================================
