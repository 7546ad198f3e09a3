------------------------------- MODULE RibIn --------------------------------
(***************************************************************************)
(* How a path travels from a neighbor's UPDATE into the Loc-RIB: the       *)
(* Adj-RIB-In of every neighbor, the import policy, the destinations of    *)
(* the global table with their local path identifiers, and the helper side *)
(* of graceful restart, which decides when cached paths become stale and   *)
(* when they go.                                                           *)
(*                                                                         *)
(* A handler first changes the Adj-RIB-In, then walks the resulting path   *)
(* list and updates the table path by path (propagateUpdate).  Callbacks   *)
(* of different neighbors run concurrently under the read side of          *)
(* shared.mu, so the walks of two neighbors interleave; a management       *)
(* operation holds the write side for the whole of its walk.               *)
(***************************************************************************)
EXTENDS AdjRib

CONSTANTS
    Peers,        \* configured neighbors
    NoPeer,       \* nobody holds the write side of shared.mu
    LlgrPeers,    \* neighbors with which long-lived GR is negotiated
    Deletable,    \* neighbors the operator may delete and add again
    Local,        \* the source of the paths the operator originates
    LocalNlri,    \* prefixes the operator may originate
    Policies,     \* import policies the operator switches between
    LoopSets,     \* sets of attribute lists the loop checks may reject
    MaxPrefixes,  \* prefix limit of a neighbor, 0 for none
    MaxLocalId    \* bound on the local path identifiers of a destination

ASSUME PeersAssumption ==
    NoPeer \notin Peers /\ LlgrPeers \subseteq Peers /\ Deletable \subseteq Peers
ASSUME LimitAssumption == MaxPrefixes \in Nat /\ MaxLocalId \in Nat
ASSUME LocalAssumption == LocalNlri \subseteq Nlri /\ Local \notin Peers \X RouterIds \X PathIds

\* What the import policy makes of a path: it lets the path in as it is, lets
\* in a changed copy, or filters it.
Verdicts == {"accept", "modify", "reject"}

ASSUME PolicyAssumption == Policies \subseteq [Attrs -> Verdicts] /\ LoopSets \subseteq SUBSET Attrs

VARIABLES
    adj,         \* adj[p]: the table of p's Adj-RIB-In
    total,       \* total[p], accepted[p]: its counters
    accepted,
    loc,         \* loc[n][s]: the path of source s in destination n
    idMap,       \* idMap[n]: the local path identifiers in use (localIdMap)
    withdraws,   \* withdraws[p]: withdrawals p's handler still has to apply
    announces,   \* announces[p]: keys of adj[p] it still has to announce
    mgmt,        \* the neighbor a management operation works on, or NoPeer
    policy,      \* the verdict of the import policy on an attribute list
    loops,       \* attribute lists the ingress loop checks reject
    live,        \* neighbors in the neighbor map
    established, \* neighbors whose FSM is in ESTABLISHED
    rid,         \* rid[p]: the BGP identifier of p's last OPEN (peerInfo)
    restarting,  \* neighbors with PeerRestarting set
    longLived,   \* neighbors with longLivedRunning set
    llgrRunning, \* neighbors whose LLGR restart timer runs
    llgrFired,   \* neighbors whose LLGR timer fired and waits for the dispatcher
    llgrExpired, \* neighbors with PeerRestartTimerExpired set
    dirty        \* neighbors not soft reset since the policy last changed

tableVars == <<adj, total, accepted>>
ribVars == <<loc, idMap>>
walkVars == <<withdraws, announces, mgmt>>
configVars == <<policy, loops, live>>
grVars == <<restarting, longLived, llgrRunning, llgrFired, llgrExpired>>
vars == <<tableVars, ribVars, walkVars, configVars, established, rid, grVars, dirty>>

Sources == (Peers \X RouterIds \X PathIds) \cup {Local}
SourceOf(p, r, k) == <<p, r, k[2]>>

\* A path in a destination's knownPathList.
Installed == [attr: Attrs, llgr: BOOLEAN, localID: Nat \ {0}]

ASSUME InstalledAssumption == NoPath \notin Installed

TypeOK ==
    /\ adj \in [Peers -> Table]
    /\ total \in [Peers -> Nat] /\ accepted \in [Peers -> Nat]
    /\ loc \in [Nlri -> [Sources -> Installed \cup {NoPath}]]
    /\ idMap \in [Nlri -> SUBSET (Nat \ {0})]
    /\ \A n \in Nlri : IsFiniteSet(idMap[n])
    /\ withdraws \in [Peers -> SUBSET (Keys \X RouterIds)]
    /\ announces \in [Peers -> SUBSET Keys]
    /\ mgmt \in Peers \cup {NoPeer}
    /\ policy \in [Attrs -> Verdicts]
    /\ loops \subseteq Attrs
    /\ live \subseteq Peers
    /\ established \subseteq Peers
    /\ rid \in [Peers -> RouterIds]
    /\ restarting \subseteq Peers /\ longLived \subseteq Peers
    /\ llgrRunning \subseteq Peers /\ llgrFired \subseteq Peers /\ llgrExpired \subseteq Peers
    /\ dirty \subseteq Peers

Init ==
    /\ adj = [p \in Peers |-> NewAdjRib]
    /\ total = [p \in Peers |-> 0] /\ accepted = [p \in Peers |-> 0]
    /\ loc = [n \in Nlri |-> [s \in Sources |-> NoPath]]
    /\ idMap = [n \in Nlri |-> {}]
    /\ withdraws = [p \in Peers |-> {}] /\ announces = [p \in Peers |-> {}]
    /\ mgmt = NoPeer
    /\ policy \in Policies
    /\ loops \in LoopSets
    /\ live = Peers /\ established = {}
    /\ rid \in [Peers -> RouterIds]
    /\ restarting = {} /\ longLived = {}
    /\ llgrRunning = {} /\ llgrFired = {} /\ llgrExpired = {}
    /\ dirty = {}

-----------------------------------------------------------------------------
(* Who may run: the reader/writer lock shared.mu.                          *)

Walking(p) == withdraws[p] # {} \/ announces[p] # {}

\* A callback of p may start: p's callbacks are called one after the other,
\* and nobody holds the write lock.
Callback(p) == ~Walking(p) /\ mgmt = NoPeer

\* A management operation may start: no callback is running.
Management == mgmt = NoPeer /\ \A p \in Peers : ~Walking(p)

\* The handler of p leaves this list to propagateUpdate.
Walk(p, dels, adds) ==
    /\ withdraws' = [withdraws EXCEPT ![p] = dels]
    /\ announces' = [announces EXCEPT ![p] = adds]

HoldLock(p, dels, adds) == mgmt' = IF dels = {} /\ adds = {} THEN NoPeer ELSE p

\* The withdrawals for the keys ks: each names the source of the cached path.
WithdrawalsOf(t, ks) == {<<k, t[k].src>> : k \in ks}

-----------------------------------------------------------------------------
(* propagateUpdate, one path at a time (under the path's bucket lock).  No  *)
(* two paths of a list have the same key; the order between the keys is     *)
(* left open, as the bulk operations walk a Go map.                         *)

\* The lowest identifier whose bit is clear; the map grows when it is full.  (A
\* destination without paths is deleted only when its map is empty.)
FindandSetZeroBit(used) ==
    CHOOSE i \in 1 .. (Cardinality(used) + 1) :
        i \notin used /\ \A j \in 1 .. (i - 1) : j \in used

\* The write lock is released after the last path of the list.
Unlock(p, dels, adds) == mgmt' = IF mgmt = p /\ dels = {} /\ adds = {} THEN NoPeer ELSE mgmt

\* A withdrawal is never touched by the policy.  All the withdrawals that the
\* Adj-RIB-In makes are marked dropped, so the table releases the identifier.
PropagateWithdraw(p) ==
    \E w \in withdraws[p] :
        LET n == w[1][1]
            s == SourceOf(p, w[2], w[1])
            old == loc[n][s]
        IN  /\ loc' = [loc EXCEPT ![n][s] = NoPath]
            /\ idMap' = [idMap EXCEPT ![n] = IF old = NoPath THEN @ ELSE @ \ {old.localID}]
            /\ Walk(p, withdraws[p] \ {w}, announces[p])
            /\ Unlock(p, withdraws[p] \ {w}, announces[p])
            /\ UNCHANGED <<tableVars, configVars, established, rid, grVars, dirty>>

\* Mutant: the path's own identifier before that of the path it replaces.
LocalIdFor_OwnFirst(n, s, own) == IF own # 0 THEN own ELSE FindandSetZeroBit(idMap[n])

\* The identifier of an announced path: the one of the path it replaces, else
\* its own, else a new one.
LocalIdFor(n, s, own) ==
    IF loc[n][s] # NoPath THEN loc[n][s].localID
    ELSE IF own # 0 THEN own
    ELSE FindandSetZeroBit(idMap[n])

\* The policy lets the path in.  A path it did not modify is the very object
\* the Adj-RIB-In holds, so the cached path gets the identifier too.
Install(p, k) ==
    LET path == adj[p][k]
        n == k[1]
        s == SourceOf(p, path.src, k)
        id == LocalIdFor(n, s, path.localID)
    IN  /\ policy[path.attr] # "reject"
        /\ id <= MaxLocalId
        /\ loc' = [loc EXCEPT ![n][s] = [attr |-> path.attr, llgr |-> path.llgr, localID |-> id]]
        /\ idMap' = [idMap EXCEPT ![n] = @ \cup {id}]
        /\ adj' = IF policy[path.attr] = "accept"
                  THEN [adj EXCEPT ![p][k].localID = id] ELSE adj

\* Mutant: a path the policy rejects is skipped and its old version stays.
Filter_Skips(p, k) == policy[adj[p][k].attr] = "reject" /\ UNCHANGED <<loc, idMap, adj>>

\* The policy rejects the path: an unmarked withdrawal takes its place, which
\* removes the installed path and keeps the identifier in use.
Filter(p, k) ==
    LET path == adj[p][k]
    IN  /\ policy[path.attr] = "reject"
        /\ loc' = [loc EXCEPT ![k[1]][SourceOf(p, path.src, k)] = NoPath]
        /\ UNCHANGED <<idMap, adj>>

PropagateAnnounce(p) ==
    \E k \in announces[p] :
        /\ Install(p, k) \/ Filter(p, k)
        /\ Walk(p, withdraws[p], announces[p] \ {k})
        /\ Unlock(p, withdraws[p], announces[p] \ {k})
        /\ UNCHANGED <<total, accepted, configVars, established, rid, grVars, dirty>>

-----------------------------------------------------------------------------
(* Callbacks of a neighbor's FSM (handleFSMMessage).                       *)

\* A message updates table and counters: dels and adds as in AdjRib.
UpdateTable(p, dels, adds) ==
    /\ adj' = [adj EXCEPT ![p] = Update(@, dels, adds)]
    /\ total' = [total EXCEPT ![p] = TotalAfter(@, adj[p], dels, adds)]
    /\ accepted' = [accepted EXCEPT ![p] = AcceptedAfter(@, adj[p], dels, adds)]

\* Mutant: the rejected paths are skipped altogether.
DropTable_KeepsRejected(p) ==
    /\ adj' = [adj EXCEPT ![p] = [k \in Keys |-> IF k \in Accepted(@) THEN NoPath ELSE @[k]]]
    /\ total' = [total EXCEPT ![p] = 0]
    /\ accepted' = [accepted EXCEPT ![p] = 0]

\* DropAll: every cached path goes; the rejected ones need no withdrawal.
DropTable(p) ==
    /\ adj' = [adj EXCEPT ![p] = NewAdjRib]
    /\ total' = [total EXCEPT ![p] = 0]
    /\ accepted' = [accepted EXCEPT ![p] = 0]

\* Mutant: stale paths are taken for withdrawn already.
DropWithdrawals_Fresh(p) == WithdrawalsOf(adj[p], Accepted(adj[p]) \ StaleKeys(adj[p]))

DropWithdrawals(p) == WithdrawalsOf(adj[p], Accepted(adj[p]))

\* A timer that has fired is past the select that would stop it.
stopPeerRestarting(p) ==
    /\ restarting' = restarting \ {p}
    /\ longLived' = longLived \ {p}
    /\ llgrRunning' = llgrRunning \ {p}

\* The session comes up with identifier r.
Establish(p, r) ==
    /\ Callback(p) /\ p \in live /\ p \notin established
    /\ established' = established \cup {p}
    /\ rid' = [rid EXCEPT ![p] = r]
    /\ UNCHANGED <<tableVars, ribVars, walkVars, configVars, grVars, dirty>>

isPrefixLimit(n) == MaxPrefixes > 0 /\ n > MaxPrefixes

\* The path an UPDATE of p announces with the attribute list a.
NewPath(p, a) ==
    [attr |-> a, src |-> rid[p], rejected |-> a \in loops,
     stale |-> FALSE, llgr |-> FALSE, localID |-> 0]

\* An UPDATE withdraws the keys dels and announces the keys adds with the
\* attribute list a; it names no key twice.  Over the prefix limit nothing is
\* propagated, and the FSM is asked to end the session.  If the neighbor was
\* deleted while the callback waited for the lock, this is its last callback.
HandleUpdate(p, dels, adds, a) ==
    LET paths == [k \in adds |-> NewPath(p, a)]
        own == WithdrawalsOf(adj[p], Withdrawals(adj[p], paths))
    IN  /\ Callback(p) /\ p \in established
        /\ dels \cap adds = {} /\ dels \cup adds # {}
        /\ UpdateTable(p, dels, paths)
        /\ IF isPrefixLimit(total'[p])
           THEN Walk(p, {}, {})
           ELSE Walk(p, own \cup (dels \X {rid[p]}), IF a \in loops THEN {} ELSE adds)
        /\ established' = IF p \in live THEN established ELSE established \ {p}
        /\ UNCHANGED <<ribVars, mgmt, configVars, rid, grVars, dirty>>

\* The session goes down and graceful restart does not apply, or not to this
\* family: the whole Adj-RIB-In goes.
PeerDown(p, graceful) ==
    /\ Callback(p) /\ p \in established
    /\ established' = established \ {p}
    /\ restarting' = IF graceful THEN restarting \cup {p} ELSE restarting
    /\ Walk(p, DropWithdrawals(p), {})
    /\ DropTable(p)
    /\ UNCHANGED <<ribVars, mgmt, configVars, rid, longLived, llgrRunning, llgrFired,
                   llgrExpired, dirty>>

\* The session goes down, graceful restart applies and the neighbor preserves
\* its forwarding state: the paths stay, marked stale, and are announced again.
PeerRestart(p) ==
    /\ Callback(p) /\ p \in established
    /\ established' = established \ {p}
    /\ restarting' = restarting \cup {p}
    /\ adj' = [adj EXCEPT ![p] = StaleAll(@)]
    /\ Walk(p, {}, Accepted(adj[p]))
    /\ UNCHANGED <<total, accepted, ribVars, mgmt, configVars, rid, longLived, llgrRunning,
                   llgrFired, llgrExpired, dirty>>

\* The FSM falls back to IDLE while the neighbor is restarting and long-lived
\* graceful restart is not in use: the restart is over.
RestartFailed(p) ==
    /\ Callback(p) /\ p \in live /\ p \notin established
    /\ p \in restarting /\ p \notin LlgrPeers
    /\ restarting' = restarting \ {p}
    /\ Walk(p, DropWithdrawals(p), {})
    /\ DropTable(p)
    /\ UNCHANGED <<ribVars, mgmt, configVars, established, rid, longLived, llgrRunning,
                   llgrFired, llgrExpired, dirty>>

\* The same with long-lived graceful restart: the stale paths are kept longer,
\* marked LLGR_STALE, until a timer of their own expires.
StartLongLived(p) ==
    LET t == adj[p]
    IN  /\ Callback(p) /\ p \in live /\ p \notin established
        /\ p \in restarting /\ p \in LlgrPeers /\ p \notin longLived
        /\ longLived' = longLived \cup {p}
        /\ llgrRunning' = llgrRunning \cup {p}
        /\ UpdateTable(p, LlgrDrops(t), LlgrMarks(t))
        /\ Walk(p, WithdrawalsOf(t, LlgrDrops(t) \cap Accepted(t)), Accepted(t) \ LlgrDrops(t))
        /\ UNCHANGED <<ribVars, mgmt, configVars, established, rid, restarting, llgrFired,
                       llgrExpired, dirty>>

\* End-of-RIB from a restarted neighbor: what is still stale was not sent
\* again and goes.
HandleEOR(p) ==
    LET t == adj[p]
    IN  /\ Callback(p) /\ p \in established /\ p \in restarting
        /\ stopPeerRestarting(p)
        /\ UpdateTable(p, StaleKeys(t), [k \in {} |-> NoPath])
        /\ Walk(p, WithdrawalsOf(t, StaleKeys(t) \cap Accepted(t)), {})
        /\ UNCHANGED <<ribVars, mgmt, configVars, established, rid, llgrFired, llgrExpired, dirty>>

\* The FSM loop of a deleted neighbor ends without another callback.
FsmExit(p) ==
    /\ Callback(p) /\ p \notin live /\ p \in established
    /\ established' = established \ {p}
    /\ UNCHANGED <<tableVars, ribVars, walkVars, configVars, rid, grVars, dirty>>

-----------------------------------------------------------------------------
(* Management operations and timers.                                       *)

\* The LLGR timer fires; its goroutine now waits for the dispatcher.
LlgrTimeout(p) ==
    /\ p \in llgrRunning
    /\ llgrRunning' = llgrRunning \ {p}
    /\ llgrFired' = llgrFired \cup {p}
    /\ UNCHANGED <<tableVars, ribVars, walkVars, configVars, established, rid,
                   restarting, longLived, llgrExpired, dirty>>

\* llgrRestartTimerExpired looks at the value of the flag from before it sets
\* it, so the restart is only stopped when the flag is left from an earlier one.
LlgrRestartTimerExpired(p) ==
    /\ Management /\ p \in llgrFired
    /\ Walk(p, DropWithdrawals(p), {})
    /\ HoldLock(p, DropWithdrawals(p), {})
    /\ DropTable(p)
    /\ llgrFired' = llgrFired \ {p}
    /\ llgrExpired' = llgrExpired \cup {p}
    /\ IF p \in llgrExpired THEN stopPeerRestarting(p)
       ELSE UNCHANGED <<restarting, longLived, llgrRunning>>
    /\ UNCHANGED <<ribVars, configVars, established, rid, dirty>>

\* softResetIn: check every cached path for loops again, and run the accepted
\* ones through the import policy again.
SoftResetIn(p) ==
    LET t == adj[p]
        adds == SetRejected(t, loops)
        dels == WithdrawalsOf(t, Withdrawals(t, adds))
        ok == {k \in Cached(t) : t[k].attr \notin loops}
    IN  /\ Management /\ p \in live
        /\ UpdateTable(p, {}, adds)
        /\ Walk(p, dels, ok) /\ HoldLock(p, dels, ok)
        /\ dirty' = dirty \ {p}
        /\ UNCHANGED <<ribVars, configVars, established, rid, grVars>>

\* The operator changes the import policy.  The tables are not touched.
SetPolicies(new) ==
    /\ Management /\ policy # new
    /\ policy' = new
    /\ dirty' = Peers
    /\ UNCHANGED <<tableVars, ribVars, walkVars, loops, live, established, rid, grVars>>

\* The operator changes what counts as a loop (allow-own-as, cluster IDs).
SetLoops(l) ==
    /\ Management /\ loops # l
    /\ loops' = l
    /\ UNCHANGED <<tableVars, ribVars, walkVars, policy, live, established, rid, grVars, dirty>>

\* The operator originates a path; the object is new and has no identifier.
AddPath(n, a) ==
    LET id == LocalIdFor(n, Local, 0)
    IN  /\ Management
        /\ IF policy[a] = "reject"
           THEN loc' = [loc EXCEPT ![n][Local] = NoPath] /\ UNCHANGED idMap
           ELSE /\ id <= MaxLocalId
                /\ loc' = [loc EXCEPT ![n][Local] = [attr |-> a, llgr |-> FALSE, localID |-> id]]
                /\ idMap' = [idMap EXCEPT ![n] = @ \cup {id}]
        /\ UNCHANGED <<tableVars, walkVars, configVars, established, rid, grVars, dirty>>

\* The operator withdraws it.  This withdrawal is not marked dropped.
DeletePath(n) ==
    /\ Management /\ loc[n][Local] # NoPath
    /\ loc' = [loc EXCEPT ![n][Local] = NoPath]
    /\ UNCHANGED <<idMap, tableVars, walkVars, configVars, established, rid, grVars, dirty>>

\* The operator deletes the neighbor.  Its FSM is told to stop and not waited
\* for: a callback may be waiting for the lock this operation holds.
DeletePeer(p) ==
    /\ Management /\ p \in live
    /\ live' = live \ {p}
    /\ Walk(p, DropWithdrawals(p), {}) /\ HoldLock(p, DropWithdrawals(p), {})
    /\ DropTable(p)
    /\ stopPeerRestarting(p)
    /\ UNCHANGED <<ribVars, policy, loops, established, rid, llgrFired, llgrExpired, dirty>>

\* The operator adds it again: a new peer object with empty state.  (Only
\* after the goroutines of the deleted one have ended.)
AddPeer(p) ==
    /\ Management /\ p \notin live /\ p \notin established /\ p \notin llgrFired
    /\ live' = live \cup {p}
    /\ DropTable(p)
    /\ restarting' = restarting \ {p} /\ longLived' = longLived \ {p}
    /\ llgrExpired' = llgrExpired \ {p}
    /\ dirty' = dirty \ {p}
    /\ UNCHANGED <<ribVars, walkVars, policy, loops, established, rid, llgrRunning, llgrFired>>

-----------------------------------------------------------------------------

PeerNext(p) ==
    \/ PropagateWithdraw(p)
    \/ PropagateAnnounce(p)
    \/ \E r \in RouterIds : Establish(p, r)
    \/ \E dels, adds \in SUBSET Keys, a \in Attrs : HandleUpdate(p, dels, adds, a)
    \/ \E graceful \in BOOLEAN : PeerDown(p, graceful)
    \/ PeerRestart(p)
    \/ RestartFailed(p)
    \/ HandleEOR(p)
    \/ SoftResetIn(p)

LongLivedNext(p) == StartLongLived(p) \/ LlgrTimeout(p) \/ LlgrRestartTimerExpired(p)

OperatorNext ==
    \/ \E new \in Policies : SetPolicies(new)
    \/ \E l \in LoopSets : SetLoops(l)
    \/ \E n \in LocalNlri, a \in Attrs : AddPath(n, a)
    \/ \E n \in LocalNlri : DeletePath(n)
    \/ \E p \in Deletable : DeletePeer(p) \/ FsmExit(p) \/ AddPeer(p)

Next ==
    \/ \E p \in Peers : PeerNext(p)
    \/ \E p \in LlgrPeers : LongLivedNext(p)
    \/ OperatorNext

Spec == Init /\ [][Next]_vars

\* A walk goes on to its end.  The restart timer of a neighbor that stays down
\* takes its FSM back to IDLE, and its LLGR timer fires.  shared.mu does not
\* starve a waiting reader or writer.
Fairness ==
    \A p \in Peers :
        /\ SF_vars(PropagateWithdraw(p) \/ PropagateAnnounce(p))
        /\ SF_vars(RestartFailed(p) \/ StartLongLived(p) \/ LlgrRestartTimerExpired(p))
        /\ WF_vars(LlgrTimeout(p))

FairSpec == Spec /\ Fairness

-----------------------------------------------------------------------------
(* Properties.                                                             *)

\* The counters of an Adj-RIB-In, which prefix limits and the API rely on, are
\* the numbers of cached and of accepted paths after every operation.
CountersExact ==
    \A p \in Peers : /\ total[p] = Cardinality(Cached(adj[p]))
                      /\ accepted[p] = Cardinality(Accepted(adj[p]))

\* Two paths of a destination never share a local path identifier, which is
\* the ADD-PATH identifier they are advertised with.
LocalIdsUnique ==
    \A n \in Nlri : \A s, t \in Sources :
        loc[n][s] # NoPath /\ loc[n][t] # NoPath /\ s # t => loc[n][s].localID # loc[n][t].localID

\* The identifier of an installed path is marked in use, so that no other path
\* can be given it.
LocalIdsInUse ==
    \A n \in Nlri, s \in Sources : loc[n][s] # NoPath => loc[n][s].localID \in idMap[n]

\* A rejected entry of an Adj-RIB-In holds no local path identifier.
RejectedHoldsNoId ==
    \A p \in Peers, k \in Keys : adj[p][k] # NoPath /\ adj[p][k].rejected => adj[p][k].localID = 0

\* A cached path that holds an identifier has it reserved: the identifier is in
\* use, only the path's own source may be installed with it, and that source is
\* installed with no other.
CachedIdsReserved ==
    \A p \in Peers, k \in Keys : adj[p][k] # NoPath /\ adj[p][k].localID # 0 =>
        /\ adj[p][k].localID \in idMap[k[1]]
        /\ \A s \in Sources : loc[k[1]][s] # NoPath =>
              (loc[k[1]][s].localID = adj[p][k].localID <=> s = SourceOf(p, adj[p][k].src, k))

\* No two cached paths of a prefix hold the same identifier.
CachedIdsUnique ==
    \A p, q \in Peers, k, j \in Keys :
        /\ adj[p][k] # NoPath /\ adj[p][k].localID # 0
        /\ adj[q][j] # NoPath /\ adj[q][j].localID = adj[p][k].localID
        /\ k[1] = j[1]
        => p = q /\ k = j

\* A path whose withdrawal is on the way is no longer accepted.
WithdrawnNotAccepted ==
    \A p \in Peers : \A w \in withdraws[p] : w[1] \notin Accepted(adj[p])

\* A key still to be announced is accepted, and no withdrawal of it waits.
AnnouncedAccepted ==
    \A p \in Peers : announces[p] \subseteq Accepted(adj[p])

\* The inductive invariant behind LocalIdsUnique and RejectedHoldsNoId: an
\* identifier has one holder, whether the holder is installed, cached, or both.
IdInv ==
    /\ LocalIdsUnique /\ LocalIdsInUse /\ RejectedHoldsNoId
    /\ CachedIdsReserved /\ CachedIdsUnique
    /\ WithdrawnNotAccepted

\* An installed path that is replaced keeps its identifier: the neighbors it
\* was advertised to see an update, not a second path.
StableLocalId ==
    [][\A n \in Nlri, s \in Sources :
          loc[n][s] # NoPath /\ loc'[n][s] # NoPath => loc'[n][s].localID = loc[n][s].localID]_vars

\* Every installed path of a neighbor is one its Adj-RIB-In accepts, or its
\* withdrawal is on the way: nothing is left behind in the Loc-RIB.
LocBacked ==
    \A p \in Peers, r \in RouterIds, k \in Keys :
        loc[k[1]][SourceOf(p, r, k)] # NoPath =>
            \/ k \in Accepted(adj[p]) /\ adj[p][k].src = r
            \/ <<k, r>> \in withdraws[p]

\* When a neighbor's handlers are done, the Loc-RIB holds exactly its accepted
\* paths that the import policy lets in, with the attributes the neighbor sent
\* last, unless the policy changed and no soft reset followed.
LocExact ==
    \A p \in Peers \ dirty : ~Walking(p) =>
        \A r \in RouterIds, k \in Keys :
            LET path == adj[p][k]
                here == loc[k[1]][SourceOf(p, r, k)]
                wanted == k \in Accepted(adj[p]) /\ path.src = r /\ policy[path.attr] # "reject"
            IN  /\ here # NoPath <=> wanted
                /\ wanted => here.attr = path.attr /\ here.llgr = path.llgr

\* The Loc-RIB follows the Adj-RIB-Ins: at every moment no path is left behind
\* (LocBacked), and nothing is missing or out of date when a neighbor's
\* handlers are done (LocExact).
LocFollows == LocBacked /\ LocExact

\* Stale paths exist only while the neighbor counts as restarting: whatever
\* ends the restart removes them.
StaleOnlyWhileRestarting ==
    \A p \in Peers : StaleKeys(adj[p]) # {} => p \in restarting

\* Every flagged identifier belongs to an installed path or to an accepted
\* entry of an Adj-RIB-In.  Not an invariant: an installed path that is sent
\* again after the policy came to reject it leaves its identifier flagged.
IdsAccounted ==
    \A n \in Nlri : \A id \in idMap[n] :
        \/ \E s \in Sources : loc[n][s] # NoPath /\ loc[n][s].localID = id
        \/ \E p \in Peers, k \in Keys : /\ k[1] = n /\ k \in Accepted(adj[p])
                                        /\ adj[p][k].localID = id

\* A destination holds one path for a path identifier of a neighbor: a new
\* version takes the place of the old one.  Not an invariant when a neighbor
\* comes back from a graceful restart with another router identifier.
OneVersion ==
    \A p \in Peers, k \in Keys : \A r1, r2 \in RouterIds :
        /\ loc[k[1]][SourceOf(p, r1, k)] # NoPath
        /\ loc[k[1]][SourceOf(p, r2, k)] # NoPath
        => r1 = r2 \/ Walking(p)

\* A restart of a neighbor does not go on forever: it comes back, or helping
\* it ends.
RestartEnds ==
    \A p \in Peers : p \in restarting ~> p \in established \/ p \notin restarting

\* The bound MaxLocalId of the model, not the code, stops a walk.
OutOfIds ==
    \E p \in Peers : \E k \in announces[p] :
        /\ policy[adj[p][k].attr] # "reject"
        /\ LocalIdFor(k[1], SourceOf(p, adj[p][k].src, k), adj[p][k].localID) > MaxLocalId

\* The routes of a restarting neighbor that does not come back leave the
\* Loc-RIB.
StaleRoutesGo ==
    \A p \in Peers :
        p \in restarting ~>
            \/ p \in established \/ OutOfIds
            \/ \A r \in RouterIds, k \in Keys : loc[k[1]][SourceOf(p, r, k)] = NoPath

=============================================================================
