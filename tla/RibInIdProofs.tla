--------------------------- MODULE RibInIdProofs ----------------------------
(***************************************************************************)
(* Proofs about the Loc-RIB of RibIn.  First the local path identifiers:   *)
(* one may be held by an installed path and by cached ones, and the two    *)
(* change at different times, so that no two installed paths share one is  *)
(* not inductive by itself: IdInv says who may hold an identifier at all.  *)
(* Then that the Loc-RIB follows the Adj-RIB-Ins: FollowInv is what that   *)
(* means in the middle of a handler's walk over its paths.                 *)
(***************************************************************************)
EXTENDS RibInProofs

\* The routes a table accepts after an update.
AcceptedBy(t, dels, adds) ==
    Accepted(Update(t, dels, adds)) =
        (Accepted(t) \ ((dels \cap Accepted(t)) \cup Withdrawals(t, adds)))
           \cup {k \in DOMAIN adds : ~adds[k].rejected}

LEMMA AcceptedByUpdate ==
    ASSUME NEW t \in Table, NEW dels, NEW adds, Updates(dels, adds)
    PROVE  AcceptedBy(t, dels, adds)
BY UpdateFacts DEF AcceptedBy

\* An accepted route has a key and was learnt from a neighbor's router.
LEMMA AcceptedTypes ==
    ASSUME TypeInv, NEW q \in Peers, NEW k \in Accepted(adj[q])
    PROVE  k \in Keys /\ adj[q][k].src \in RouterIds
BY DEF TypeInv, TypeOK, Accepted, Cached, Table, Path

\* A handler replaces the table of p by one without new identifiers.
LEMMA IdTable ==
    ASSUME TypeInv, IdInv, NEW p \in Peers, NEW t \in Table, NEW ws,
           NoNewIds(adj[p], t), adj' = [adj EXCEPT ![p] = t], UNCHANGED ribVars,
           withdraws' = [withdraws EXCEPT ![p] = ws],
           \A w \in ws : w[1] \notin Accepted(t)
    PROVE  IdInv'
<1>1. loc' = loc /\ idMap' = idMap
  BY DEF ribVars
<1>2. ASSUME NEW q \in Peers, NEW k \in Keys, adj'[q][k] # NoPath, adj'[q][k].localID # 0
      PROVE  /\ adj[q][k] # NoPath /\ adj[q][k].localID = adj'[q][k].localID
             /\ adj[q][k].src = adj'[q][k].src /\ ~adj'[q][k].rejected
  <2>1. CASE q = p
    <3>1. adj'[q] = t
      BY <2>1 DEF TypeInv, TypeOK
    <3> QED
      BY <1>2, <2>1, <3>1 DEF NoNewIds
  <2>2. CASE q # p
    <3>1. adj'[q] = adj[q]
      BY <2>2 DEF TypeInv, TypeOK
    <3> QED
      BY <1>2, <3>1 DEF IdInv, RejectedHoldsNoId
  <2> QED
    BY <2>1, <2>2
<1>3. LocalIdsUnique' /\ LocalIdsInUse'
  BY <1>1 DEF IdInv, LocalIdsUnique, LocalIdsInUse
<1>4. RejectedHoldsNoId'
  BY <1>2 DEF RejectedHoldsNoId
<1>5. CachedIdsReserved'
  <2> SUFFICES ASSUME NEW q \in Peers, NEW k \in Keys, adj'[q][k] # NoPath, adj'[q][k].localID # 0
               PROVE  /\ adj'[q][k].localID \in idMap[k[1]]
                      /\ \A s \in Sources : loc[k[1]][s] # NoPath =>
                            (loc[k[1]][s].localID = adj'[q][k].localID
                               <=> s = SourceOf(q, adj'[q][k].src, k))
    BY <1>1 DEF CachedIdsReserved
  <2>1. /\ adj[q][k] # NoPath /\ adj[q][k].localID = adj'[q][k].localID
        /\ adj[q][k].src = adj'[q][k].src
    BY <1>2
  <2> QED
    BY <2>1 DEF IdInv, CachedIdsReserved
<1>6. CachedIdsUnique'
  <2> SUFFICES ASSUME NEW q \in Peers, NEW o \in Peers, NEW k \in Keys, NEW j \in Keys,
                      adj'[q][k] # NoPath, adj'[q][k].localID # 0,
                      adj'[o][j] # NoPath, adj'[o][j].localID = adj'[q][k].localID, k[1] = j[1]
               PROVE  q = o /\ k = j
    BY DEF CachedIdsUnique
  <2>1. adj[q][k] # NoPath /\ adj[q][k].localID = adj'[q][k].localID
    BY <1>2
  <2>2. adj[o][j] # NoPath /\ adj[o][j].localID = adj'[o][j].localID
    BY <1>2
  <2> QED
    BY <2>1, <2>2 DEF IdInv, CachedIdsUnique
<1>7. WithdrawnNotAccepted'
  <2> SUFFICES ASSUME NEW q \in Peers, NEW w \in withdraws'[q] PROVE w[1] \notin Accepted(adj'[q])
    BY DEF WithdrawnNotAccepted
  <2>1. CASE q = p
    BY <2>1 DEF TypeInv, TypeOK
  <2>2. CASE q # p
    <3>1. adj'[q] = adj[q] /\ withdraws'[q] = withdraws[q]
      BY <2>2 DEF TypeInv, TypeOK
    <3> QED
      BY <3>1 DEF IdInv, WithdrawnNotAccepted
  <2> QED
    BY <2>1, <2>2
<1> QED
  BY <1>3, <1>4, <1>5, <1>6, <1>7 DEF IdInv

LEMMA IdDrop ==
    ASSUME TypeInv, IdInv, NEW p \in Peers, DropTable(p), UNCHANGED ribVars,
           NEW ws, withdraws' = [withdraws EXCEPT ![p] = ws]
    PROVE  IdInv'
<1>1. /\ NewAdjRib \in Table /\ NoNewIds(adj[p], NewAdjRib)
      /\ \A w \in ws : w[1] \notin Accepted(NewAdjRib)
  BY DEF NewAdjRib, Table, NoNewIds, Accepted, Cached
<1>2. adj' = [adj EXCEPT ![p] = NewAdjRib]
  BY DEF DropTable
<1> QED
  BY <1>1, <1>2, IdTable, Zenon

\* What Update withdraws is not accepted any more.
LEMMA WithdrawnGone ==
    ASSUME NEW t \in Table, NEW dels, NEW adds, Updates(dels, adds),
           NEW k \in dels \cup Withdrawals(t, adds)
    PROVE  k \notin Accepted(Update(t, dels, adds))
<1> DEFINE B == {j \in DOMAIN adds : ~adds[j].rejected}
           R == (dels \cap Accepted(t)) \cup Withdrawals(t, adds)
<1>1. Accepted(Update(t, dels, adds)) = (Accepted(t) \ R) \cup B
  BY UpdateFacts
<1>2. k \notin B
  BY DEF Withdrawals, FallsOut, Updates
<1>3. k \in Accepted(t) => k \in R
  OBVIOUS
<1> HIDE DEF B, R
<1> QED
  BY <1>1, <1>2, <1>3

LEMMA IdUpdate ==
    ASSUME TypeInv, IdInv, NEW p \in Peers, NEW dels, NEW adds, NEW ws,
           Updates(dels, adds), UpdateTable(p, dels, adds), UNCHANGED ribVars,
           withdraws' = [withdraws EXCEPT ![p] = ws],
           \A w \in ws : w[1] \in dels \cup Withdrawals(adj[p], adds),
           \A k \in DOMAIN adds : adds[k].localID # 0 =>
               /\ adj[p][k] # NoPath /\ adj[p][k].localID = adds[k].localID
               /\ adj[p][k].src = adds[k].src
    PROVE  IdInv'
<1> DEFINE t == Update(adj[p], dels, adds)
<1>1. adj[p] \in Table
  BY DEF TypeInv, TypeOK
<1>2. t \in Table
  BY <1>1, UpdateFacts
<1>3. NoNewIds(adj[p], t)
  <2>1. \A k \in Keys : adj[p][k] # NoPath /\ adj[p][k].rejected => adj[p][k].localID = 0
    BY DEF IdInv, RejectedHoldsNoId
  <2> QED
    BY <1>1, <2>1, UpdateIds
<1>4. \A w \in ws : w[1] \notin Accepted(t)
  BY <1>1, WithdrawnGone
<1>5. adj' = [adj EXCEPT ![p] = t]
  BY DEF UpdateTable, TypeInv, TypeOK
<1> HIDE DEF t
<1> QED
  BY <1>2, <1>3, <1>4, <1>5, IdTable, Zenon

LEMMA IdHandleUpdate ==
    ASSUME TypeInv, IdInv, NEW p \in Peers, NEW dels \in SUBSET Keys, NEW adds \in SUBSET Keys,
           NEW a \in Attrs, HandleUpdate(p, dels, adds, a)
    PROVE  IdInv'
<1> DEFINE paths == [k \in adds |-> NewPath(p, a)]
           own == WithdrawalsOf(adj[p], Withdrawals(adj[p], paths))
           ws == own \cup (dels \X {rid[p]})
<1>1. /\ UpdateTable(p, dels, paths) /\ UNCHANGED ribVars
      /\ \/ withdraws' = [withdraws EXCEPT ![p] = {}]
         \/ withdraws' = [withdraws EXCEPT ![p] = ws]
      /\ dels \cap adds = {}
  BY DEF HandleUpdate, Walk
<1>2. Updates(dels, paths)
  BY <1>1, HandleUpdateFacts, ZenonT(90)
<1>3. \A w \in ws : w[1] \in dels \cup Withdrawals(adj[p], paths)
  <2>1. \A w \in own : w[1] \in Withdrawals(adj[p], paths)
    <3> HIDE DEF paths
    <3> QED
      BY DEF WithdrawalsOf
  <2>2. \A w \in dels \X {rid[p]} : w[1] \in dels
    OBVIOUS
  <2> HIDE DEF own, paths
  <2> QED
    BY <2>1, <2>2
<1>4. \A k \in DOMAIN paths : paths[k].localID = 0
  BY DEF NewPath
<1>5. \A w \in {} : w[1] \in dels \cup Withdrawals(adj[p], paths)
  OBVIOUS
<1> HIDE DEF paths, ws
<1>6. CASE withdraws' = [withdraws EXCEPT ![p] = {}]
  BY <1>1, <1>2, <1>4, <1>5, <1>6, IdUpdate, ZenonT(30)
<1>7. CASE withdraws' = [withdraws EXCEPT ![p] = ws]
  BY <1>1, <1>2, <1>3, <1>4, <1>7, IdUpdate, Zenon
<1> QED
  BY <1>1, <1>6, <1>7

LEMMA IdPeerRestart ==
    ASSUME TypeInv, IdInv, NEW p \in Peers, PeerRestart(p)
    PROVE  IdInv'
<1> DEFINE t == StaleAll(adj[p])
           ws == {}
<1>1. /\ adj' = [adj EXCEPT ![p] = t] /\ UNCHANGED ribVars
      /\ withdraws' = [withdraws EXCEPT ![p] = ws]
  BY DEF PeerRestart, Walk, TypeInv, TypeOK
<1>2. adj[p] \in Table
  BY DEF TypeInv, TypeOK
<1>3. t \in Table /\ Cached(t) = Cached(adj[p])
  BY <1>2, StaleAllFacts
<1>4. ASSUME NEW k \in Keys, t[k] # NoPath, t[k].localID # 0
      PROVE  /\ adj[p][k] # NoPath /\ adj[p][k].localID = t[k].localID
             /\ adj[p][k].src = t[k].src /\ ~t[k].rejected
  <2>1. k \in Cached(adj[p])
    BY <1>3, <1>4 DEF Cached
  <2>2. /\ t[k].rejected = adj[p][k].rejected /\ t[k].src = adj[p][k].src
        /\ t[k].localID = adj[p][k].localID
    BY <1>2, <2>1, StaleAllFacts
  <2> HIDE DEF t
  <2>3. adj[p][k] # NoPath
    BY <2>1 DEF Cached
  <2>4. ~adj[p][k].rejected
    BY <1>4, <2>2, <2>3 DEF IdInv, RejectedHoldsNoId
  <2> QED
    BY <2>2, <2>3, <2>4
<1>5. NoNewIds(adj[p], t)
  BY <1>4 DEF NoNewIds
<1>6. \A w \in ws : w[1] \notin Accepted(t)
  OBVIOUS
<1> HIDE DEF t, ws
<1> QED
  BY <1>1, <1>3, <1>5, <1>6, IdTable, Zenon

LEMMA IdStartLongLived ==
    ASSUME TypeInv, IdInv, NEW p \in Peers, StartLongLived(p)
    PROVE  IdInv'
<1> DEFINE t == adj[p]
           dels == LlgrDrops(t)
           adds == LlgrMarks(t)
           ws == WithdrawalsOf(t, dels \cap Accepted(t))
<1>1. /\ UpdateTable(p, dels, adds) /\ UNCHANGED ribVars
      /\ withdraws' = [withdraws EXCEPT ![p] = ws]
  BY DEF StartLongLived, Walk
<1>2. t \in Table
  BY DEF TypeInv, TypeOK
<1>3. Updates(dels, adds)
  BY <1>2, BulkUpdates
<1>4. \A w \in ws : w[1] \in dels \cup Withdrawals(t, adds)
  <2> HIDE DEF dels, adds
  <2> QED
    BY DEF WithdrawalsOf
<1>5. ASSUME NEW k \in DOMAIN adds
      PROVE  t[k] # NoPath /\ t[k].localID = adds[k].localID /\ t[k].src = adds[k].src
  <2>1. k \in Cached(t) /\ adds[k] = [t[k] EXCEPT !.llgr = TRUE]
    BY DEF LlgrMarks
  <2>2. t[k] # NoPath /\ t[k] \in Path
    BY <1>2, <2>1 DEF Cached, Table
  <2> QED
    BY <2>1, <2>2 DEF Path
<1> HIDE DEF dels, adds, ws
<1> QED
  BY <1>1, <1>3, <1>4, <1>5, IdUpdate, Zenon

LEMMA IdHandleEOR ==
    ASSUME TypeInv, IdInv, NEW p \in Peers, HandleEOR(p)
    PROVE  IdInv'
<1> DEFINE t == adj[p]
           dels == StaleKeys(t)
           adds == [k \in {} |-> NoPath]
           ws == WithdrawalsOf(t, dels \cap Accepted(t))
<1>1. /\ UpdateTable(p, dels, adds) /\ UNCHANGED ribVars
      /\ withdraws' = [withdraws EXCEPT ![p] = ws]
  BY DEF HandleEOR, Walk
<1>2. t \in Table
  BY DEF TypeInv, TypeOK
<1>3. Updates(dels, adds)
  BY <1>2, BulkUpdates
<1>4. \A w \in ws : w[1] \in dels \cup Withdrawals(t, adds)
  <2> HIDE DEF dels, adds
  <2> QED
    BY DEF WithdrawalsOf
<1>5. DOMAIN adds = {}
  OBVIOUS
<1> HIDE DEF dels, adds, ws
<1> QED
  BY <1>1, <1>3, <1>4, <1>5, IdUpdate, Zenon

LEMMA IdSoftResetIn ==
    ASSUME TypeInv, IdInv, NEW p \in Peers, SoftResetIn(p)
    PROVE  IdInv'
<1> DEFINE t == adj[p]
           none == {}
           adds == SetRejected(t, loops)
           ws == WithdrawalsOf(t, Withdrawals(t, adds))
<1>1. /\ UpdateTable(p, none, adds) /\ UNCHANGED ribVars
      /\ withdraws' = [withdraws EXCEPT ![p] = ws]
  BY DEF SoftResetIn, Walk
<1>2. t \in Table
  BY DEF TypeInv, TypeOK
<1>3. Updates(none, adds)
  BY <1>2, BulkUpdates
<1>4. \A w \in ws : w[1] \in none \cup Withdrawals(t, adds)
  <2> HIDE DEF adds
  <2> QED
    BY DEF WithdrawalsOf
<1>5. ASSUME NEW k \in DOMAIN adds
      PROVE  t[k] # NoPath /\ t[k].localID = adds[k].localID /\ t[k].src = adds[k].src
  <2>1. k \in Cached(t)
    BY DEF SetRejected
  <2>2. adds[k] = [t[k] EXCEPT !.rejected = (t[k].attr \in loops)]
    BY DEF SetRejected
  <2>3. t[k] # NoPath /\ t[k] \in Path
    BY <1>2, <2>1 DEF Cached, Table
  <2> HIDE DEF adds
  <2> QED
    BY <2>2, <2>3 DEF Path
<1> HIDE DEF none, adds, ws
<1> QED
  BY <1>1, <1>3, <1>4, <1>5, IdUpdate, Zenon

LEMMA IdAddPeer ==
    ASSUME TypeInv, IdInv, NEW p \in Peers, AddPeer(p)
    PROVE  IdInv'
<1>1. /\ DropTable(p) /\ UNCHANGED ribVars
      /\ withdraws' = [withdraws EXCEPT ![p] = withdraws[p]]
  BY DEF AddPeer, walkVars, TypeInv, TypeOK
<1> QED
  BY <1>1, IdDrop, Zenon

\* A source determines the neighbor and the path identifier.
LEMMA SourceInjective ==
    ASSUME NEW p, NEW q, NEW r, NEW x, NEW k \in Keys, NEW j \in Keys,
           SourceOf(p, r, k) = SourceOf(q, x, j), k[1] = j[1]
    PROVE  p = q /\ k = j
<1>1. p = q /\ k[2] = j[2]
  BY DEF SourceOf
<1>2. k = <<k[1], k[2]>> /\ j = <<j[1], j[2]>>
  BY DEF Keys
<1> QED
  BY <1>1, <1>2

\* What LocalIdFor returns is held by no other installed source.
LEMMA LocalIdHolder ==
    ASSUME TypeInv, IdInv, NEW n \in Nlri, NEW s \in Sources, NEW own \in Nat,
           own # 0 => \A x \in Sources : loc[n][x] # NoPath /\ loc[n][x].localID = own => x = s
    PROVE  \A x \in Sources : loc[n][x] # NoPath /\ x # s => loc[n][x].localID # LocalIdFor(n, s, own)
<1> SUFFICES ASSUME NEW x \in Sources, loc[n][x] # NoPath, x # s
             PROVE  loc[n][x].localID # LocalIdFor(n, s, own)
  OBVIOUS
<1>1. CASE loc[n][s] # NoPath
  BY <1>1 DEF LocalIdFor, IdInv, LocalIdsUnique
<1>2. CASE loc[n][s] = NoPath /\ own # 0
  BY <1>2 DEF LocalIdFor
<1>3. CASE loc[n][s] = NoPath /\ own = 0
  <2>1. idMap[n] \in SUBSET (Nat \ {0}) /\ IsFiniteSet(idMap[n])
    BY DEF TypeInv, TypeOK
  <2>2. FindandSetZeroBit(idMap[n]) \notin idMap[n]
    BY <2>1, FreshId
  <2>3. loc[n][x].localID \in idMap[n]
    BY DEF IdInv, LocalIdsInUse
  <2> QED
    BY <1>3, <2>2, <2>3 DEF LocalIdFor
<1> QED
  BY <1>1, <1>2, <1>3

\* A path whose identifier no other source holds enters the Loc-RIB.
LEMMA RibInstall ==
    ASSUME TypeInv, IdInv, NEW n \in Nlri, NEW s \in Sources, NEW new \in Installed,
           loc' = [loc EXCEPT ![n][s] = new],
           idMap' = [idMap EXCEPT ![n] = idMap[n] \cup {new.localID}],
           \A x \in Sources : loc[n][x] # NoPath /\ x # s => loc[n][x].localID # new.localID
    PROVE  LocalIdsUnique' /\ LocalIdsInUse'
<1>1. ASSUME NEW m \in Nlri, NEW x \in Sources
      PROVE  loc'[m][x] = IF m = n /\ x = s THEN new ELSE loc[m][x]
  BY DEF TypeInv, TypeOK
<1>2. ASSUME NEW m \in Nlri
      PROVE  idMap'[m] = IF m = n THEN idMap[n] \cup {new.localID} ELSE idMap[m]
  BY DEF TypeInv, TypeOK
<1>3. LocalIdsUnique'
  BY <1>1 DEF LocalIdsUnique, IdInv
<1>4. LocalIdsInUse'
  BY <1>1, <1>2 DEF LocalIdsInUse, IdInv
<1> QED
  BY <1>3, <1>4

\* A path leaves the Loc-RIB and its identifier stays in use.
LEMMA RibRemove ==
    ASSUME TypeInv, IdInv, NEW n \in Nlri, NEW s \in Sources,
           loc' = [loc EXCEPT ![n][s] = NoPath],
           UNCHANGED <<idMap, adj, withdraws>>
    PROVE  IdInv'
<1>1. ASSUME NEW m \in Nlri, NEW x \in Sources
      PROVE  loc'[m][x] = IF m = n /\ x = s THEN NoPath ELSE loc[m][x]
  BY DEF TypeInv, TypeOK
<1>2. LocalIdsUnique' /\ LocalIdsInUse'
  BY <1>1 DEF LocalIdsUnique, LocalIdsInUse, IdInv
<1>3. RejectedHoldsNoId' /\ CachedIdsUnique' /\ WithdrawnNotAccepted'
  BY DEF RejectedHoldsNoId, CachedIdsUnique, WithdrawnNotAccepted, IdInv
<1>4. CachedIdsReserved'
  <2> SUFFICES ASSUME NEW q \in Peers, NEW j \in Keys, adj[q][j] # NoPath, adj[q][j].localID # 0
               PROVE  /\ adj[q][j].localID \in idMap[j[1]]
                      /\ \A x \in Sources : loc'[j[1]][x] # NoPath =>
                            (loc'[j[1]][x].localID = adj[q][j].localID
                               <=> x = SourceOf(q, adj[q][j].src, j))
    BY DEF CachedIdsReserved
  <2>1. j[1] \in Nlri
    BY DEF Keys
  <2> QED
    BY <1>1, <2>1 DEF IdInv, CachedIdsReserved
<1> QED
  BY <1>2, <1>3, <1>4 DEF IdInv

LEMMA IdWithdraw ==
    ASSUME TypeInv, IdInv, NEW p \in Peers, PropagateWithdraw(p)
    PROVE  IdInv'
<1>1. PICK w \in withdraws[p] :
        LET n == w[1][1]
            s == SourceOf(p, w[2], w[1])
            old == loc[n][s]
        IN  /\ loc' = [loc EXCEPT ![n][s] = NoPath]
            /\ idMap' = [idMap EXCEPT ![n] = IF old = NoPath THEN @ ELSE @ \ {old.localID}]
            /\ Walk(p, withdraws[p] \ {w}, announces[p])
            /\ UNCHANGED tableVars
  BY Zenon DEF PropagateWithdraw
<1> DEFINE n == w[1][1]
           s == SourceOf(p, w[2], w[1])
           gone == IF loc[n][s] = NoPath THEN {} ELSE {loc[n][s].localID}
<1>2. w[1] \in Keys /\ w[2] \in RouterIds /\ n \in Nlri
  BY DEF TypeInv, TypeOK, Keys
<1>3. s \in Sources
  BY <1>2, SourceType
<1>4. adj' = adj /\ withdraws' = [withdraws EXCEPT ![p] = withdraws[p] \ {w}]
  BY <1>1, Zenon DEF tableVars, Walk
<1>5. ASSUME NEW m \in Nlri, NEW x \in Sources
      PROVE  loc'[m][x] = IF m = n /\ x = s THEN NoPath ELSE loc[m][x]
  BY <1>1 DEF TypeInv, TypeOK
<1>6. ASSUME NEW m \in Nlri
      PROVE  idMap'[m] = IF m = n THEN idMap[n] \ gone ELSE idMap[m]
  BY <1>1, Zenon DEF TypeInv, TypeOK
<1>7. ASSUME NEW q \in Peers, NEW j \in Keys, adj[q][j] # NoPath, adj[q][j].localID # 0, j[1] = n
      PROVE  adj[q][j].localID \notin gone
  <2> SUFFICES ASSUME loc[n][s] # NoPath, adj[q][j].localID = loc[n][s].localID PROVE FALSE
    BY SMTT(30)
  <2>1. s = SourceOf(q, adj[q][j].src, j)
    BY <1>3, <1>7, SMTT(30) DEF IdInv, CachedIdsReserved
  <2>2. q = p /\ j = w[1]
    <3>1. SourceOf(p, w[2], w[1]) = SourceOf(q, adj[q][j].src, j) /\ w[1][1] = j[1]
      BY <1>7, <2>1, Zenon
    <3> QED
      BY <1>2, <3>1, SourceInjective
  <2>3. j \notin Accepted(adj[p])
    BY <2>2, Zenon DEF IdInv, WithdrawnNotAccepted
  <2>4. adj[q][j].rejected
    BY <1>7, <2>2, <2>3 DEF Accepted, Cached
  <2> QED
    BY <1>7, <2>4, SMTT(30) DEF IdInv, RejectedHoldsNoId
<1>8. LocalIdsUnique'
  BY <1>5 DEF LocalIdsUnique, IdInv
<1>9. LocalIdsInUse'
  <2> SUFFICES ASSUME NEW m \in Nlri, NEW x \in Sources, loc'[m][x] # NoPath
               PROVE  loc'[m][x].localID \in idMap'[m]
    BY DEF LocalIdsInUse
  <2>1. loc'[m][x] = loc[m][x] /\ ~(m = n /\ x = s)
    BY <1>5
  <2>2. loc[m][x].localID \in idMap[m]
    BY <2>1, Zenon DEF IdInv, LocalIdsInUse
  <2>3. CASE m = n /\ loc[n][s] # NoPath
    <3>1. loc[n][x].localID # loc[n][s].localID
      BY <1>2, <1>3, <2>1, <2>3, Zenon DEF IdInv, LocalIdsUnique
    <3> QED
      BY <1>6, <2>1, <2>2, <2>3, <3>1, Zenon
  <2>4. CASE ~(m = n /\ loc[n][s] # NoPath)
    BY <1>6, <2>1, <2>2, <2>4, Zenon
  <2> QED
    BY <2>3, <2>4
<1>10. RejectedHoldsNoId' /\ CachedIdsUnique'
  BY <1>4 DEF RejectedHoldsNoId, CachedIdsUnique, IdInv
<1>11. WithdrawnNotAccepted'
  BY <1>4 DEF WithdrawnNotAccepted, IdInv, TypeInv, TypeOK
<1>12. CachedIdsReserved'
  <2> SUFFICES ASSUME NEW q \in Peers, NEW j \in Keys, adj[q][j] # NoPath, adj[q][j].localID # 0
               PROVE  /\ adj[q][j].localID \in idMap'[j[1]]
                      /\ \A x \in Sources : loc'[j[1]][x] # NoPath =>
                            (loc'[j[1]][x].localID = adj[q][j].localID
                               <=> x = SourceOf(q, adj[q][j].src, j))
    BY <1>4 DEF CachedIdsReserved
  <2>1. j[1] \in Nlri
    BY Zenon DEF Keys
  <2>2. adj[q][j].localID \in idMap[j[1]]
    BY ZenonT(30) DEF IdInv, CachedIdsReserved
  <2>3. adj[q][j].localID \in idMap'[j[1]]
    BY <1>6, <1>7, <2>1, <2>2
  <2> HIDE DEF n, s
  <2> QED
    BY <1>5, <2>1, <2>3, SMTT(30) DEF IdInv, CachedIdsReserved
<1> QED
  BY <1>8, <1>9, <1>10, <1>11, <1>12 DEF IdInv

\* The policy let the path in: its own source is the only holder of its
\* identifier, and the cached path may be given it.
LEMMA IdInstall ==
    ASSUME TypeInv, IdInv, NEW p \in Peers, NEW k \in Accepted(adj[p]), Install(p, k),
           withdraws' = withdraws
    PROVE  IdInv'
<1> DEFINE path == adj[p][k]
           n == k[1]
           s == SourceOf(p, path.src, k)
           id == LocalIdFor(n, s, path.localID)
           new == [attr |-> path.attr, llgr |-> path.llgr, localID |-> id]
<1>1. k \in Keys /\ n \in Nlri /\ path \in Path /\ path # NoPath /\ ~path.rejected
  BY DEF TypeInv, TypeOK, Accepted, Cached, Keys, Table
<1>2. s \in Sources /\ path.localID \in Nat
  BY <1>1, SourceType, Zenon DEF Path
<1>3. id \in Nat \ {0}
  BY <1>1, <1>2, LocalIdType DEF TypeInv
<1>4. /\ loc' = [loc EXCEPT ![n][s] = new]
      /\ idMap' = [idMap EXCEPT ![n] = idMap[n] \cup {new.localID}]
  BY Zenon DEF Install
<1>5. new \in Installed /\ new.localID = id
  BY <1>1, <1>3 DEF Installed, Path
<1>6. path.localID # 0 =>
        /\ path.localID \in idMap[n]
        /\ \A x \in Sources : loc[n][x] # NoPath => (loc[n][x].localID = path.localID <=> x = s)
  BY <1>1 DEF IdInv, CachedIdsReserved
<1>7. \A x \in Sources : loc[n][x] # NoPath /\ x # s => loc[n][x].localID # id
  <2> HIDE DEF path, n, s
  <2> QED
    BY <1>1, <1>2, <1>6, LocalIdHolder, Zenon
\* The cached path holds its identifier or none.
<1>8. path.localID # 0 => path.localID = id
  BY <1>2, <1>6, Zenon DEF LocalIdFor
\* Nobody else in the caches holds it.
<1>9. ASSUME NEW q \in Peers, NEW j \in Keys, adj[q][j] # NoPath, adj[q][j].localID # 0,
             j[1] = n, ~(q = p /\ j = k)
      PROVE  adj[q][j].localID # id /\ s # SourceOf(q, adj[q][j].src, j)
  <2>1. s # SourceOf(q, adj[q][j].src, j)
    BY <1>1, <1>9, SourceInjective
  <2>2. CASE loc[n][s] # NoPath
    <3>1. id = loc[n][s].localID
      BY <2>2, Zenon DEF LocalIdFor
    <3>2. loc[n][s].localID # adj[q][j].localID
      BY <1>2, <1>9, <2>1, <2>2 DEF IdInv, CachedIdsReserved
    <3> QED
      BY <2>1, <3>1, <3>2, Zenon
  <2>3. CASE loc[n][s] = NoPath /\ path.localID # 0
    <3>1. path.localID # adj[q][j].localID
      BY <1>1, <1>9, <2>3, Zenon DEF IdInv, CachedIdsUnique
    <3> QED
      BY <1>8, <2>1, <2>3, <3>1, Zenon
  <2>4. CASE loc[n][s] = NoPath /\ path.localID = 0
    <3>1. idMap[n] \in SUBSET (Nat \ {0}) /\ IsFiniteSet(idMap[n])
      BY <1>1, Zenon DEF TypeInv, TypeOK
    <3>2. FindandSetZeroBit(idMap[n]) \notin idMap[n]
      BY <3>1, FreshId
    <3>3. id = FindandSetZeroBit(idMap[n])
      BY <2>4, SMTT(30) DEF LocalIdFor
    <3>4. adj[q][j].localID \in idMap[n]
      BY <1>9 DEF IdInv, CachedIdsReserved
    <3> QED
      BY <2>1, <3>2, <3>3, <3>4, Zenon
  <2> QED
    BY <2>2, <2>3, <2>4, Zenon
<1>10. LocalIdsUnique' /\ LocalIdsInUse'
  <2> HIDE DEF n, s, id, new
  <2> QED
    BY <1>1, <1>2, <1>4, <1>5, <1>7, RibInstall, ZenonT(30)
<1>11. ASSUME NEW m \in Nlri, NEW x \in Sources
       PROVE  loc'[m][x] = IF m = n /\ x = s THEN new ELSE loc[m][x]
  <2> HIDE DEF n, s, new
  <2> QED
    BY <1>4 DEF TypeInv, TypeOK
<1>12. ASSUME NEW m \in Nlri
       PROVE  idMap'[m] = IF m = n THEN idMap[n] \cup {id} ELSE idMap[m]
  <2> HIDE DEF n, id
  <2> QED
    BY <1>4, <1>5 DEF TypeInv, TypeOK
<1>13. ASSUME NEW q \in Peers, NEW j \in Keys, ~(q = p /\ j = k)
       PROVE  adj'[q][j] = adj[q][j]
  <2> HIDE DEF id, path
  <2>1. adj' = [adj EXCEPT ![p][k].localID = id] \/ adj' = adj
    BY DEF Install, id, path
  <2>2. adj \in [Peers -> Table]
    BY DEF TypeInv, TypeOK
  <2> QED
    BY <1>13, <2>1, <2>2 DEF Table
<1>14. /\ adj'[p][k] # NoPath /\ ~adj'[p][k].rejected /\ adj'[p][k].src = path.src
       /\ adj'[p][k].localID # 0 => adj'[p][k].localID = id
  <2>1. CASE adj' = adj
    BY <1>1, <1>8, <2>1
  <2>2. CASE adj' = [adj EXCEPT ![p][k].localID = id]
    <3>1. adj \in [Peers -> Table]
      BY DEF TypeInv, TypeOK
    <3> HIDE DEF id
    <3>2. adj'[p][k] = [path EXCEPT !.localID = id]
      BY <1>1, <2>2, <3>1 DEF Table
    <3>3. adj'[p][k] \in Path /\ adj'[p][k].rejected = path.rejected
          /\ adj'[p][k].src = path.src /\ adj'[p][k].localID = id
      BY <1>1, <1>3, <3>2, Zenon DEF Path
    <3> QED
      BY <1>1, <3>3, NoPathAssumption
  <2> QED
    BY <2>1, <2>2, Zenon DEF Install
<1> HIDE DEF path, n, s, id, new
<1>15. RejectedHoldsNoId'
  <2> SUFFICES ASSUME NEW q \in Peers, NEW j \in Keys, adj'[q][j] # NoPath, adj'[q][j].rejected
               PROVE  adj'[q][j].localID = 0
    BY Zenon DEF RejectedHoldsNoId
  <2> QED
    BY <1>13, <1>14 DEF IdInv, RejectedHoldsNoId
<1>16. CachedIdsReserved'
  <2> SUFFICES ASSUME NEW q \in Peers, NEW j \in Keys, adj'[q][j] # NoPath, adj'[q][j].localID # 0
               PROVE  /\ adj'[q][j].localID \in idMap'[j[1]]
                      /\ \A x \in Sources : loc'[j[1]][x] # NoPath =>
                            (loc'[j[1]][x].localID = adj'[q][j].localID
                               <=> x = SourceOf(q, adj'[q][j].src, j))
    BY DEF CachedIdsReserved
  <2>1. j[1] \in Nlri
    BY DEF Keys
  <2>2. CASE q = p /\ j = k
    <3>1. j[1] = n /\ adj'[q][j].localID = id /\ SourceOf(q, adj'[q][j].src, j) = s
      BY <1>14, <2>2 DEF n, s
    <3>2. ASSUME NEW x \in Sources, loc'[n][x] # NoPath PROVE loc'[n][x].localID = id <=> x = s
      BY <1>1, <1>5, <1>7, <1>11, <3>2, ZenonT(30)
    <3> QED
      BY <1>1, <1>12, <3>1, <3>2, Zenon
  <2>3. CASE ~(q = p /\ j = k)
    <3>1. adj'[q][j] = adj[q][j]
      BY <1>13, <2>3, ZenonT(30)
    <3>2. /\ adj[q][j].localID \in idMap[j[1]]
          /\ \A x \in Sources : loc[j[1]][x] # NoPath =>
                (loc[j[1]][x].localID = adj[q][j].localID <=> x = SourceOf(q, adj[q][j].src, j))
      BY <3>1, SMTT(90) DEF IdInv, CachedIdsReserved
    <3>3. CASE j[1] = n
      <4>1. adj[q][j].localID # id /\ s # SourceOf(q, adj[q][j].src, j)
        BY <1>9, <2>3, <3>1, <3>3, Zenon
      <4> QED
        BY <1>1, <1>5, <1>11, <1>12, <3>1, <3>2, <3>3, <4>1, SMTT(60)
    <3>4. CASE j[1] # n
      BY <1>11, <1>12, <2>1, <3>1, <3>2, <3>4, SMTT(60)
    <3> QED
      BY <3>3, <3>4
  <2> QED
    BY <2>2, <2>3, Zenon
<1>17. CachedIdsUnique'
  <2> SUFFICES ASSUME NEW q \in Peers, NEW o \in Peers, NEW i \in Keys, NEW j \in Keys,
                      adj'[q][i] # NoPath, adj'[q][i].localID # 0,
                      adj'[o][j] # NoPath, adj'[o][j].localID = adj'[q][i].localID, i[1] = j[1],
                      ~(q = o /\ i = j)
               PROVE  FALSE
    BY DEF CachedIdsUnique
  <2>1. CASE q = p /\ i = k
    <3>1. adj'[q][i].localID = id /\ j[1] = n
      BY <1>14, <2>1, Zenon DEF n
    <3> QED
      BY <1>9, <1>13, <2>1, <3>1
  <2>2. CASE o = p /\ j = k
    <3>1. adj'[o][j].localID = id /\ i[1] = n
      BY <1>14, <2>2, Zenon DEF n
    <3> QED
      BY <1>9, <1>13, <2>2, <3>1
  <2>3. CASE ~(q = p /\ i = k) /\ ~(o = p /\ j = k)
    <3>1. adj'[q][i] = adj[q][i] /\ adj'[o][j] = adj[o][j]
      BY <1>13, <2>3
    <3> QED
      BY <3>1 DEF IdInv, CachedIdsUnique
  <2> QED
    BY <2>1, <2>2, <2>3
<1>18. WithdrawnNotAccepted'
  <2> SUFFICES ASSUME NEW q \in Peers, NEW w \in withdraws[q], w[1] \in Accepted(adj'[q]) PROVE FALSE
    BY DEF WithdrawnNotAccepted
  <2>1. w[1] \in Keys /\ adj'[q][w[1]] # NoPath /\ ~adj'[q][w[1]].rejected
    BY DEF Accepted, Cached
  <2>2. w[1] \in Accepted(adj[q])
    <3>1. CASE q = p /\ w[1] = k
      BY <3>1
    <3>2. CASE ~(q = p /\ w[1] = k)
      BY <1>13, <2>1, <3>2, Zenon DEF Accepted, Cached
    <3> QED
      BY <3>1, <3>2
  <2> QED
    BY <2>2, Zenon DEF IdInv, WithdrawnNotAccepted
<1> QED
  BY <1>10, <1>15, <1>16, <1>17, <1>18 DEF IdInv

LEMMA IdAnnounce ==
    ASSUME TypeInv, IdInv, NEW p \in Peers, PropagateAnnounce(p)
    PROVE  IdInv'
<1>1. PICK k \in announces[p] :
        (Install(p, k) \/ Filter(p, k)) /\ Walk(p, withdraws[p], announces[p] \ {k})
  BY DEF PropagateAnnounce
<1>2. withdraws' = withdraws
  BY <1>1 DEF Walk, TypeInv, TypeOK
<1>3. k \in Accepted(adj[p]) /\ k \in Keys /\ k[1] \in Nlri /\ adj[p][k] \in Path
  BY DEF TypeInv, TypeOK, AnnouncedAccepted, Accepted, Cached, Keys, Table
<1>4. CASE Install(p, k)
  BY <1>2, <1>3, <1>4, IdInstall
<1>5. CASE Filter(p, k)
  <2> DEFINE n == k[1]
             s == SourceOf(p, adj[p][k].src, k)
  <2>1. s \in Sources
    BY <1>3, SourceType DEF Path
  <2>2. loc' = [loc EXCEPT ![n][s] = NoPath] /\ UNCHANGED <<idMap, adj, withdraws>>
    BY <1>2, <1>5 DEF Filter
  <2> HIDE DEF n, s
  <2> QED
    BY <1>3, <2>1, <2>2, RibRemove, Zenon DEF n
<1> QED
  BY <1>1, <1>4, <1>5, Zenon

LEMMA IdAddPath ==
    ASSUME TypeInv, IdInv, NEW n \in Nlri, NEW a \in Attrs, AddPath(n, a)
    PROVE  IdInv'
<1> DEFINE id == LocalIdFor(n, Local, 0)
           new == [attr |-> a, llgr |-> FALSE, localID |-> id]
<1>1. Local \in Sources
  BY DEF Sources
<1>2. UNCHANGED <<adj, withdraws>>
  BY DEF AddPath, tableVars, walkVars
<1>3. CASE policy[a] = "reject"
  BY <1>1, <1>2, <1>3, RibRemove DEF AddPath
<1>4. CASE policy[a] # "reject"
  <2>1. id \in Nat \ {0}
    BY <1>1, LocalIdType DEF TypeInv
  <2>2. new \in Installed /\ new.localID = id
    BY <2>1 DEF Installed
  <2>3. /\ loc' = [loc EXCEPT ![n][Local] = new]
        /\ idMap' = [idMap EXCEPT ![n] = idMap[n] \cup {new.localID}]
    BY <1>4 DEF AddPath
  <2>4. \A x \in Sources : loc[n][x] # NoPath /\ x # Local => loc[n][x].localID # id
    BY <1>1, LocalIdHolder
  \* No cached path holds the identifier.
  <2>5. ASSUME NEW q \in Peers, NEW j \in Keys, adj[q][j] # NoPath, adj[q][j].localID # 0, j[1] = n
        PROVE  adj[q][j].localID # id /\ Local # SourceOf(q, adj[q][j].src, j)
    <3>1. adj[q][j] \in Path /\ j[2] \in PathIds
      BY <2>5 DEF TypeInv, TypeOK, Table, Keys
    <3>2. Local # SourceOf(q, adj[q][j].src, j)
      BY <3>1, LocalAssumption DEF SourceOf, Path
    <3>3. CASE loc[n][Local] # NoPath
      BY <1>1, <2>5, <3>2, <3>3, Zenon DEF IdInv, CachedIdsReserved, LocalIdFor
    <3>4. CASE loc[n][Local] = NoPath
      <4>1. idMap[n] \in SUBSET (Nat \ {0}) /\ IsFiniteSet(idMap[n])
        BY DEF TypeInv, TypeOK
      <4>2. FindandSetZeroBit(idMap[n]) \notin idMap[n]
        BY <4>1, FreshId, Zenon
      <4>3. id = FindandSetZeroBit(idMap[n])
        BY <3>4, Zenon DEF LocalIdFor
      <4>4. adj[q][j].localID \in idMap[n]
        BY <2>5 DEF IdInv, CachedIdsReserved
      <4> QED
        BY <3>2, <4>2, <4>3, <4>4
    <3> QED
      BY <3>3, <3>4
  <2> HIDE DEF id, new
  <2>6. LocalIdsUnique' /\ LocalIdsInUse'
    BY <1>1, <2>2, <2>3, <2>4, RibInstall, ZenonT(30)
  <2>7. RejectedHoldsNoId' /\ CachedIdsUnique' /\ WithdrawnNotAccepted'
    BY <1>2 DEF RejectedHoldsNoId, CachedIdsUnique, WithdrawnNotAccepted, IdInv
  <2>8. ASSUME NEW m \in Nlri, NEW x \in Sources
        PROVE  loc'[m][x] = IF m = n /\ x = Local THEN new ELSE loc[m][x]
    BY <2>3 DEF TypeInv, TypeOK
  <2>9. ASSUME NEW m \in Nlri
        PROVE  idMap'[m] = IF m = n THEN idMap[n] \cup {id} ELSE idMap[m]
    BY <2>2, <2>3 DEF TypeInv, TypeOK
  <2>10. CachedIdsReserved'
    <3> SUFFICES ASSUME NEW q \in Peers, NEW j \in Keys, adj[q][j] # NoPath, adj[q][j].localID # 0
                 PROVE  /\ adj[q][j].localID \in idMap'[j[1]]
                        /\ \A x \in Sources : loc'[j[1]][x] # NoPath =>
                              (loc'[j[1]][x].localID = adj[q][j].localID
                                 <=> x = SourceOf(q, adj[q][j].src, j))
      BY <1>2 DEF CachedIdsReserved
    <3>1. j[1] \in Nlri
      BY Zenon DEF Keys
    <3>2. /\ adj[q][j].localID \in idMap[j[1]]
          /\ \A x \in Sources : loc[j[1]][x] # NoPath =>
                (loc[j[1]][x].localID = adj[q][j].localID <=> x = SourceOf(q, adj[q][j].src, j))
      BY ZenonT(30) DEF IdInv, CachedIdsReserved
    <3>3. CASE j[1] = n
      <4>1. adj[q][j].localID # id /\ Local # SourceOf(q, adj[q][j].src, j)
        BY <2>5, <3>3, Zenon
      <4>2. adj[q][j].localID \in idMap'[j[1]]
        BY <2>9, <3>1, <3>2, <3>3, Zenon
      <4>3. ASSUME NEW x \in Sources, loc'[j[1]][x] # NoPath
            PROVE  loc'[j[1]][x].localID = adj[q][j].localID <=> x = SourceOf(q, adj[q][j].src, j)
        <5>1. CASE x = Local
          BY <2>2, <2>8, <3>1, <3>3, <4>1, <5>1, Zenon
        <5>2. CASE x # Local
          BY <2>8, <3>1, <3>2, <4>3, <5>2, Zenon
        <5> QED
          BY <5>1, <5>2, Zenon
      <4> QED
        BY <4>2, <4>3, Zenon
    <3>4. CASE j[1] # n
      <4>1. idMap'[j[1]] = idMap[j[1]] /\ \A x \in Sources : loc'[j[1]][x] = loc[j[1]][x]
        BY <2>8, <2>9, <3>1, <3>4, Zenon
      <4> QED
        BY <3>2, <4>1, Zenon
    <3> QED
      BY <3>3, <3>4, Zenon
  <2> QED
    BY <2>6, <2>7, <2>10 DEF IdInv
<1> QED
  BY <1>3, <1>4

LEMMA IdDeletePath ==
    ASSUME TypeInv, IdInv, NEW n \in Nlri, DeletePath(n)
    PROVE  IdInv'
<1>1. Local \in Sources
  BY ZenonT(30) DEF Sources
<1> QED
  BY <1>1, RibRemove, Zenon DEF DeletePath, tableVars, walkVars

\* A step that touches neither tables nor walks.
LEMMA IdOther ==
    ASSUME IdInv, UNCHANGED <<tableVars, ribVars, walkVars>>
    PROVE  IdInv'
<1>1. /\ adj' = adj /\ loc' = loc /\ idMap' = idMap /\ withdraws' = withdraws
  BY Zenon DEF tableVars, ribVars, walkVars
<1>2. LocalIdsUnique' /\ LocalIdsInUse'
  BY <1>1, Zenon DEF IdInv, LocalIdsUnique, LocalIdsInUse
<1>3. RejectedHoldsNoId' /\ CachedIdsUnique'
  BY <1>1, Zenon DEF IdInv, RejectedHoldsNoId, CachedIdsUnique
<1>4. CachedIdsReserved' /\ WithdrawnNotAccepted'
  BY <1>1, Zenon DEF IdInv, CachedIdsReserved, WithdrawnNotAccepted
<1> QED
  BY <1>2, <1>3, <1>4, Zenon DEF IdInv

LEMMA IdInit == Init => IdInv
<1> SUFFICES ASSUME Init PROVE IdInv
  OBVIOUS
<1>1. \A n \in Nlri, s \in Sources : loc[n][s] = NoPath
  BY DEF Init
<1>2. \A p \in Peers, k \in Keys : adj[p][k] = NoPath
  BY DEF Init, NewAdjRib
<1>3. \A p \in Peers : withdraws[p] = {}
  BY DEF Init
<1> QED
  BY <1>1, <1>2, <1>3, Zenon DEF IdInv, LocalIdsUnique, LocalIdsInUse, RejectedHoldsNoId,
     CachedIdsReserved, CachedIdsUnique, WithdrawnNotAccepted

LEMMA IdStep == TypeInv /\ IdInv /\ [Next]_vars => IdInv'
<1> SUFFICES ASSUME TypeInv, IdInv, [Next]_vars PROVE IdInv'
  OBVIOUS
<1>1. ASSUME NEW p \in Peers, NEW r \in RouterIds, Establish(p, r) PROVE IdInv'
  BY <1>1, IdOther DEF Establish
<1>2. ASSUME NEW p \in Peers, NEW graceful \in BOOLEAN, PeerDown(p, graceful) PROVE IdInv'
  BY <1>2, IdDrop, Zenon DEF PeerDown, Walk
<1>3. ASSUME NEW p \in Peers, RestartFailed(p) PROVE IdInv'
  BY <1>3, IdDrop, Zenon DEF RestartFailed, Walk
<1>4. ASSUME NEW p \in Peers, LlgrTimeout(p) PROVE IdInv'
  BY <1>4, IdOther DEF LlgrTimeout
<1>5. ASSUME NEW p \in Peers, LlgrRestartTimerExpired(p) PROVE IdInv'
  BY <1>5, IdDrop, Zenon DEF LlgrRestartTimerExpired, Walk
<1>6. ASSUME NEW p \in Peers, DeletePeer(p) PROVE IdInv'
  BY <1>6, IdDrop, Zenon DEF DeletePeer, Walk
<1>7. ASSUME NEW p \in Peers, FsmExit(p) PROVE IdInv'
  BY <1>7, IdOther DEF FsmExit
<1>8. ASSUME NEW new \in Policies, SetPolicies(new) PROVE IdInv'
  BY <1>8, IdOther DEF SetPolicies
<1>9. ASSUME NEW l \in LoopSets, SetLoops(l) PROVE IdInv'
  BY <1>9, IdOther DEF SetLoops
<1>10. ASSUME UNCHANGED vars PROVE IdInv'
  BY <1>10, IdOther DEF vars
<1>11. ASSUME NEW p \in Peers, PeerNext(p) PROVE IdInv'
  BY <1>11, <1>1, <1>2, <1>3, IdWithdraw, IdAnnounce, IdHandleUpdate,
     IdPeerRestart, IdHandleEOR, IdSoftResetIn, Zenon DEF PeerNext
<1>12. ASSUME OperatorNext PROVE IdInv'
  BY <1>12, <1>6, <1>7, <1>8, <1>9, IdAddPath, IdDeletePath, IdAddPeer,
     LocalAssumption, PeersAssumption, Zenon DEF OperatorNext
<1>13. ASSUME NEW p \in LlgrPeers, LongLivedNext(p) PROVE IdInv'
  BY <1>13, <1>4, <1>5, IdStartLongLived, PeersAssumption DEF LongLivedNext
<1> QED
  BY <1>10, <1>11, <1>12, <1>13 DEF Next

\* Every reachable state satisfies the inductive invariant on identifiers:
\* installed or cached, an identifier has one holder (destination.go, adj.go).
THEOREM IdsCorrect == Spec => []IdInv
BY TypeInit, TypeStep, IdInit, IdStep, PTL DEF Spec

\* Two paths of a destination never share a local path identifier, however the
\* walks of the neighbors interleave (Table.update, FindandSetZeroBit).
THEOREM LocalIdsUniqueCorrect == Spec => []LocalIdsUnique
<1>1. IdInv => LocalIdsUnique
  BY DEF IdInv
<1> QED
  BY <1>1, IdsCorrect, PTL

\* A rejected entry of an Adj-RIB-In never holds a local path identifier
\* (AdjRib.Update, SetRejected).
THEOREM RejectedCorrect == Spec => []RejectedHoldsNoId
<1>1. IdInv => RejectedHoldsNoId
  BY DEF IdInv
<1> QED
  BY <1>1, IdsCorrect, PTL

\* What a step of StableLocalId may do.
KeepsIds ==
    \A n \in Nlri, s \in Sources :
        loc[n][s] # NoPath /\ loc'[n][s] # NoPath => loc'[n][s].localID = loc[n][s].localID

LEMMA StableSet ==
    ASSUME TypeInv, NEW n \in Nlri, NEW s \in Sources, NEW new,
           loc' = [loc EXCEPT ![n][s] = new],
           loc[n][s] # NoPath /\ new # NoPath => new.localID = loc[n][s].localID
    PROVE  KeepsIds
<1>1. ASSUME NEW m \in Nlri, NEW x \in Sources
      PROVE  loc'[m][x] = IF m = n /\ x = s THEN new ELSE loc[m][x]
  BY DEF TypeInv, TypeOK
<1> QED
  BY <1>1 DEF KeepsIds

LEMMA StableStep == TypeInv /\ Next => KeepsIds
<1> SUFFICES ASSUME TypeInv, Next PROVE KeepsIds
  OBVIOUS
<1>1. ASSUME loc' = loc PROVE KeepsIds
  BY <1>1 DEF KeepsIds
<1>2. ASSUME NEW p \in Peers, PropagateWithdraw(p) PROVE KeepsIds
  <2>1. PICK w \in withdraws[p] : loc' = [loc EXCEPT ![w[1][1]][SourceOf(p, w[2], w[1])] = NoPath]
    BY <1>2, Zenon DEF PropagateWithdraw
  <2> DEFINE n == w[1][1]
             s == SourceOf(p, w[2], w[1])
  <2>2. w[1] \in Keys /\ w[2] \in RouterIds /\ n \in Nlri
    BY DEF TypeInv, TypeOK, Keys
  <2>3. s \in Sources
    BY <2>2, SourceType
  <2> HIDE DEF n, s
  <2> QED
    BY <2>1, <2>2, <2>3, StableSet, Zenon DEF n, s
<1>3. ASSUME NEW p \in Peers, PropagateAnnounce(p) PROVE KeepsIds
  <2>1. PICK k \in announces[p] : Install(p, k) \/ Filter(p, k)
    BY <1>3, Zenon DEF PropagateAnnounce
  <2> DEFINE n == k[1]
             s == SourceOf(p, adj[p][k].src, k)
             id == LocalIdFor(n, s, adj[p][k].localID)
             new == [attr |-> adj[p][k].attr, llgr |-> adj[p][k].llgr, localID |-> id]
  <2>2. k \in Keys /\ n \in Nlri /\ adj[p][k] \in Path
    BY DEF TypeInv, TypeOK, AnnouncedAccepted, Accepted, Cached, Keys, Table
  <2>3. s \in Sources
    BY <2>2, SourceType DEF Path
  <2>4. loc' = [loc EXCEPT ![n][s] = new] \/ loc' = [loc EXCEPT ![n][s] = NoPath]
    BY <2>1, Zenon DEF Install, Filter
  <2>5. loc[n][s] # NoPath => new.localID = loc[n][s].localID
    BY DEF LocalIdFor
  <2> HIDE DEF n, s, new
  <2> QED
    BY <2>2, <2>3, <2>4, <2>5, StableSet, Zenon DEF n
<1>4. ASSUME NEW n \in Nlri, NEW a \in Attrs, AddPath(n, a) PROVE KeepsIds
  <2> DEFINE new == [attr |-> a, llgr |-> FALSE, localID |-> LocalIdFor(n, Local, 0)]
  <2>1. loc' = [loc EXCEPT ![n][Local] = new] \/ loc' = [loc EXCEPT ![n][Local] = NoPath]
    BY <1>4, Zenon DEF AddPath
  <2>2. Local \in Sources /\ (loc[n][Local] # NoPath => new.localID = loc[n][Local].localID)
    BY DEF LocalIdFor, Sources
  <2> HIDE DEF new
  <2> QED
    BY <2>1, <2>2, StableSet
<1>5. ASSUME NEW n \in Nlri, DeletePath(n) PROVE KeepsIds
  <2>1. Local \in Sources
    BY DEF Sources
  <2> QED
    BY <1>5, <2>1, StableSet, Zenon DEF DeletePath
<1>6. ASSUME NEW p \in Peers, PeerNext(p), ~PropagateWithdraw(p), ~PropagateAnnounce(p)
      PROVE  loc' = loc
  BY <1>6, Zenon DEF PeerNext, Establish, HandleUpdate, PeerDown, PeerRestart, RestartFailed,
     HandleEOR, SoftResetIn, ribVars
<1>7. ASSUME NEW p \in Peers, DeletePeer(p) \/ FsmExit(p) \/ AddPeer(p) PROVE loc' = loc
  BY <1>7 DEF DeletePeer, FsmExit, AddPeer, ribVars
<1>8. ASSUME NEW x, SetPolicies(x) \/ SetLoops(x) PROVE loc' = loc
  BY <1>8 DEF SetPolicies, SetLoops, ribVars
<1>9. ASSUME NEW p \in LlgrPeers, LongLivedNext(p) PROVE loc' = loc
  BY <1>9, Zenon DEF LongLivedNext, StartLongLived, LlgrTimeout, LlgrRestartTimerExpired, ribVars
<1> QED
  BY <1>1, <1>2, <1>3, <1>4, <1>5, <1>6, <1>7, <1>8, <1>9, LocalAssumption, PeersAssumption, Zenon
  DEF Next, OperatorNext

\* A path that replaces an installed one keeps its identifier (Table.update),
\* so the neighbors it was advertised to see an update of the same path.
THEOREM StableCorrect == Spec => StableLocalId
<1>1. TypeInv /\ [Next]_vars => [KeepsIds]_vars
  BY StableStep, Zenon
<1> QED
  BY <1>1, TypeInit, TypeStep, PTL DEF Spec, StableLocalId, KeepsIds

-----------------------------------------------------------------------------
(* The Loc-RIB follows the Adj-RIB-Ins.                                    *)

\* Neighbors that come back keep their BGP identifier, none has a prefix limit
\* and none is deleted.  Each of the three can leave a path behind: the limit
\* in the run rib_in_prefix_limit, a new identifier because the source of a
\* path includes it, and a deleted neighbor when its last UPDATE is handled
\* after its table was dropped.
Steady ==
    /\ MaxPrefixes = 0
    /\ Deletable = {}
    /\ \A r, x \in RouterIds : r = x

\* What the import policy and the cached path make of the installed one.
Matches(path, here) ==
    IF policy[path.attr] = "reject" THEN here = NoPath
    ELSE here # NoPath /\ here.attr = path.attr /\ here.llgr = path.llgr

\* LocFollows in the middle of a walk: what is accepted and not on the list of
\* the walk any more is installed as the policy wants it.
FollowInv ==
    /\ LocBacked
    /\ \A p \in Peers \ dirty : \A k \in Accepted(adj[p]) \ announces[p] :
           Matches(adj[p][k], loc[k[1]][SourceOf(p, adj[p][k].src, k)])

LEMMA FollowImplies == TypeInv /\ FollowInv => LocFollows
<1> SUFFICES ASSUME TypeInv, FollowInv, NEW p \in Peers \ dirty, ~Walking(p),
                    NEW r \in RouterIds, NEW k \in Keys
             PROVE  LET path == adj[p][k]
                        here == loc[k[1]][SourceOf(p, r, k)]
                        wanted == k \in Accepted(adj[p]) /\ path.src = r /\ policy[path.attr] # "reject"
                    IN  /\ here # NoPath <=> wanted
                        /\ wanted => here.attr = path.attr /\ here.llgr = path.llgr
  BY DEF LocFollows, LocExact, FollowInv
<1>1. withdraws[p] = {} /\ announces[p] = {}
  BY Zenon DEF Walking
<1>2. loc[k[1]][SourceOf(p, r, k)] # NoPath => k \in Accepted(adj[p]) /\ adj[p][k].src = r
  BY <1>1, Zenon DEF FollowInv, LocBacked
<1>3. k \in Accepted(adj[p]) => Matches(adj[p][k], loc[k[1]][SourceOf(p, adj[p][k].src, k)])
  BY <1>1, Zenon DEF FollowInv
<1> QED
  BY <1>2, <1>3, Zenon DEF Matches

LEMMA FollowInit == Init => FollowInv
<1> SUFFICES ASSUME Init PROVE FollowInv
  OBVIOUS
<1>1. ASSUME NEW p \in Peers, NEW r \in RouterIds, NEW k \in Keys
      PROVE  loc[k[1]][SourceOf(p, r, k)] = NoPath
  <2>1. k[1] \in Nlri
    BY DEF Keys
  <2> QED
    BY <2>1, SourceType DEF Init
<1>2. \A p \in Peers : Accepted(adj[p]) = {}
  BY Zenon DEF Init, NewAdjRib, Accepted, Cached
<1> QED
  BY <1>1, <1>2 DEF FollowInv, LocBacked

\* The policy as it was, what is left to show of the next state.
LEMMA FollowNext ==
    ASSUME policy' = policy, LocBacked',
           \A p \in Peers \ dirty' : \A k \in Accepted(adj'[p]) \ announces'[p] :
               Matches(adj'[p][k], loc'[k[1]][SourceOf(p, adj'[p][k].src, k)])
    PROVE  FollowInv'
BY Zenon DEF FollowInv, Matches

\* A handler replaces the table of p and leaves a list: what falls out of the
\* table is withdrawn, what is new in it is announced.
LEMMA FollowTable ==
    ASSUME TypeInv, FollowInv, NEW p \in Peers, NEW t, NEW ws, NEW ks, ~Walking(p),
           adj' = [adj EXCEPT ![p] = t], UNCHANGED ribVars, policy' = policy,
           Walk(p, ws, ks), dirty \ {p} \subseteq dirty',
           \A k \in Accepted(adj[p]) :
               \/ k \in Accepted(t) /\ t[k].src = adj[p][k].src
               \/ <<k, adj[p][k].src>> \in ws,
           \A k \in Accepted(t) \ ks :
               /\ p \notin dirty' => p \notin dirty
               /\ k \in Accepted(adj[p]) /\ t[k].src = adj[p][k].src
               /\ t[k].attr = adj[p][k].attr /\ t[k].llgr = adj[p][k].llgr
    PROVE  FollowInv'
<1>1. loc' = loc /\ withdraws[p] = {} /\ announces[p] = {}
  BY Zenon DEF ribVars, Walking
<1>2. adj'[p] = t /\ withdraws'[p] = ws /\ announces'[p] = ks
  BY DEF Walk, TypeInv, TypeOK
<1>3. \A q \in Peers \ {p} : /\ adj'[q] = adj[q] /\ withdraws'[q] = withdraws[q]
                             /\ announces'[q] = announces[q]
  BY DEF Walk, TypeInv, TypeOK
<1>4. LocBacked'
  <2> SUFFICES ASSUME NEW q \in Peers, NEW r \in RouterIds, NEW k \in Keys,
                      loc[k[1]][SourceOf(q, r, k)] # NoPath
               PROVE  \/ k \in Accepted(adj'[q]) /\ adj'[q][k].src = r
                      \/ <<k, r>> \in withdraws'[q]
    BY <1>1, Zenon DEF LocBacked
  <2>1. \/ k \in Accepted(adj[q]) /\ adj[q][k].src = r
        \/ <<k, r>> \in withdraws[q]
    BY Zenon DEF FollowInv, LocBacked
  <2>2. CASE q = p
    <3>1. k \in Accepted(adj[p]) /\ adj[p][k].src = r
      BY <1>1, <2>1, <2>2, Zenon
    <3> QED
      BY <1>2, <2>2, <3>1, Zenon
  <2>3. CASE q # p
    BY <1>3, <2>1, <2>3, Zenon
  <2> QED
    BY <2>2, <2>3, Zenon
<1>5. ASSUME NEW q \in Peers \ dirty', NEW k \in Accepted(adj'[q]) \ announces'[q]
      PROVE  Matches(adj'[q][k], loc[k[1]][SourceOf(q, adj'[q][k].src, k)])
  <2>1. CASE q = p
    <3>1. /\ p \notin dirty /\ k \in Accepted(adj[p]) /\ t[k].src = adj[p][k].src
          /\ t[k].attr = adj[p][k].attr /\ t[k].llgr = adj[p][k].llgr
      BY <1>2, <2>1, Zenon
    <3>2. Matches(adj[p][k], loc[k[1]][SourceOf(p, adj[p][k].src, k)])
      BY <1>1, <3>1, Zenon DEF FollowInv
    <3> QED
      BY <1>2, <2>1, <3>1, <3>2, ZenonT(30) DEF Matches
  <2>2. CASE q # p
    <3>1. q \in Peers \ dirty /\ adj'[q] = adj[q] /\ announces'[q] = announces[q]
      BY <1>3, <2>2
    <3> QED
      BY <3>1, Zenon DEF FollowInv
  <2> QED
    BY <2>1, <2>2, ZenonT(30)
<1> QED
  BY <1>1, <1>4, <1>5, FollowNext, Zenon

\* All accepted paths of p are withdrawn.
LEMMA FollowDrop ==
    ASSUME TypeInv, FollowInv, NEW p \in Peers, ~Walking(p), DropTable(p),
           Walk(p, DropWithdrawals(p), {}), UNCHANGED <<ribVars, policy, dirty>>
    PROVE  FollowInv'
<1> DEFINE ws == DropWithdrawals(p)
           none == {}
<1>1. Accepted(NewAdjRib) = {}
  BY Zenon DEF NewAdjRib, Accepted, Cached
<1>2. \A k \in Accepted(adj[p]) : <<k, adj[p][k].src>> \in ws
  BY DEF DropWithdrawals, WithdrawalsOf
<1>3. adj' = [adj EXCEPT ![p] = NewAdjRib] /\ Walk(p, ws, none) /\ dirty \ {p} \subseteq dirty'
  BY ZenonT(30) DEF DropTable
<1> HIDE DEF ws, none
<1> QED
  BY <1>1, <1>2, <1>3, FollowTable, Zenon

\* A message updates the table.
LEMMA FollowUpdate ==
    ASSUME TypeInv, FollowInv, NEW p \in Peers, NEW dels, NEW adds, NEW ws, NEW ks, ~Walking(p),
           Updates(dels, adds), UpdateTable(p, dels, adds), Walk(p, ws, ks),
           UNCHANGED <<ribVars, policy>>, dirty \ {p} \subseteq dirty',
           \A k \in Accepted(adj[p]) : k \in dels \cup Withdrawals(adj[p], adds) =>
               <<k, adj[p][k].src>> \in ws,
           \A k \in DOMAIN adds : ~adds[k].rejected =>
               k \in ks /\ (k \in Accepted(adj[p]) => adds[k].src = adj[p][k].src),
           p \in dirty => p \in dirty' \/ Accepted(Update(adj[p], dels, adds)) \subseteq ks
    PROVE  FollowInv'
<1> DEFINE t == Update(adj[p], dels, adds)
<1>1. adj[p] \in Table /\ adj' = [adj EXCEPT ![p] = t]
  BY Zenon DEF UpdateTable, TypeInv, TypeOK
<1>2. Accepted(t) = (Accepted(adj[p]) \ ((dels \cap Accepted(adj[p])) \cup Withdrawals(adj[p], adds)))
                       \cup {k \in DOMAIN adds : ~adds[k].rejected}
  <2>1. AcceptedBy(adj[p], dels, adds)
    BY <1>1, AcceptedByUpdate, Zenon
  <2> QED
    BY <2>1, Zenon DEF AcceptedBy
<1>3. \A k \in Keys : k \notin dels /\ k \notin DOMAIN adds => t[k] = adj[p][k]
  BY Zenon DEF Update
<1>4. \A k \in DOMAIN adds : k \in Keys /\ t[k].src = adds[k].src
  <2> SUFFICES ASSUME NEW k \in DOMAIN adds PROVE k \in Keys /\ t[k].src = adds[k].src
    OBVIOUS
  <2>1. k \in Keys /\ adds[k] \in Path /\ k \notin dels
    BY DEF Updates
  <2>2. t[k] = Replace(adj[p][k], adds[k]) /\ adj[p][k] \in Path \cup {NoPath}
    BY <1>1, <2>1, Zenon DEF Update, Table
  <2> HIDE DEF t
  <2>3. Replace(adj[p][k], adds[k]).src = adds[k].src
    BY <2>1, <2>2, ReplaceFacts, ZenonT(30)
  <2> QED
    BY <2>1, <2>2, <2>3, Zenon
<1>5. Accepted(adj[p]) \subseteq Keys
  BY Zenon DEF Accepted, Cached
<1>6. ASSUME NEW k \in DOMAIN adds, k \in Accepted(adj[p]), adds[k].rejected
      PROVE  k \in Withdrawals(adj[p], adds)
  BY <1>6, Zenon DEF Withdrawals, FallsOut, Accepted, Cached
<1> HIDE DEF t
<1>7. ASSUME NEW k \in Accepted(adj[p])
      PROVE  \/ k \in Accepted(t) /\ t[k].src = adj[p][k].src
             \/ <<k, adj[p][k].src>> \in ws
  BY <1>2, <1>3, <1>4, <1>5, <1>6, Zenon
<1>8. ASSUME NEW k \in Accepted(t) \ ks
      PROVE  /\ p \notin dirty' => p \notin dirty
             /\ k \in Accepted(adj[p]) /\ t[k] = adj[p][k]
  <2>1. k \notin {j \in DOMAIN adds : ~adds[j].rejected}
    BY Zenon
  <2>2. k \in Accepted(adj[p]) /\ k \notin dels /\ k \notin Withdrawals(adj[p], adds)
    BY <1>2, <2>1, Zenon
  <2>3. k \notin DOMAIN adds
    BY <1>6, <2>1, <2>2, Zenon
  <2> QED
    BY <1>3, <1>5, <2>2, <2>3, Zenon DEF t
<1> QED
  BY <1>1, <1>7, <1>8, FollowTable, ZenonT(30)

LEMMA FollowHandleUpdate ==
    ASSUME Steady, TypeInv, FollowInv, NEW p \in Peers, NEW dels \in SUBSET Keys,
           NEW adds \in SUBSET Keys, NEW a \in Attrs, HandleUpdate(p, dels, adds, a)
    PROVE  FollowInv'
<1> DEFINE paths == [k \in adds |-> NewPath(p, a)]
           own == WithdrawalsOf(adj[p], Withdrawals(adj[p], paths))
           ws == own \cup (dels \X {rid[p]})
           ks == IF a \in loops THEN {} ELSE adds
<1>1. ~isPrefixLimit(total'[p])
  BY DEF isPrefixLimit, Steady
<1>2. /\ UpdateTable(p, dels, paths) /\ UNCHANGED <<ribVars, policy>> /\ ~Walking(p)
      /\ Walk(p, ws, ks) /\ dels \cap adds = {} /\ dirty' = dirty
  BY <1>1, Zenon DEF HandleUpdate, Callback, configVars
<1>3. Updates(dels, paths)
  BY <1>2, HandleUpdateFacts, Zenon
<1>4. \A k \in Accepted(adj[p]) : adj[p][k].src = rid[p]
  <2>1. \A k \in Accepted(adj[p]) : adj[p][k].src \in RouterIds
    BY AcceptedTypes, Zenon
  <2>2. rid[p] \in RouterIds
    BY Zenon DEF TypeInv, TypeOK
  <2> QED
    BY <2>1, <2>2, Zenon DEF Steady
<1>5. ASSUME NEW k \in DOMAIN paths, ~paths[k].rejected
      PROVE  k \in ks /\ (k \in Accepted(adj[p]) => paths[k].src = adj[p][k].src)
  <2>1. k \in adds /\ paths[k] = NewPath(p, a)
    BY ZenonT(30)
  <2>2. paths[k].src = rid[p] /\ paths[k].rejected = (a \in loops)
    BY <2>1, Zenon DEF NewPath
  <2>3. a \notin loops
    BY <1>5, <2>2, Zenon
  <2> HIDE DEF paths
  <2> QED
    BY <1>4, <2>1, <2>2, <2>3
<1>6. ASSUME NEW k \in Accepted(adj[p]), k \in dels \cup Withdrawals(adj[p], paths)
      PROVE  <<k, adj[p][k].src>> \in ws
  <2>1. k \in Withdrawals(adj[p], paths) => <<k, adj[p][k].src>> \in own
    <3> HIDE DEF paths
    <3> QED
      BY Zenon DEF WithdrawalsOf
  <2> HIDE DEF paths, own
  <2> QED
    BY <1>4, <1>6, <2>1, Zenon
<1>7. dirty \ {p} \subseteq dirty' /\ (p \in dirty => p \in dirty')
  BY <1>2, Zenon
<1> HIDE DEF paths, ws, ks
<1> QED
  BY <1>2, <1>3, <1>5, <1>6, <1>7, FollowUpdate, Zenon

LEMMA FollowPeerRestart ==
    ASSUME TypeInv, FollowInv, NEW p \in Peers, PeerRestart(p)
    PROVE  FollowInv'
<1> DEFINE t == StaleAll(adj[p])
           none == {}
           ks == Accepted(adj[p])
<1>1. /\ adj' = [adj EXCEPT ![p] = t] /\ UNCHANGED ribVars /\ policy' = policy /\ ~Walking(p)
      /\ Walk(p, none, ks) /\ dirty \ {p} \subseteq dirty'
  BY DEF PeerRestart, Callback, configVars, TypeInv, TypeOK
<1>2. adj[p] \in Table
  BY DEF TypeInv, TypeOK
<1>3. Accepted(t) = Accepted(adj[p]) /\ \A k \in Accepted(adj[p]) : t[k].src = adj[p][k].src
  BY <1>2, StaleAllFacts DEF Accepted
<1> HIDE DEF t, none
<1>4. \A k \in Accepted(adj[p]) : k \in Accepted(t) /\ t[k].src = adj[p][k].src
  BY <1>3
<1>5. Accepted(t) \ ks = {}
  BY <1>3, Zenon
<1> HIDE DEF ks
<1> QED
  BY <1>1, <1>4, <1>5, FollowTable, Zenon

LEMMA FollowStartLongLived ==
    ASSUME TypeInv, FollowInv, NEW p \in Peers, StartLongLived(p)
    PROVE  FollowInv'
<1> DEFINE t == adj[p]
           dels == LlgrDrops(t)
           adds == LlgrMarks(t)
           ws == WithdrawalsOf(t, dels \cap Accepted(t))
           ks == Accepted(t) \ dels
<1>1. /\ UpdateTable(p, dels, adds) /\ UNCHANGED <<ribVars, policy>> /\ ~Walking(p)
      /\ Walk(p, ws, ks) /\ dirty' = dirty
  BY DEF StartLongLived, Callback, configVars
<1>2. t \in Table
  BY DEF TypeInv, TypeOK
<1>3. Updates(dels, adds)
  BY <1>2, BulkUpdates
<1>4. ASSUME NEW k \in DOMAIN adds
      PROVE  /\ k \in Cached(t) \ dels
             /\ adds[k].src = t[k].src /\ adds[k].rejected = t[k].rejected
  <2>1. k \in Cached(t) \ dels /\ adds[k] = [t[k] EXCEPT !.llgr = TRUE]
    BY DEF LlgrMarks
  <2>2. t[k] \in Path
    BY <1>2, <2>1, Zenon DEF Cached, Table
  <2> HIDE DEF dels, adds
  <2> QED
    BY <2>1, <2>2 DEF Path
<1>5. \A k \in DOMAIN adds : ~adds[k].rejected =>
          k \in ks /\ (k \in Accepted(t) => adds[k].src = t[k].src)
  <2> HIDE DEF dels, adds
  <2> QED
    BY <1>4, Zenon DEF Accepted
<1>6. \A k \in Accepted(t) : k \in dels \cup Withdrawals(t, adds) => <<k, t[k].src>> \in ws
  <2>1. \A k \in Accepted(t) : k \notin Withdrawals(t, adds)
    <3> HIDE DEF adds, dels
    <3> QED
      BY <1>4 DEF Withdrawals, FallsOut
  <2> HIDE DEF dels, adds
  <2> QED
    BY <2>1, Zenon DEF WithdrawalsOf
<1>7. dirty \ {p} \subseteq dirty' /\ (p \in dirty => p \in dirty')
  BY <1>1, Zenon
<1> HIDE DEF dels, adds, ws, ks
<1> QED
  BY <1>1, <1>3, <1>5, <1>6, <1>7, FollowUpdate, Zenon

LEMMA FollowHandleEOR ==
    ASSUME TypeInv, FollowInv, NEW p \in Peers, HandleEOR(p)
    PROVE  FollowInv'
<1> DEFINE t == adj[p]
           dels == StaleKeys(t)
           adds == [k \in {} |-> NoPath]
           ws == WithdrawalsOf(t, dels \cap Accepted(t))
           ks == {}
<1>1. /\ UpdateTable(p, dels, adds) /\ UNCHANGED <<ribVars, policy>> /\ ~Walking(p)
      /\ Walk(p, ws, ks) /\ dirty' = dirty
  BY DEF HandleEOR, Callback, configVars
<1>2. t \in Table
  BY DEF TypeInv, TypeOK
<1>3. Updates(dels, adds)
  BY <1>2, BulkUpdates
<1>4. DOMAIN adds = {} /\ Withdrawals(t, adds) = {}
  BY Zenon DEF Withdrawals
<1>5. \A k \in Accepted(t) : k \in dels \cup Withdrawals(t, adds) => <<k, t[k].src>> \in ws
  <2> HIDE DEF dels, adds
  <2> QED
    BY <1>4 DEF WithdrawalsOf
<1>6. dirty \ {p} \subseteq dirty' /\ (p \in dirty => p \in dirty')
  BY <1>1, Zenon
<1> HIDE DEF dels, adds, ws, ks
<1> QED
  BY <1>1, <1>3, <1>4, <1>5, <1>6, FollowUpdate, Zenon

LEMMA FollowSoftResetIn ==
    ASSUME TypeInv, FollowInv, NEW p \in Peers, SoftResetIn(p)
    PROVE  FollowInv'
<1> DEFINE t == adj[p]
           none == {}
           adds == SetRejected(t, loops)
           ws == WithdrawalsOf(t, Withdrawals(t, adds))
           ks == {k \in Cached(t) : t[k].attr \notin loops}
<1>1. /\ UpdateTable(p, none, adds) /\ UNCHANGED <<ribVars, policy>> /\ ~Walking(p)
      /\ Walk(p, ws, ks) /\ dirty' = dirty \ {p}
  BY DEF SoftResetIn, Management, configVars
<1>2. t \in Table
  BY DEF TypeInv, TypeOK
<1>3. Updates(none, adds)
  BY <1>2, BulkUpdates
<1>4. ASSUME NEW k \in DOMAIN adds
      PROVE  /\ k \in Cached(t) /\ adds[k].src = t[k].src
             /\ adds[k].rejected = (t[k].attr \in loops)
  <2>1. k \in Cached(t) /\ adds[k] = [t[k] EXCEPT !.rejected = (t[k].attr \in loops)]
    BY DEF SetRejected
  <2>2. t[k] \in Path
    BY <1>2, <2>1, Zenon DEF Cached, Table
  <2> HIDE DEF adds
  <2> QED
    BY <2>1, <2>2 DEF Path
<1>5. \A k \in DOMAIN adds : ~adds[k].rejected =>
          k \in ks /\ (k \in Accepted(t) => adds[k].src = t[k].src)
  <2> SUFFICES ASSUME NEW k \in DOMAIN adds, ~adds[k].rejected
               PROVE  k \in ks /\ (k \in Accepted(t) => adds[k].src = t[k].src)
    OBVIOUS
  <2>1. t[k].attr \notin loops
    BY <1>4, Zenon
  <2> HIDE DEF adds
  <2> QED
    BY <1>4, <2>1, Zenon
<1>6. \A k \in Accepted(t) : k \in none \cup Withdrawals(t, adds) => <<k, t[k].src>> \in ws
  <2> HIDE DEF adds
  <2> QED
    BY Zenon DEF WithdrawalsOf
<1>7. Accepted(Update(t, none, adds)) \subseteq ks
  <2>1. Accepted(Update(t, none, adds)) =
           (Accepted(t) \ ((none \cap Accepted(t)) \cup Withdrawals(t, adds)))
              \cup {k \in DOMAIN adds : ~adds[k].rejected}
    <3>1. AcceptedBy(t, none, adds)
      BY <1>2, <1>3, AcceptedByUpdate, Zenon
    <3> QED
      BY <3>1, Zenon DEF AcceptedBy
  <2>2. ASSUME NEW k \in Accepted(t), t[k].attr \in loops PROVE k \in Withdrawals(t, adds)
    <3>1. k \in Cached(t) /\ ~t[k].rejected /\ t[k] # NoPath
      BY DEF Accepted, Cached
    <3>2. t[k].rejected # (t[k].attr \in loops)
      BY <2>2, <3>1, Zenon
    <3>3. k \in DOMAIN adds
      BY <3>1, <3>2 DEF SetRejected
    <3>4. adds[k].rejected
      BY <1>4, <2>2, <3>3, Zenon
    <3> HIDE DEF adds
    <3> QED
      BY <3>1, <3>3, <3>4 DEF Withdrawals, FallsOut
  <2>3. \A k \in Accepted(t) : k \in Cached(t)
    BY DEF Accepted
  <2> HIDE DEF adds, none
  <2> QED
    BY <1>5, <2>1, <2>2, <2>3, Zenon
<1>8. dirty \ {p} \subseteq dirty'
  BY <1>1, Zenon
<1> HIDE DEF none, adds, ws, ks
<1> QED
  BY <1>1, <1>3, <1>5, <1>6, <1>7, <1>8, FollowUpdate, Zenon

\* A step that touches neither tables nor walks.
LEMMA FollowOther ==
    ASSUME FollowInv, UNCHANGED <<tableVars, ribVars, walkVars, policy, dirty>>
    PROVE  FollowInv'
<1>1. /\ loc' = loc /\ adj' = adj /\ policy' = policy /\ dirty' = dirty
      /\ withdraws' = withdraws /\ announces' = announces
  BY Zenon DEF tableVars, ribVars, walkVars
<1>2. LocBacked'
  BY <1>1, Zenon DEF FollowInv, LocBacked
<1> QED
  BY <1>1, <1>2, FollowNext, Zenon DEF FollowInv

LEMMA FollowSetPolicies ==
    ASSUME FollowInv, NEW new, SetPolicies(new)
    PROVE  FollowInv'
<1>1. LocBacked'
  BY DEF SetPolicies, FollowInv, LocBacked, tableVars, ribVars, walkVars
<1>2. Peers \ dirty' = {}
  BY DEF SetPolicies
<1> QED
  BY <1>1, <1>2, Zenon DEF FollowInv

\* The paths of the operator are nobody else's.
LEMMA FollowLocal ==
    ASSUME TypeInv, FollowInv, NEW n \in Nlri, NEW new, loc' = [loc EXCEPT ![n][Local] = new],
           UNCHANGED <<tableVars, walkVars, policy, dirty>>
    PROVE  FollowInv'
<1>1. ASSUME NEW p \in Peers, NEW r \in RouterIds, NEW k \in Keys
      PROVE  loc'[k[1]][SourceOf(p, r, k)] = loc[k[1]][SourceOf(p, r, k)]
  <2>1. k[1] \in Nlri /\ SourceOf(p, r, k) \in Sources /\ SourceOf(p, r, k) # Local
    BY SourceType DEF Keys
  <2> QED
    BY <2>1 DEF TypeInv, TypeOK
<1>2. LocBacked'
  BY <1>1 DEF FollowInv, LocBacked, tableVars, walkVars
<1>3. \A p \in Peers : \A k \in Accepted(adj[p]) : k \in Keys /\ adj[p][k].src \in RouterIds
  BY DEF TypeInv, TypeOK, Accepted, Cached, Table, Path
<1>4. adj' = adj /\ announces' = announces /\ policy' = policy /\ dirty' = dirty
  BY Zenon DEF tableVars, walkVars
<1>5. ASSUME NEW p \in Peers \ dirty, NEW k \in Accepted(adj[p]) \ announces[p]
      PROVE  Matches(adj[p][k], loc'[k[1]][SourceOf(p, adj[p][k].src, k)])
  BY <1>1, <1>3, Zenon DEF FollowInv
<1> QED
  BY <1>2, <1>4, <1>5, FollowNext, ZenonT(30)

\* The source of a path of p is set or cleared in the Loc-RIB.
SetLoc(p, r, k, new) == loc' = [loc EXCEPT ![k[1]][SourceOf(p, r, k)] = new]

LEMMA FollowSet ==
    ASSUME TypeInv, NEW p \in Peers, NEW r \in RouterIds, NEW k \in Keys, NEW new,
           SetLoc(p, r, k, new),
           NEW q \in Peers, NEW x \in RouterIds, NEW j \in Keys
    PROVE  loc'[j[1]][SourceOf(q, x, j)] =
               IF q = p /\ j = k /\ x = r THEN new ELSE loc[j[1]][SourceOf(q, x, j)]
<1>1. /\ k[1] \in Nlri /\ SourceOf(p, r, k) \in Sources
      /\ j[1] \in Nlri /\ SourceOf(q, x, j) \in Sources
  BY SourceType DEF Keys
<1>2. j[1] = k[1] /\ SourceOf(q, x, j) = SourceOf(p, r, k) => q = p /\ j = k /\ x = r
  <2>1. SourceOf(q, x, j) = SourceOf(p, r, k) => x = r
    BY Zenon DEF SourceOf
  <2> QED
    BY <2>1, SourceInjective
<1>3. \A m \in Nlri, s \in Sources :
          loc'[m][s] = IF m = k[1] /\ s = SourceOf(p, r, k) THEN new ELSE loc[m][s]
  BY <1>1, Zenon DEF TypeInv, TypeOK, SetLoc
<1> QED
  BY <1>1, <1>2, <1>3

\* The same for every route at once.
Placed(p, r, k, new) ==
    \A q \in Peers, x \in RouterIds, j \in Keys :
        loc'[j[1]][SourceOf(q, x, j)] =
            IF q = p /\ j = k /\ x = r THEN new ELSE loc[j[1]][SourceOf(q, x, j)]

LEMMA FollowPlaced ==
    ASSUME TypeInv, NEW p \in Peers, NEW r \in RouterIds, NEW k \in Keys, NEW new,
           SetLoc(p, r, k, new)
    PROVE  Placed(p, r, k, new)
BY FollowSet DEF Placed

LEMMA FollowWithdraw ==
    ASSUME TypeInv, IdInv, FollowInv, NEW p \in Peers, PropagateWithdraw(p)
    PROVE  FollowInv'
<1>1. PICK w \in withdraws[p] :
        /\ loc' = [loc EXCEPT ![w[1][1]][SourceOf(p, w[2], w[1])] = NoPath]
        /\ Walk(p, withdraws[p] \ {w}, announces[p])
        /\ UNCHANGED <<tableVars, configVars, dirty>>
  BY Zenon DEF PropagateWithdraw
<1>2. w[1] \in Keys /\ w[2] \in RouterIds /\ w = <<w[1], w[2]>> /\ w[1] \notin Accepted(adj[p])
  BY DEF TypeInv, TypeOK, IdInv, WithdrawnNotAccepted
<1>3. ASSUME NEW q \in Peers, NEW x \in RouterIds, NEW j \in Keys
      PROVE  loc'[j[1]][SourceOf(q, x, j)] =
                 IF q = p /\ j = w[1] /\ x = w[2] THEN NoPath ELSE loc[j[1]][SourceOf(q, x, j)]
  <2> DEFINE k == w[1]
             r == w[2]
  <2>1. k \in Keys /\ r \in RouterIds /\ SetLoc(p, r, k, NoPath)
    BY <1>1, <1>2 DEF SetLoc
  <2> HIDE DEF k, r
  <2>2. loc'[j[1]][SourceOf(q, x, j)] =
                 IF q = p /\ j = k /\ x = r THEN NoPath ELSE loc[j[1]][SourceOf(q, x, j)]
    <3>1. Placed(p, r, k, NoPath)
      BY <2>1, FollowPlaced, Zenon
    <3> QED
      BY <3>1, Zenon DEF Placed
  <2> QED
    BY <2>2 DEF k, r
<1>4. /\ adj' = adj /\ policy' = policy /\ dirty' = dirty /\ announces' = announces
      /\ \A q \in Peers : withdraws[q] \ withdraws'[q] \subseteq (IF q = p THEN {w} ELSE {})
  BY <1>1, Zenon DEF Walk, tableVars, configVars, TypeInv, TypeOK
<1>5. LocBacked'
  <2> SUFFICES ASSUME NEW q \in Peers, NEW x \in RouterIds, NEW j \in Keys,
                      loc'[j[1]][SourceOf(q, x, j)] # NoPath
               PROVE  \/ j \in Accepted(adj[q]) /\ adj[q][j].src = x
                      \/ <<j, x>> \in withdraws'[q]
    BY <1>4, Zenon DEF LocBacked
  <2>1. ~(q = p /\ j = w[1] /\ x = w[2]) /\ loc[j[1]][SourceOf(q, x, j)] # NoPath
    BY <1>3, Zenon
  <2>2. \/ j \in Accepted(adj[q]) /\ adj[q][j].src = x
        \/ <<j, x>> \in withdraws[q]
    BY <2>1, Zenon DEF FollowInv, LocBacked
  <2>3. q = p => <<j, x>> # w
    BY <2>1
  <2> QED
    BY <1>4, <2>2, <2>3
<1>6. ASSUME NEW q \in Peers \ dirty, NEW j \in Accepted(adj[q]) \ announces[q]
      PROVE  Matches(adj[q][j], loc'[j[1]][SourceOf(q, adj[q][j].src, j)])
  <2>1. j \in Keys /\ adj[q][j].src \in RouterIds
    BY DEF TypeInv, TypeOK, Accepted, Cached, Table, Path
  <2>2. ~(q = p /\ j = w[1])
    BY <1>2, Zenon
  <2>3. loc'[j[1]][SourceOf(q, adj[q][j].src, j)] = loc[j[1]][SourceOf(q, adj[q][j].src, j)]
    BY <1>3, <2>1, <2>2, Zenon
  <2> QED
    BY <2>3, Zenon DEF FollowInv
<1> QED
  BY <1>4, <1>5, <1>6, FollowNext, Zenon

LEMMA FollowAnnounce ==
    ASSUME TypeInv, FollowInv, NEW p \in Peers, PropagateAnnounce(p)
    PROVE  FollowInv'
<1>1. PICK k \in announces[p] :
        /\ Install(p, k) \/ Filter(p, k)
        /\ Walk(p, withdraws[p], announces[p] \ {k})
        /\ UNCHANGED <<configVars, dirty>>
  BY Zenon DEF PropagateAnnounce
<1>2. k \in Accepted(adj[p]) /\ k \in Keys /\ adj[p][k] \in Path
  BY DEF TypeInv, TypeOK, AnnouncedAccepted, Accepted, Cached, Table
<1> DEFINE r == adj[p][k].src
           id == LocalIdFor(k[1], SourceOf(p, r, k), adj[p][k].localID)
<1>i. id \in Nat \ {0}
  <2>1. k[1] \in Nlri /\ SourceOf(p, r, k) \in Sources /\ adj[p][k].localID \in Nat
    BY <1>2, SourceType, Zenon DEF Keys, Path
  <2> QED
    BY <2>1, LocalIdType, Zenon
<1>3. PICK new : SetLoc(p, r, k, new) /\ Matches(adj[p][k], new)
  <2>1. CASE Install(p, k)
    <3> DEFINE path == [attr |-> adj[p][k].attr, llgr |-> adj[p][k].llgr, localID |-> id]
    <3>1. SetLoc(p, r, k, path) /\ policy[adj[p][k].attr] # "reject"
      BY <2>1, Zenon DEF Install, SetLoc
    <3>2. path.attr = adj[p][k].attr /\ path.llgr = adj[p][k].llgr /\ path # NoPath
      <4> HIDE DEF id
      <4>1. path \in Installed
        BY <1>i, <1>2, Zenon DEF Installed, Path
      <4> QED
        BY <4>1, InstalledAssumption, Zenon
    <3> HIDE DEF path
    <3> QED
      BY <3>1, <3>2 DEF Matches
  <2>2. CASE Filter(p, k)
    BY <2>2, Zenon DEF Filter, Matches, SetLoc
  <2> QED
    BY <1>1, <2>1, <2>2, Zenon
<1>4. r \in RouterIds
  BY <1>2, SMTT(30) DEF Path
<1>5. ASSUME NEW q \in Peers, NEW x \in RouterIds, NEW j \in Keys
      PROVE  loc'[j[1]][SourceOf(q, x, j)] =
                 IF q = p /\ j = k /\ x = r THEN new ELSE loc[j[1]][SourceOf(q, x, j)]
  <2> HIDE DEF r
  <2>1. Placed(p, r, k, new)
    BY <1>2, <1>3, <1>4, FollowPlaced, Zenon
  <2> QED
    BY <2>1, Zenon DEF Placed
<1>6. ASSUME NEW q \in Peers
      PROVE  /\ Accepted(adj'[q]) = Accepted(adj[q])
             /\ \A j \in Accepted(adj[q]) : /\ adj'[q][j].src = adj[q][j].src
                                            /\ adj'[q][j].attr = adj[q][j].attr
                                            /\ adj'[q][j].llgr = adj[q][j].llgr
  <2>1. CASE adj' = adj
    BY <2>1
  <2>2. ASSUME adj' = [adj EXCEPT ![p][k].localID = id]
        PROVE  /\ Accepted(adj'[q]) = Accepted(adj[q])
               /\ \A j \in Accepted(adj[q]) : /\ adj'[q][j].src = adj[q][j].src
                                              /\ adj'[q][j].attr = adj[q][j].attr
                                              /\ adj'[q][j].llgr = adj[q][j].llgr
    <3>1. CASE q # p
      <4>1. adj'[q] = adj[q]
        BY <2>2, <3>1, Zenon DEF TypeInv, TypeOK
      <4> QED
        BY <4>1
    <3>2. CASE q = p
      <4>1. adj[p] \in Table
        BY DEF TypeInv, TypeOK
      <4> HIDE DEF id
      <4>2. adj'[p] = [adj[p] EXCEPT ![k] = [adj[p][k] EXCEPT !.localID = id]]
        BY <2>2 DEF TypeInv, TypeOK
      <4> DEFINE changed == [adj[p][k] EXCEPT !.localID = id]
      <4>3. /\ changed.src = adj[p][k].src /\ changed.attr = adj[p][k].attr
            /\ changed.llgr = adj[p][k].llgr /\ changed.rejected = adj[p][k].rejected
        BY <1>2 DEF Path
      <4>4. changed # NoPath
        <5>1. changed \in Path
          BY <1>i, <1>2 DEF Path
        <5> QED
          BY <5>1, NoPathAssumption
      <4> HIDE DEF changed
      <4>5. \A j \in Keys : adj'[p][j] = IF j = k THEN changed ELSE adj[p][j]
        BY <1>2, <4>1, <4>2, Zenon DEF Table, changed
      <4>6. adj[p][k] # NoPath
        BY <1>2, Zenon DEF Accepted, Cached
      <4>7. Accepted(adj'[p]) = Accepted(adj[p])
        BY <4>3, <4>4, <4>5, <4>6, Zenon DEF Accepted, Cached
      <4>8. Accepted(adj[p]) \subseteq Keys
        BY Zenon DEF Accepted, Cached
      <4> QED
        BY <3>2, <4>3, <4>5, <4>7, <4>8, Zenon
    <3> QED
      BY <3>1, <3>2, Zenon
  <2> QED
    BY <1>1, <2>1, <2>2 DEF Install, Filter
<1>7. /\ policy' = policy /\ dirty' = dirty /\ withdraws' = withdraws
      /\ \A q \in Peers : announces'[q] = IF q = p THEN announces[p] \ {k} ELSE announces[q]
  BY <1>1, Zenon DEF Walk, configVars, TypeInv, TypeOK
<1> HIDE DEF r, id
<1>8. LocBacked'
  <2> SUFFICES ASSUME NEW q \in Peers, NEW x \in RouterIds, NEW j \in Keys,
                      loc'[j[1]][SourceOf(q, x, j)] # NoPath
               PROVE  \/ j \in Accepted(adj'[q]) /\ adj'[q][j].src = x
                      \/ <<j, x>> \in withdraws[q]
    BY <1>7, Zenon DEF LocBacked
  <2>1. CASE q = p /\ j = k /\ x = r
    BY <1>2, <1>6, <2>1, Zenon DEF r
  <2>2. CASE ~(q = p /\ j = k /\ x = r)
    <3>1. loc[j[1]][SourceOf(q, x, j)] # NoPath
      BY <1>5, <2>2, Zenon
    <3>2. \/ j \in Accepted(adj[q]) /\ adj[q][j].src = x
          \/ <<j, x>> \in withdraws[q]
      BY <3>1, Zenon DEF FollowInv, LocBacked
    <3> QED
      BY <1>6, <3>2, Zenon
  <2> QED
    BY <2>1, <2>2, Zenon
<1>9. ASSUME NEW q \in Peers \ dirty', NEW j \in Accepted(adj'[q]) \ announces'[q]
      PROVE  Matches(adj'[q][j], loc'[j[1]][SourceOf(q, adj'[q][j].src, j)])
  <2>1. /\ j \in Accepted(adj[q]) /\ j \in Keys /\ adj[q][j].src \in RouterIds
        /\ adj'[q][j].src = adj[q][j].src /\ adj'[q][j].attr = adj[q][j].attr
        /\ adj'[q][j].llgr = adj[q][j].llgr
    <3>1. j \in Accepted(adj[q])
      BY <1>6, Zenon
    <3>2. j \in Keys /\ adj[q][j].src \in RouterIds
      BY <3>1, AcceptedTypes, Zenon
    <3> QED
      BY <1>6, <3>1, <3>2, Zenon
  <2>2. Matches(adj[q][j], loc'[j[1]][SourceOf(q, adj[q][j].src, j)])
    <3>1. CASE q = p /\ j = k
      BY <1>3, <1>5, <2>1, <3>1, Zenon DEF r
    <3>2. CASE ~(q = p /\ j = k)
      <4>1. q \notin dirty /\ j \notin announces[q]
        BY <1>7, <3>2, Zenon
      <4>2. Matches(adj[q][j], loc[j[1]][SourceOf(q, adj[q][j].src, j)])
        BY <2>1, <4>1 DEF FollowInv
      <4> QED
        BY <1>5, <2>1, <3>2, <4>2, Zenon
    <3> QED
      BY <3>1, <3>2, Zenon
  <2> QED
    BY <2>1, <2>2, Zenon DEF Matches
<1> QED
  BY <1>7, <1>8, <1>9, FollowNext, Zenon

LEMMA FollowStep == Steady /\ TypeInv /\ IdInv /\ FollowInv /\ [Next]_vars => FollowInv'
<1> SUFFICES ASSUME Steady, TypeInv, IdInv, FollowInv, [Next]_vars PROVE FollowInv'
  OBVIOUS
<1>1. ASSUME NEW p \in Peers, NEW r \in RouterIds, Establish(p, r) PROVE FollowInv'
  BY <1>1, FollowOther, Zenon DEF Establish, configVars
<1>2. ASSUME NEW p \in Peers, NEW graceful \in BOOLEAN, PeerDown(p, graceful) PROVE FollowInv'
  BY <1>2, FollowDrop DEF PeerDown, Callback, configVars
<1>3. ASSUME NEW p \in Peers, RestartFailed(p) PROVE FollowInv'
  BY <1>3, FollowDrop DEF RestartFailed, Callback, configVars
<1>4. ASSUME NEW p \in Peers, LlgrTimeout(p) PROVE FollowInv'
  BY <1>4, FollowOther, Zenon DEF LlgrTimeout, configVars
<1>5. ASSUME NEW p \in Peers, LlgrRestartTimerExpired(p) PROVE FollowInv'
  BY <1>5, FollowDrop DEF LlgrRestartTimerExpired, Management, configVars
<1>6. ASSUME NEW l \in LoopSets, SetLoops(l) PROVE FollowInv'
  BY <1>6, FollowOther, Zenon DEF SetLoops
<1>7. ASSUME NEW n \in Nlri, NEW a \in Attrs, AddPath(n, a) PROVE FollowInv'
  <2>1. \E new : loc' = [loc EXCEPT ![n][Local] = new]
    BY <1>7 DEF AddPath
  <2> QED
    BY <1>7, <2>1, FollowLocal, Zenon DEF AddPath, configVars
<1>8. ASSUME NEW n \in Nlri, DeletePath(n) PROVE FollowInv'
  BY <1>8, FollowLocal, Zenon DEF DeletePath, configVars
<1>9. ASSUME UNCHANGED vars PROVE FollowInv'
  BY <1>9, FollowOther DEF vars, configVars
<1>10. ASSUME NEW p \in Peers, PeerNext(p) PROVE FollowInv'
  BY <1>10, <1>1, <1>2, <1>3, FollowWithdraw, FollowAnnounce, FollowHandleUpdate,
     FollowPeerRestart, FollowHandleEOR, FollowSoftResetIn DEF PeerNext
<1>11. ASSUME OperatorNext PROVE FollowInv'
  BY <1>11, <1>6, <1>7, <1>8, FollowSetPolicies, LocalAssumption, Zenon DEF OperatorNext, Steady
<1>12. ASSUME NEW p \in LlgrPeers, LongLivedNext(p) PROVE FollowInv'
  BY <1>12, <1>4, <1>5, FollowStartLongLived, PeersAssumption DEF LongLivedNext
<1> QED
  BY <1>9, <1>10, <1>11, <1>12 DEF Next

\* The Loc-RIB follows the Adj-RIB-Ins (propagateUpdate, softResetIn, the
\* helper side of graceful restart) however the walks of the neighbors and the
\* operator's changes of policy and loop checks interleave, wherever neighbors
\* have no prefix limit, keep their identifier and are not deleted.
THEOREM LocFollowsCorrect ==
    ASSUME Steady
    PROVE  Spec => []LocFollows
<1>1. TypeInv /\ IdInv /\ FollowInv /\ [Next]_vars => FollowInv'
  BY FollowStep
<1> QED
  BY <1>1, TypeInit, TypeStep, IdInit, IdStep, FollowInit, FollowImplies, PTL DEF Spec

=============================================================================
