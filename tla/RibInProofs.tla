---------------------------- MODULE RibInProofs -----------------------------
(***************************************************************************)
(* Proofs about RibIn, for every set of neighbors, prefixes, path          *)
(* identifiers, attribute lists and policies.                              *)
(***************************************************************************)
EXTENDS RibIn, FiniteSetTheorems, WellFoundedInduction, TLAPS

-----------------------------------------------------------------------------
(* The operations on one Adj-RIB-In: what they do to the cached and the    *)
(* accepted keys, to the counters and to the identifiers.                  *)

LEMMA KeysFinite == IsFiniteSet(Keys)
BY FiniteAssumption, FS_Product DEF Keys

\* The keys of a table and the accepted ones are finite sets.
LEMMA CachedFinite ==
    ASSUME NEW t
    PROVE  /\ Cached(t) \subseteq Keys /\ IsFiniteSet(Cached(t))
           /\ Accepted(t) \subseteq Cached(t) /\ IsFiniteSet(Accepted(t))
<1>1. Cached(t) \subseteq Keys /\ Accepted(t) \subseteq Cached(t)
  BY DEF Cached, Accepted
<1>2. IsFiniteSet(Cached(t))
  BY <1>1, KeysFinite, FS_Subset
<1> QED
  BY <1>1, <1>2, FS_Subset

\* How the size of a set changes when R is taken out and B put in.
LEMMA SizeChange ==
    ASSUME NEW X, NEW R, NEW B, IsFiniteSet(X), IsFiniteSet(B), R \subseteq X, R \cap B = {}
    PROVE  Cardinality((X \ R) \cup B) = (Cardinality(X) + Cardinality(B \ X)) - Cardinality(R)
<1>1. (X \ R) \cup B = (X \ R) \cup (B \ X) /\ (X \ R) \cap (B \ X) = {}
  OBVIOUS
<1>2. /\ IsFiniteSet(R) /\ IsFiniteSet(X \ R) /\ IsFiniteSet(B \ X)
      /\ Cardinality(X \ R) = Cardinality(X) - Cardinality(X \cap R)
  BY FS_Subset, FS_Difference, Zenon
<1>3. Cardinality((X \ R) \cup (B \ X)) = Cardinality(X \ R) + Cardinality(B \ X)
  <2>1. Cardinality((X \ R) \cap (B \ X)) = 0
    BY <1>1, FS_EmptySet
  <2>2. Cardinality((X \ R) \cup (B \ X)) =
            Cardinality(X \ R) + Cardinality(B \ X) - Cardinality((X \ R) \cap (B \ X))
    BY <1>2, FS_Union
  <2>3. Cardinality(X \ R) \in Nat /\ Cardinality(B \ X) \in Nat
    BY <1>2, FS_CardinalityType
  <2> QED
    BY <2>1, <2>2, <2>3
<1>4. X \cap R = R
  OBVIOUS
<1>5. /\ Cardinality(X) \in Nat /\ Cardinality(R) \in Nat
      /\ Cardinality(B \ X) \in Nat /\ Cardinality(X \ R) \in Nat
  BY <1>2, FS_CardinalityType
<1>6. Cardinality((X \ R) \cup B) = Cardinality(X \ R) + Cardinality(B \ X)
  BY <1>1, <1>3
<1>7. Cardinality(X \ R) = Cardinality(X) - Cardinality(R)
  BY <1>2, <1>4
<1> QED
  BY <1>5, <1>6, <1>7

\* The inputs of Update.
Updates(dels, adds) ==
    /\ dels \subseteq Keys /\ DOMAIN adds \subseteq Keys
    /\ \A k \in DOMAIN adds : adds[k] \in Path
    /\ dels \cap DOMAIN adds = {}

LEMMA ReplaceFacts ==
    ASSUME NEW old \in Path \cup {NoPath}, NEW new \in Path
    PROVE  /\ Replace(old, new) \in Path
           /\ Replace(old, new).rejected = new.rejected
           /\ Replace(old, new).src = new.src
           /\ Replace(old, new).localID \in {0, new.localID}
           /\ FallsOut(old, new) => Replace(old, new).localID = 0
BY DEF Replace, Path

\* Update returns a table, and the keys it caches and accepts are the expected
\* ones.
LEMMA UpdateFacts ==
    ASSUME NEW t \in Table, NEW dels, NEW adds, Updates(dels, adds)
    PROVE  /\ Update(t, dels, adds) \in Table
           /\ Cached(Update(t, dels, adds)) = (Cached(t) \ dels) \cup DOMAIN adds
           /\ Accepted(Update(t, dels, adds)) =
                 (Accepted(t) \ ((dels \cap Accepted(t)) \cup Withdrawals(t, adds)))
                    \cup {k \in DOMAIN adds : ~adds[k].rejected}
<1> SUFFICES
      ASSUME NEW u, u = Update(t, dels, adds)
      PROVE  /\ u \in Table
             /\ Cached(u) = (Cached(t) \ dels) \cup DOMAIN adds
             /\ Accepted(u) =
                   (Accepted(t) \ ((dels \cap Accepted(t)) \cup Withdrawals(t, adds)))
                      \cup {k \in DOMAIN adds : ~adds[k].rejected}
  OBVIOUS
<1>1. \A k \in Keys : t[k] \in Path \cup {NoPath}
  BY DEF Table
<1>2. \A k \in DOMAIN adds : Replace(t[k], adds[k]) \in Path
  BY <1>1, ReplaceFacts DEF Updates
<1>3. \A k \in DOMAIN adds : Replace(t[k], adds[k]).rejected = adds[k].rejected
  BY <1>1, ReplaceFacts DEF Updates
<1>4. u \in Table
  BY <1>1, <1>2 DEF Update, Table, Updates
<1>5. ASSUME NEW k \in Keys
      PROVE  /\ k \in dels => u[k] = NoPath
             /\ k \in DOMAIN adds => u[k] = Replace(t[k], adds[k])
             /\ k \notin dels /\ k \notin DOMAIN adds => u[k] = t[k]
  BY DEF Update, Updates
<1>6. \A k \in Keys : k \in Cached(u) <=> k \in (Cached(t) \ dels) \cup DOMAIN adds
  <2> SUFFICES ASSUME NEW k \in Keys
               PROVE  u[k] # NoPath <=> (t[k] # NoPath /\ k \notin dels) \/ k \in DOMAIN adds
    BY DEF Cached
  <2>1. CASE k \in DOMAIN adds
    BY <2>1, <1>2, <1>5, NoPathAssumption
  <2>2. CASE k \in dels
    BY <2>2, <1>5 DEF Updates
  <2>3. CASE k \notin dels \cup DOMAIN adds
    BY <2>3, <1>5
  <2> QED
    BY <2>1, <2>2, <2>3
<1>7. \A k \in Keys : k \in Accepted(u) <=>
          k \in (Accepted(t) \ ((dels \cap Accepted(t)) \cup Withdrawals(t, adds)))
                   \cup {j \in DOMAIN adds : ~adds[j].rejected}
  <2> SUFFICES ASSUME NEW k \in Keys PROVE k \in Accepted(u) <=>
          k \in (Accepted(t) \ ((dels \cap Accepted(t)) \cup Withdrawals(t, adds)))
                   \cup {j \in DOMAIN adds : ~adds[j].rejected}
    OBVIOUS
  <2>1. CASE k \in DOMAIN adds
    <3>1. u[k] # NoPath /\ u[k].rejected = adds[k].rejected
      <4>1. u[k] = Replace(t[k], adds[k])
        BY <2>1, <1>5
      <4> QED
        BY <4>1, <2>1, <1>2, <1>3, NoPathAssumption
    <3>2. k \in Withdrawals(t, adds) <=> k \in Accepted(t) /\ adds[k].rejected
      BY <2>1 DEF Withdrawals, FallsOut, Accepted, Cached
    <3> QED
      BY <2>1, <3>1, <3>2 DEF Accepted, Cached, Updates
  <2>2. CASE k \in dels
    <3>1. k \notin DOMAIN adds /\ u[k] = NoPath
      BY <2>2, <1>5 DEF Updates
    <3> QED
      BY <2>2, <3>1 DEF Accepted, Cached
  <2>3. CASE k \notin dels \cup DOMAIN adds
    <3>1. u[k] = t[k] /\ k \notin DOMAIN adds /\ k \notin dels
      BY <2>3, <1>5
    <3> QED
      BY <3>1 DEF Accepted, Cached, Withdrawals
  <2> QED
    BY <2>1, <2>2, <2>3
<1>8. /\ Cached(u) \subseteq Keys /\ Accepted(u) \subseteq Keys
      /\ Cached(t) \subseteq Keys /\ Accepted(t) \subseteq Keys
  BY DEF Cached, Accepted
<1>9. Cached(u) = (Cached(t) \ dels) \cup DOMAIN adds
  BY <1>6, <1>8 DEF Updates
<1>10. Accepted(u) = (Accepted(t) \ ((dels \cap Accepted(t)) \cup Withdrawals(t, adds)))
                        \cup {j \in DOMAIN adds : ~adds[j].rejected}
  BY <1>7, <1>8 DEF Updates
<1> QED
  BY <1>4, <1>9, <1>10

\* Update keeps the counters of a table exact.
LEMMA UpdateCounters ==
    ASSUME NEW t \in Table, NEW dels, NEW adds, Updates(dels, adds)
    PROVE  /\ TotalAfter(Cardinality(Cached(t)), t, dels, adds)
                 = Cardinality(Cached(Update(t, dels, adds)))
           /\ AcceptedAfter(Cardinality(Accepted(t)), t, dels, adds)
                 = Cardinality(Accepted(Update(t, dels, adds)))
<1> DEFINE A == DOMAIN adds
           B == {k \in A : ~adds[k].rejected}
           R == (dels \cap Accepted(t)) \cup Withdrawals(t, adds)
<1>1. IsFiniteSet(A) /\ IsFiniteSet(B)
  <2>1. A \in SUBSET Keys /\ B \in SUBSET Keys
    BY DEF Updates
  <2> QED
    BY <2>1, KeysFinite, FS_Subset
<1>2. Cardinality((Cached(t) \ (dels \cap Cached(t))) \cup A) =
          (Cardinality(Cached(t)) + Cardinality(A \ Cached(t))) - Cardinality(dels \cap Cached(t))
  <2>1. (dels \cap Cached(t)) \cap A = {}
    BY DEF Updates
  <2> QED
    BY <1>1, <2>1, CachedFinite, SizeChange
<1>3. (Cached(t) \ (dels \cap Cached(t))) \cup A = (Cached(t) \ dels) \cup A
  OBVIOUS
<1>4. Cardinality((Accepted(t) \ R) \cup B) =
          (Cardinality(Accepted(t)) + Cardinality(B \ Accepted(t))) - Cardinality(R)
  <2>1. R \subseteq Accepted(t)
    BY DEF Withdrawals, FallsOut, Accepted, Cached, Updates
  <2>2. R \cap B = {}
    BY DEF Withdrawals, FallsOut, Updates
  <2> HIDE DEF R, B
  <2> QED
    BY <1>1, <2>1, <2>2, CachedFinite, SizeChange
<1>5. /\ Cached(Update(t, dels, adds)) = (Cached(t) \ dels) \cup A
      /\ Accepted(Update(t, dels, adds)) = (Accepted(t) \ R) \cup B
  BY UpdateFacts
<1>6. /\ TotalAfter(Cardinality(Cached(t)), t, dels, adds) =
          (Cardinality(Cached(t)) + Cardinality(A \ Cached(t))) - Cardinality(dels \cap Cached(t))
      /\ AcceptedAfter(Cardinality(Accepted(t)), t, dels, adds) =
          (Cardinality(Accepted(t)) + Cardinality(B \ Accepted(t))) - Cardinality(R)
  BY DEF TotalAfter, AcceptedAfter
<1> HIDE DEF A, B, R
<1> QED
  BY <1>2, <1>3, <1>4, <1>5, <1>6

\* StaleAll keeps what is cached and what is accepted.
LEMMA StaleAllFacts ==
    ASSUME NEW t \in Table
    PROVE  /\ StaleAll(t) \in Table
           /\ Cached(StaleAll(t)) = Cached(t) /\ Accepted(StaleAll(t)) = Accepted(t)
           /\ \A k \in Cached(t) : /\ StaleAll(t)[k].rejected = t[k].rejected
                                   /\ StaleAll(t)[k].src = t[k].src
                                   /\ StaleAll(t)[k].localID = t[k].localID
<1>1. ASSUME NEW k \in Keys, t[k] = NoPath
      PROVE  StaleAll(t)[k] = NoPath
  BY <1>1 DEF StaleAll
<1>2. ASSUME NEW k \in Keys, t[k] # NoPath
      PROVE  /\ StaleAll(t)[k] \in Path
             /\ StaleAll(t)[k].rejected = t[k].rejected
             /\ StaleAll(t)[k].src = t[k].src
             /\ StaleAll(t)[k].localID = t[k].localID
  <2>1. t[k] \in Path
    BY <1>2 DEF Table
  <2>2. StaleAll(t)[k] = [t[k] EXCEPT !.stale = TRUE]
    BY <1>2 DEF StaleAll
  <2> QED
    BY <2>1, <2>2, Zenon DEF Path
<1>3. StaleAll(t) \in Table
  <2>1. \A k \in Keys : StaleAll(t)[k] \in Path \cup {NoPath}
    BY <1>1, <1>2
  <2>2. StaleAll(t) = [k \in Keys |-> StaleAll(t)[k]]
    BY DEF StaleAll
  <2> QED
    BY <2>1, <2>2 DEF Table
<1>4. \A k \in Keys : StaleAll(t)[k] = NoPath <=> t[k] = NoPath
  BY <1>1, <1>2, NoPathAssumption
<1>5. Cached(StaleAll(t)) = Cached(t)
  BY <1>4 DEF Cached
<1>6. Accepted(StaleAll(t)) = Accepted(t)
  BY <1>5, <1>2 DEF Accepted, Cached
<1> QED
  BY <1>2, <1>3, <1>5, <1>6 DEF Cached

\* The bulk operations hand proper updates to Update.
LEMMA BulkUpdates ==
    ASSUME NEW t \in Table
    PROVE  /\ Updates(LlgrDrops(t), LlgrMarks(t))
           /\ Updates(StaleKeys(t), [k \in {} |-> NoPath])
           /\ \A l : Updates({}, SetRejected(t, l))
<1>1. \A k \in Cached(t) : t[k] \in Path /\ k \in Keys
  BY DEF Cached, Table
<1>2. Updates(LlgrDrops(t), LlgrMarks(t))
  <2>1. \A k \in Cached(t) : [t[k] EXCEPT !.llgr = TRUE] \in Path
    BY <1>1, Zenon DEF Path
  <2> QED
    BY <1>1, <2>1 DEF Updates, LlgrDrops, LlgrMarks
<1>3. Updates(StaleKeys(t), [k \in {} |-> NoPath])
  BY <1>1 DEF Updates, StaleKeys
<1>4. ASSUME NEW l PROVE Updates({}, SetRejected(t, l))
  <2>1. \A k \in Cached(t) : [t[k] EXCEPT !.rejected = (t[k].attr \in l)] \in Path
    <3>1. \A k \in Cached(t), b \in BOOLEAN : [t[k] EXCEPT !.rejected = b] \in Path
      BY <1>1 DEF Path
    <3>2. \A k \in Cached(t) : (t[k].attr \in l) \in BOOLEAN
      OBVIOUS
    <3> QED
      BY <3>1, <3>2, Zenon
  <2>2. DOMAIN SetRejected(t, l) \subseteq Cached(t)
    BY DEF SetRejected
  <2>3. \A k \in DOMAIN SetRejected(t, l) :
            SetRejected(t, l)[k] = [t[k] EXCEPT !.rejected = (t[k].attr \in l)]
    BY DEF SetRejected
  <2> QED
    BY <1>1, <2>1, <2>2, <2>3 DEF Updates
<1> QED
  BY <1>2, <1>3, <1>4

\* Every identifier the table u holds, the table t held for the same path.
NoNewIds(t, u) ==
    \A k \in Keys : u[k] # NoPath /\ u[k].localID # 0 =>
        /\ t[k] # NoPath /\ t[k].localID = u[k].localID /\ t[k].src = u[k].src
        /\ ~u[k].rejected

\* Update brings in no identifier when the announced paths bring none in.
LEMMA UpdateIds ==
    ASSUME NEW t \in Table, NEW dels, NEW adds, Updates(dels, adds),
           \A k \in Keys : t[k] # NoPath /\ t[k].rejected => t[k].localID = 0,
           \A k \in DOMAIN adds : adds[k].localID # 0 =>
               t[k] # NoPath /\ t[k].localID = adds[k].localID /\ t[k].src = adds[k].src
    PROVE  NoNewIds(t, Update(t, dels, adds))
<1> SUFFICES ASSUME NEW u, u = Update(t, dels, adds), NEW k \in Keys, u[k] # NoPath, u[k].localID # 0
             PROVE  /\ t[k] # NoPath /\ t[k].localID = u[k].localID /\ t[k].src = u[k].src
                    /\ ~u[k].rejected
  BY DEF NoNewIds
<1>1. t[k] \in Path \cup {NoPath}
  BY DEF Table
<1>2. k \notin dels
  BY DEF Update
<1>3. CASE k \in DOMAIN adds
  <2>1. u[k] = Replace(t[k], adds[k]) /\ adds[k] \in Path
    BY <1>2, <1>3 DEF Update, Updates
  <2>2. /\ u[k].rejected = adds[k].rejected /\ u[k].src = adds[k].src
        /\ u[k].localID \in {0, adds[k].localID}
        /\ ~FallsOut(t[k], adds[k])
    BY <1>1, <2>1, ReplaceFacts
  <2>3. u[k].localID = adds[k].localID /\ adds[k].localID # 0
    BY <2>2
  <2>4. t[k] # NoPath /\ t[k].localID = adds[k].localID /\ t[k].src = adds[k].src
    BY <1>3, <2>3
  <2>5. ~t[k].rejected
    BY <2>3, <2>4
  <2>6. ~adds[k].rejected
    BY <2>2, <2>4, <2>5 DEF FallsOut
  <2> QED
    BY <2>2, <2>3, <2>4, <2>6
<1>4. CASE k \notin DOMAIN adds
  <2>1. u[k] = t[k]
    BY <1>2, <1>4 DEF Update
  <2> QED
    BY <2>1
<1> QED
  BY <1>3, <1>4

-----------------------------------------------------------------------------
(* Identifiers.                                                            *)

\* A nonempty set of natural numbers has a least element.
LEMMA LeastNat ==
    ASSUME NEW S \in SUBSET Nat, S # {}
    PROVE  \E i \in S : \A j \in S : ~(j < i)
<1>1. \E i \in S : \A j \in S : <<j, i>> \notin OpToRel(<, Nat)
  BY NatLessThanWellFounded, WFMin, Zenon
<1> QED
  BY <1>1, Zenon DEF OpToRel

\* FindandSetZeroBit returns a positive identifier that is not in use.
LEMMA FreshId ==
    ASSUME NEW used \in SUBSET (Nat \ {0}), IsFiniteSet(used)
    PROVE  /\ FindandSetZeroBit(used) \in Nat \ {0}
           /\ FindandSetZeroBit(used) \notin used
<1> DEFINE c == Cardinality(used)
           R == 1 .. (c + 1)
           Good(i) == i \notin used /\ \A j \in 1 .. (i - 1) : j \in used
<1>1. c \in Nat
  BY FS_CardinalityType
<1>2. R \ used # {}
  <2>1. SUFFICES ASSUME R \subseteq used PROVE FALSE
    OBVIOUS
  <2>2. Cardinality(R) <= c
    BY <2>1, FS_Subset, Zenon
  <2>3. Cardinality(R) = c + 1
    BY <1>1, FS_Interval
  <2> QED
    BY <2>2, <2>3, <1>1
<1>3. PICK i \in R \ used : \A j \in R \ used : ~(j < i)
  <2>1. R \ used \in SUBSET Nat
    BY <1>1
  <2> HIDE DEF R
  <2> QED
    BY <2>1, <1>2, LeastNat, Zenon
<1>4. Good(i)
  BY <1>1, <1>3
<1>5. \E x \in R : Good(x)
  BY <1>3, <1>4
<1>6. FindandSetZeroBit(used) = CHOOSE x \in R : Good(x)
  BY DEF FindandSetZeroBit
<1>7. /\ (CHOOSE x \in R : Good(x)) \in R
      /\ Good(CHOOSE x \in R : Good(x))
  BY <1>5
<1> QED
  BY <1>1, <1>6, <1>7

-----------------------------------------------------------------------------
(* Type correctness.  TypeOK is not inductive by itself: that the counters *)
(* never go below zero follows from CountersExact, and that an announced   *)
(* key names a path from AnnouncedAccepted.                                *)

TablesOK ==
    /\ adj \in [Peers -> Table]
    /\ total \in [Peers -> Nat] /\ accepted \in [Peers -> Nat]

RibOK ==
    /\ loc \in [Nlri -> [Sources -> Installed \cup {NoPath}]]
    /\ idMap \in [Nlri -> SUBSET (Nat \ {0})]
    /\ \A n \in Nlri : IsFiniteSet(idMap[n])

WalksOK ==
    /\ withdraws \in [Peers -> SUBSET (Keys \X RouterIds)]
    /\ announces \in [Peers -> SUBSET Keys]
    /\ mgmt \in Peers \cup {NoPeer}

SessionsOK ==
    /\ policy \in [Attrs -> Verdicts] /\ loops \subseteq Attrs
    /\ live \subseteq Peers /\ established \subseteq Peers
    /\ rid \in [Peers -> RouterIds]
    /\ restarting \subseteq Peers /\ longLived \subseteq Peers
    /\ llgrRunning \subseteq Peers /\ llgrFired \subseteq Peers /\ llgrExpired \subseteq Peers
    /\ dirty \subseteq Peers

LEMMA TypeParts == TypeOK <=> TablesOK /\ RibOK /\ WalksOK /\ SessionsOK
BY DEF TypeOK, TablesOK, RibOK, WalksOK, SessionsOK

LEMMA TypePartsNext == TypeOK' <=> TablesOK' /\ RibOK' /\ WalksOK' /\ SessionsOK'
BY DEF TypeOK, TablesOK, RibOK, WalksOK, SessionsOK

TypeInv == TypeOK /\ CountersExact /\ AnnouncedAccepted

\* A table whose counters are the sizes of its sets has natural counters.
LEMMA CountersNat ==
    ASSUME NEW t
    PROVE  Cardinality(Cached(t)) \in Nat /\ Cardinality(Accepted(t)) \in Nat
BY CachedFinite, FS_CardinalityType

\* One Adj-RIB-In is replaced by the table t, its counters by the sizes of t.
LEMMA SetTable ==
    ASSUME TypeInv, NEW p \in Peers, NEW t \in Table, NEW m, NEW n,
           m = Cardinality(Cached(t)), n = Cardinality(Accepted(t)),
           adj' = [adj EXCEPT ![p] = t],
           total' = [total EXCEPT ![p] = m],
           accepted' = [accepted EXCEPT ![p] = n]
    PROVE  TablesOK' /\ CountersExact'
<1>1. m \in Nat /\ n \in Nat
  BY CountersNat
<1>2. TablesOK'
  BY <1>1 DEF TypeInv, TypeOK, TablesOK
<1>3. ASSUME NEW q \in Peers
      PROVE  /\ total'[q] = Cardinality(Cached(adj'[q]))
             /\ accepted'[q] = Cardinality(Accepted(adj'[q]))
  <2>1. CASE q = p
    BY <2>1 DEF TypeInv, TypeOK
  <2>2. CASE q # p
    BY <2>2 DEF TypeInv, TypeOK, CountersExact
  <2> QED
    BY <2>1, <2>2
<1> QED
  BY <1>2, <1>3 DEF CountersExact

LEMMA UpdateTableStep ==
    ASSUME TypeInv, NEW p \in Peers, NEW dels, NEW adds, Updates(dels, adds),
           UpdateTable(p, dels, adds)
    PROVE  TablesOK' /\ CountersExact'
<1> DEFINE t == Update(adj[p], dels, adds)
<1>1. adj[p] \in Table
  BY DEF TypeInv, TypeOK
<1>2. t \in Table
  BY <1>1, UpdateFacts
<1>3. total[p] = Cardinality(Cached(adj[p])) /\ accepted[p] = Cardinality(Accepted(adj[p]))
  BY DEF TypeInv, CountersExact
<1>4. /\ TotalAfter(total[p], adj[p], dels, adds) = Cardinality(Cached(t))
      /\ AcceptedAfter(accepted[p], adj[p], dels, adds) = Cardinality(Accepted(t))
  BY <1>1, <1>3, UpdateCounters
<1>5. /\ adj' = [adj EXCEPT ![p] = t]
      /\ total' = [total EXCEPT ![p] = TotalAfter(total[p], adj[p], dels, adds)]
      /\ accepted' = [accepted EXCEPT ![p] = AcceptedAfter(accepted[p], adj[p], dels, adds)]
  BY DEF UpdateTable, TypeInv, TypeOK
<1> HIDE DEF t
<1> QED
  BY <1>2, <1>4, <1>5, SetTable, Zenon

LEMMA DropTableStep ==
    ASSUME TypeInv, NEW p \in Peers, DropTable(p)
    PROVE  TablesOK' /\ CountersExact'
<1>1. NewAdjRib \in Table
  BY DEF NewAdjRib, Table
<1>2. Cached(NewAdjRib) = {} /\ Accepted(NewAdjRib) = {}
  BY DEF NewAdjRib, Cached, Accepted
<1>3. Cardinality(Cached(NewAdjRib)) = 0 /\ Cardinality(Accepted(NewAdjRib)) = 0
  BY <1>2, FS_EmptySet
<1> QED
  BY <1>1, <1>3, SetTable, Zenon DEF DropTable

\* The withdrawals of cached keys name keys and router identifiers.
LEMMA WithdrawalsType ==
    ASSUME NEW t \in Table, NEW ks \in SUBSET Cached(t)
    PROVE  WithdrawalsOf(t, ks) \subseteq Keys \X RouterIds
<1>1. \A k \in ks : k \in Keys /\ t[k].src \in RouterIds
  BY DEF Cached, Table, Path
<1> QED
  BY <1>1 DEF WithdrawalsOf

LEMMA DropWithdrawalsType ==
    ASSUME TypeInv, NEW p \in Peers
    PROVE  DropWithdrawals(p) \subseteq Keys \X RouterIds
<1>1. adj[p] \in Table /\ Accepted(adj[p]) \in SUBSET Cached(adj[p])
  BY DEF TypeInv, TypeOK, Accepted
<1> QED
  BY <1>1, WithdrawalsType DEF DropWithdrawals

\* A handler replaces the table of p and leaves a list to propagateUpdate.
LEMMA WalkStep ==
    ASSUME TypeInv, NEW p \in Peers, NEW dels, NEW adds, NEW t,
           adj' = [adj EXCEPT ![p] = t], Walk(p, dels, adds),
           mgmt' \in Peers \cup {NoPeer},
           dels \subseteq Keys \X RouterIds, adds \subseteq Accepted(t)
    PROVE  WalksOK' /\ AnnouncedAccepted'
<1>1. adds \subseteq Keys
  BY DEF Accepted, Cached
<1>2. WalksOK'
  BY <1>1, Zenon DEF Walk, WalksOK, TypeInv, TypeOK
<1>3. ASSUME NEW q \in Peers PROVE announces'[q] \subseteq Accepted(adj'[q])
  <2>1. CASE q = p
    BY <2>1 DEF TypeInv, TypeOK, Walk
  <2>2. CASE q # p
    <3>1. announces'[q] = announces[q] /\ adj'[q] = adj[q]
      BY <2>2 DEF TypeInv, TypeOK, Walk
    <3> QED
      BY <3>1 DEF TypeInv, AnnouncedAccepted
  <2> QED
    BY <2>1, <2>2
<1> QED
  BY <1>2, <1>3 DEF AnnouncedAccepted

\* The identifier of an announced path is a positive number.
LEMMA LocalIdType ==
    ASSUME TypeInv, NEW n \in Nlri, NEW s \in Sources, NEW own \in Nat
    PROVE  LocalIdFor(n, s, own) \in Nat \ {0}
<1>1. idMap[n] \in SUBSET (Nat \ {0}) /\ IsFiniteSet(idMap[n])
  BY DEF TypeInv, TypeOK
<1>2. FindandSetZeroBit(idMap[n]) \in Nat \ {0}
  BY <1>1, FreshId
<1>3. loc[n][s] # NoPath => loc[n][s].localID \in Nat \ {0}
  BY DEF TypeInv, TypeOK, Installed
<1> QED
  BY <1>2, <1>3 DEF LocalIdFor

LEMMA SourceType ==
    ASSUME NEW p \in Peers, NEW r \in RouterIds, NEW k \in Keys
    PROVE  SourceOf(p, r, k) \in Sources /\ SourceOf(p, r, k) # Local
BY LocalAssumption DEF SourceOf, Sources, Keys

\* A destination gets a path or loses one; identifiers are added or removed.
LEMMA RibStep ==
    ASSUME TypeInv, NEW n \in Nlri, NEW s \in Sources, NEW path \in Installed \cup {NoPath},
           NEW ids \in SUBSET (Nat \ {0}), IsFiniteSet(ids),
           loc' = [loc EXCEPT ![n][s] = path], idMap' = [idMap EXCEPT ![n] = ids]
    PROVE  RibOK'
<1>1. loc' \in [Nlri -> [Sources -> Installed \cup {NoPath}]]
  BY DEF TypeInv, TypeOK
<1>2. idMap' \in [Nlri -> SUBSET (Nat \ {0})]
  BY DEF TypeInv, TypeOK
<1>3. \A m \in Nlri : IsFiniteSet(idMap'[m])
  BY DEF TypeInv, TypeOK
<1> QED
  BY <1>1, <1>2, <1>3 DEF RibOK

LEMMA SameTables ==
    ASSUME TypeInv, UNCHANGED tableVars
    PROVE  TablesOK' /\ CountersExact'
BY DEF TypeInv, TypeOK, TablesOK, CountersExact, tableVars

LEMMA SameRib ==
    ASSUME TypeInv, UNCHANGED ribVars
    PROVE  RibOK'
BY DEF TypeInv, TypeOK, RibOK, ribVars

LEMMA SameWalks ==
    ASSUME TypeInv, UNCHANGED <<adj, walkVars>>
    PROVE  WalksOK' /\ AnnouncedAccepted'
BY DEF TypeInv, TypeOK, WalksOK, AnnouncedAccepted, walkVars

LEMMA TypeInit == Init => TypeInv
<1> SUFFICES ASSUME Init PROVE TypeInv
  OBVIOUS
<1>1. NewAdjRib \in Table /\ Cached(NewAdjRib) = {} /\ Accepted(NewAdjRib) = {}
  BY DEF NewAdjRib, Table, Cached, Accepted
<1>2. CountersExact /\ TablesOK /\ AnnouncedAccepted
  BY <1>1, FS_EmptySet, Zenon DEF Init, CountersExact, TablesOK, AnnouncedAccepted
<1>3. RibOK
  BY FS_EmptySet DEF Init, RibOK
<1>4. WalksOK
  BY DEF Init, WalksOK
<1>5. SessionsOK
  BY PolicyAssumption DEF Init, SessionsOK
<1> QED
  BY <1>2, <1>3, <1>4, <1>5, TypeParts DEF TypeInv

LEMMA TypeWithdraw ==
    ASSUME TypeInv, NEW p \in Peers, PropagateWithdraw(p)
    PROVE  TypeInv'
<1> USE DEF TypeInv
<1>1. PICK w \in withdraws[p] :
        LET n == w[1][1]
            s == SourceOf(p, w[2], w[1])
            old == loc[n][s]
        IN  /\ loc' = [loc EXCEPT ![n][s] = NoPath]
            /\ idMap' = [idMap EXCEPT ![n] = IF old = NoPath THEN @ ELSE @ \ {old.localID}]
            /\ Walk(p, withdraws[p] \ {w}, announces[p])
            /\ Unlock(p, withdraws[p] \ {w}, announces[p])
            /\ UNCHANGED <<tableVars, configVars, established, rid, grVars, dirty>>
  BY Zenon DEF PropagateWithdraw
<1> DEFINE n == w[1][1]
           s == SourceOf(p, w[2], w[1])
           ids == IF loc[n][s] = NoPath THEN idMap[n] ELSE idMap[n] \ {loc[n][s].localID}
<1>2. w[1] \in Keys /\ w[2] \in RouterIds /\ n \in Nlri
  BY DEF TypeOK, Keys
<1>3. s \in Sources
  BY <1>2, SourceType
<1>4. ids \in SUBSET (Nat \ {0}) /\ IsFiniteSet(ids)
  BY <1>2, FS_RemoveElement, Zenon DEF TypeOK
<1>5. RibOK'
  <2>1. loc' = [loc EXCEPT ![n][s] = NoPath] /\ idMap' = [idMap EXCEPT ![n] = ids]
    BY <1>1, <1>2, Zenon DEF TypeOK
  <2> HIDE DEF n, s, ids
  <2> QED
    BY <1>2, <1>3, <1>4, <2>1, RibStep, Zenon
<1>6. TablesOK' /\ CountersExact'
  BY <1>1, SameTables
<1>7. WalksOK' /\ AnnouncedAccepted'
  <2>1. adj' = [adj EXCEPT ![p] = adj[p]]
    BY <1>1, Zenon DEF tableVars, TypeOK
  <2>2. mgmt' \in Peers \cup {NoPeer}
    BY <1>1 DEF Unlock, TypeOK
  <2>3. withdraws[p] \ {w} \subseteq Keys \X RouterIds /\ announces[p] \subseteq Accepted(adj[p])
    BY Zenon DEF TypeOK, AnnouncedAccepted
  <2> QED
    BY <1>1, <2>1, <2>2, <2>3, WalkStep, Zenon
<1>8. SessionsOK'
  BY <1>1, Zenon DEF TypeOK, SessionsOK, configVars, grVars
<1> QED
  BY <1>5, <1>6, <1>7, <1>8, TypePartsNext

LEMMA TypeAnnounce ==
    ASSUME TypeInv, NEW p \in Peers, PropagateAnnounce(p)
    PROVE  TypeInv'
<1> USE DEF TypeInv
<1>1. PICK k \in announces[p] :
        /\ Install(p, k) \/ Filter(p, k)
        /\ Walk(p, withdraws[p], announces[p] \ {k})
        /\ Unlock(p, withdraws[p], announces[p] \ {k})
        /\ UNCHANGED <<total, accepted, configVars, established, rid, grVars, dirty>>
  BY Zenon DEF PropagateAnnounce
<1> DEFINE path == adj[p][k]
           n == k[1]
           s == SourceOf(p, path.src, k)
           id == LocalIdFor(n, s, path.localID)
<1>2. k \in Accepted(adj[p]) /\ k \in Keys /\ n \in Nlri /\ path \in Path
  BY DEF TypeOK, AnnouncedAccepted, Accepted, Cached, Keys, Table
<1>3. s \in Sources
  BY <1>2, SourceType, Zenon DEF Path
<1>4. id \in Nat \ {0}
  BY <1>2, <1>3, LocalIdType DEF Path
<1>5. /\ WalksOK'
      /\ SessionsOK'
  BY <1>1, Zenon DEF TypeOK, WalksOK, SessionsOK, Walk, Unlock, configVars, grVars
<1>6. CASE Filter(p, k)
  <2>1. loc' = [loc EXCEPT ![n][s] = NoPath] /\ idMap' = [idMap EXCEPT ![n] = idMap[n]] /\ adj' = adj
    BY <1>6, Zenon DEF Filter, TypeOK
  <2>2. idMap[n] \in SUBSET (Nat \ {0}) /\ IsFiniteSet(idMap[n])
    BY <1>2 DEF TypeOK
  <2>3. RibOK'
    <3> HIDE DEF n, s
    <3> QED
      BY <1>2, <1>3, <2>1, <2>2, RibStep, Zenon
  <2>4. TablesOK' /\ CountersExact'
    BY <2>1, <1>1, SameTables, ZenonT(30) DEF tableVars
  <2>5. AnnouncedAccepted'
    BY <2>1, <1>1, Zenon DEF AnnouncedAccepted, Walk, TypeOK
  <2> QED
    BY <1>5, <2>3, <2>4, <2>5, TypePartsNext, Zenon
<1>7. CASE Install(p, k)
  <2> DEFINE new == [attr |-> path.attr, llgr |-> path.llgr, localID |-> id]
             t == [adj[p] EXCEPT ![k].localID = id]
  <2>1. /\ loc' = [loc EXCEPT ![n][s] = new]
        /\ idMap' = [idMap EXCEPT ![n] = idMap[n] \cup {id}]
        /\ adj' = [adj EXCEPT ![p] = t] \/ adj' = adj
    BY <1>7, ZenonT(30) DEF Install, TypeOK
  <2>2. new \in Installed
    BY <1>2, <1>4, Zenon DEF Installed, Path
  <2>3. idMap[n] \cup {id} \in SUBSET (Nat \ {0}) /\ IsFiniteSet(idMap[n] \cup {id})
    BY <1>2, <1>4, FS_AddElement, ZenonT(30) DEF TypeOK
  <2>4. RibOK'
    <3> HIDE DEF n, s, new, id
    <3> QED
      BY <1>2, <1>3, <2>1, <2>2, <2>3, RibStep, Zenon
  <2>5. adj[p] \in Table /\ adj[p][k] \in Path /\ id \in Nat
    BY <1>2, <1>4, Zenon DEF TypeOK
  <2>6. t \in Table /\ t[k] # NoPath /\ t[k].rejected = adj[p][k].rejected
    <3> HIDE DEF id
    <3>1. t[k] \in Path /\ t[k].rejected = adj[p][k].rejected
      BY <1>2, <2>5 DEF Path, Table
    <3>2. \A j \in Keys : j # k => t[j] = adj[p][j]
      BY <2>5 DEF Table
    <3>3. t = [j \in Keys |-> t[j]]
      BY <2>5 DEF Table
    <3> HIDE DEF t
    <3>4. \A j \in Keys : t[j] \in Path \cup {NoPath}
      BY <3>1, <3>2, <2>5 DEF Table
    <3>5. t \in Table
      BY <3>3, <3>4 DEF Table
    <3>6. t[k] # NoPath /\ adj[p][k] # NoPath
      BY <3>1, <2>5, NoPathAssumption
    <3> QED
      BY <3>1, <3>5, <3>6
  <2>7. Cached(t) = Cached(adj[p]) /\ Accepted(t) = Accepted(adj[p])
    <3>1. ASSUME NEW j \in Keys, j # k PROVE t[j] = adj[p][j]
      BY <2>5, <3>1 DEF Table
    <3>2. adj[p][k] # NoPath
      BY <2>5, NoPathAssumption
    <3> HIDE DEF t
    <3>3. ASSUME NEW j \in Keys
          PROVE  /\ j \in Cached(t) <=> j \in Cached(adj[p])
                 /\ j \in Accepted(t) <=> j \in Accepted(adj[p])
      <4>1. CASE j = k
        BY <4>1, <2>6, <3>2 DEF Cached, Accepted
      <4>2. CASE j # k
        BY <4>2, <3>1 DEF Cached, Accepted
      <4> QED
        BY <4>1, <4>2
    <3>4. /\ Cached(t) \subseteq Keys /\ Cached(adj[p]) \subseteq Keys
          /\ Accepted(t) \subseteq Keys /\ Accepted(adj[p]) \subseteq Keys
      BY Zenon DEF Cached, Accepted
    <3> QED
      BY <3>3, <3>4
  <2>8. CASE adj' = adj
    <3>1. TablesOK' /\ CountersExact'
      BY <2>8, <1>1, SameTables, Zenon DEF tableVars
    <3>2. AnnouncedAccepted'
      BY <2>8, <1>1 DEF AnnouncedAccepted, Walk, TypeOK
    <3> QED
      BY <1>5, <2>4, <3>1, <3>2, TypePartsNext
  <2>9. CASE adj' = [adj EXCEPT ![p] = t]
    <3> HIDE DEF t
    <3>1. TablesOK' /\ CountersExact'
      <4>1. /\ total' = [total EXCEPT ![p] = total[p]]
            /\ accepted' = [accepted EXCEPT ![p] = accepted[p]]
        BY <1>1, Zenon DEF TypeOK
      <4>2. total[p] = Cardinality(Cached(t)) /\ accepted[p] = Cardinality(Accepted(t))
        BY <2>7 DEF CountersExact
      <4> QED
        BY <2>6, <2>9, <4>1, <4>2, SetTable, Zenon
    <3>2. AnnouncedAccepted'
      <4>1. announces[p] \ {k} \subseteq Accepted(t) /\ withdraws[p] \subseteq Keys \X RouterIds
        BY <2>7 DEF AnnouncedAccepted, TypeOK
      <4>2. mgmt' \in Peers \cup {NoPeer}
        BY <1>5 DEF WalksOK
      <4> QED
        BY <1>1, <2>9, <4>1, <4>2, WalkStep, Zenon
    <3> QED
      BY <1>5, <2>4, <3>1, <3>2, TypePartsNext
  <2> QED
    BY <2>1, <2>8, <2>9, Zenon
<1> QED
  BY <1>1, <1>6, <1>7, ZenonT(30)

\* A handler that drops the table of p.
LEMMA TypeDrop ==
    ASSUME TypeInv, NEW p \in Peers, DropTable(p), Walk(p, DropWithdrawals(p), {}),
           UNCHANGED ribVars, mgmt' \in Peers \cup {NoPeer}, SessionsOK'
    PROVE  TypeInv'
<1>1. TablesOK' /\ CountersExact'
  BY DropTableStep
<1>2. RibOK'
  BY SameRib
<1>3. WalksOK' /\ AnnouncedAccepted'
  <2>1. adj' = [adj EXCEPT ![p] = NewAdjRib]
    BY DEF DropTable
  <2> QED
    BY <2>1, DropWithdrawalsType, WalkStep, Zenon
<1> QED
  BY <1>1, <1>2, <1>3, TypePartsNext DEF TypeInv

\* A handler that updates the table of p.
LEMMA TypeUpdateTable ==
    ASSUME TypeInv, NEW p \in Peers, NEW dels, NEW adds, NEW ws, NEW ks,
           Updates(dels, adds), UpdateTable(p, dels, adds), Walk(p, ws, ks),
           ws \subseteq Keys \X RouterIds, ks \subseteq Accepted(Update(adj[p], dels, adds)),
           UNCHANGED ribVars, mgmt' \in Peers \cup {NoPeer}, SessionsOK'
    PROVE  TypeInv'
<1>1. TablesOK' /\ CountersExact'
  BY UpdateTableStep
<1>2. RibOK'
  BY SameRib
<1>3. WalksOK' /\ AnnouncedAccepted'
  <2>1. adj' = [adj EXCEPT ![p] = Update(adj[p], dels, adds)]
    BY DEF UpdateTable, TypeInv, TypeOK
  <2> QED
    BY <2>1, WalkStep, Zenon
<1> QED
  BY <1>1, <1>2, <1>3, TypePartsNext DEF TypeInv

\* A step that leaves the tables, the Loc-RIB and the walks alone.
LEMMA TypeOther ==
    ASSUME TypeInv, UNCHANGED <<tableVars, ribVars, walkVars>>, SessionsOK'
    PROVE  TypeInv'
<1>1. UNCHANGED tableVars /\ UNCHANGED ribVars /\ UNCHANGED <<adj, walkVars>>
  BY Zenon DEF tableVars
<1> QED
  BY <1>1, SameTables, SameRib, SameWalks, TypePartsNext DEF TypeInv

\* The update of HandleUpdate is a proper one, and what it announces is accepted.
LEMMA HandleUpdateFacts ==
    ASSUME TypeInv, NEW p \in Peers, NEW dels \in SUBSET Keys, NEW adds \in SUBSET Keys,
           NEW a \in Attrs, dels \cap adds = {}, NEW paths, paths = [k \in adds |-> NewPath(p, a)]
    PROVE  /\ Updates(dels, paths)
           /\ WithdrawalsOf(adj[p], Withdrawals(adj[p], paths)) \subseteq Keys \X RouterIds
           /\ dels \X {rid[p]} \subseteq Keys \X RouterIds
           /\ a \notin loops => adds \subseteq Accepted(Update(adj[p], dels, paths))
<1>1. rid[p] \in RouterIds /\ adj[p] \in Table
  BY Zenon DEF TypeInv, TypeOK
<1>2. NewPath(p, a) \in Path
  <2>1. (a \in loops) \in BOOLEAN
    OBVIOUS
  <2> QED
    BY <1>1, <2>1 DEF Path, NewPath
<1>3. Updates(dels, paths)
  BY <1>2 DEF Updates
<1>4. Withdrawals(adj[p], paths) \in SUBSET Cached(adj[p])
  BY DEF Withdrawals, FallsOut, Cached
<1>5. WithdrawalsOf(adj[p], Withdrawals(adj[p], paths)) \subseteq Keys \X RouterIds
  BY <1>1, <1>4, WithdrawalsType, Zenon
<1>6. ASSUME a \notin loops PROVE adds \subseteq Accepted(Update(adj[p], dels, paths))
  <2>1. ~NewPath(p, a).rejected
    BY <1>6, Zenon DEF NewPath
  <2>2. {k \in DOMAIN paths : ~paths[k].rejected} = adds
    BY <2>1, Zenon
  <2> QED
    BY <1>1, <1>3, <2>2, UpdateFacts
<1> QED
  BY <1>1, <1>3, <1>5, <1>6

LEMMA TypeHandleUpdate ==
    ASSUME TypeInv, NEW p \in Peers, NEW dels \in SUBSET Keys, NEW adds \in SUBSET Keys,
           NEW a \in Attrs, HandleUpdate(p, dels, adds, a)
    PROVE  TypeInv'
<1> DEFINE paths == [k \in adds |-> NewPath(p, a)]
           own == WithdrawalsOf(adj[p], Withdrawals(adj[p], paths))
           ks == IF a \in loops THEN {} ELSE adds
<1>1. /\ UpdateTable(p, dels, paths) /\ UNCHANGED ribVars /\ mgmt' = mgmt
      /\ Walk(p, {}, {}) \/ Walk(p, own \cup (dels \X {rid[p]}), ks)
      /\ dels \cap adds = {}
  BY Zenon DEF HandleUpdate
<1>2. SessionsOK'
  BY DEF HandleUpdate, TypeInv, TypeOK, SessionsOK, configVars, grVars
<1>3. mgmt' \in Peers \cup {NoPeer}
  BY <1>1, Zenon DEF TypeInv, TypeOK
<1>4. /\ Updates(dels, paths)
      /\ own \cup (dels \X {rid[p]}) \subseteq Keys \X RouterIds
      /\ ks \subseteq Accepted(Update(adj[p], dels, paths))
  <2>1. /\ Updates(dels, paths)
        /\ own \subseteq Keys \X RouterIds
        /\ dels \X {rid[p]} \subseteq Keys \X RouterIds
        /\ a \notin loops => adds \subseteq Accepted(Update(adj[p], dels, paths))
    BY <1>1, HandleUpdateFacts, Zenon
  <2> HIDE DEF paths, own
  <2> QED
    BY <2>1, Zenon
<1> HIDE DEF paths, own, ks
<1> QED
  BY <1>1, <1>2, <1>3, <1>4, TypeUpdateTable, Zenon

LEMMA TypePeerRestart ==
    ASSUME TypeInv, NEW p \in Peers, PeerRestart(p)
    PROVE  TypeInv'
<1>1. /\ adj' = [adj EXCEPT ![p] = StaleAll(adj[p])]
      /\ total' = [total EXCEPT ![p] = total[p]] /\ accepted' = [accepted EXCEPT ![p] = accepted[p]]
      /\ Walk(p, {}, Accepted(adj[p])) /\ UNCHANGED ribVars /\ mgmt' = mgmt
  BY DEF PeerRestart, TypeInv, TypeOK
<1>2. SessionsOK'
  BY DEF PeerRestart, TypeInv, TypeOK, SessionsOK, configVars
<1>3. /\ StaleAll(adj[p]) \in Table
      /\ Cached(StaleAll(adj[p])) = Cached(adj[p]) /\ Accepted(StaleAll(adj[p])) = Accepted(adj[p])
  BY StaleAllFacts, ZenonT(30) DEF TypeInv, TypeOK
<1>4. /\ total[p] = Cardinality(Cached(StaleAll(adj[p])))
      /\ accepted[p] = Cardinality(Accepted(StaleAll(adj[p])))
  BY <1>3 DEF TypeInv, CountersExact
<1>5. TablesOK' /\ CountersExact'
  BY <1>1, <1>3, <1>4, SetTable, Zenon
<1>6. RibOK'
  BY <1>1, SameRib
<1>7. WalksOK' /\ AnnouncedAccepted'
  <2> DEFINE t == StaleAll(adj[p])
             ks == Accepted(adj[p])
  <2>1. /\ mgmt' \in Peers \cup {NoPeer} /\ ks \subseteq Accepted(t)
        /\ {} \subseteq Keys \X RouterIds
        /\ adj' = [adj EXCEPT ![p] = t] /\ Walk(p, {}, ks)
    BY <1>1, <1>3 DEF TypeInv, TypeOK
  <2> HIDE DEF t, ks
  <2> QED
    BY <2>1, WalkStep, Zenon
<1> QED
  BY <1>2, <1>5, <1>6, <1>7, TypePartsNext, Zenon DEF TypeInv

LEMMA TypeStartLongLived ==
    ASSUME TypeInv, NEW p \in Peers, StartLongLived(p)
    PROVE  TypeInv'
<1> DEFINE t == adj[p]
           ws == WithdrawalsOf(t, LlgrDrops(t) \cap Accepted(t))
           ks == Accepted(t) \ LlgrDrops(t)
<1>1. /\ UpdateTable(p, LlgrDrops(t), LlgrMarks(t)) /\ Walk(p, ws, ks)
      /\ UNCHANGED ribVars /\ mgmt' = mgmt
  BY Zenon DEF StartLongLived
<1>2. SessionsOK'
  BY DEF StartLongLived, TypeInv, TypeOK, SessionsOK, configVars
<1>3. t \in Table /\ mgmt' \in Peers \cup {NoPeer}
  BY <1>1 DEF TypeInv, TypeOK
<1>4. Updates(LlgrDrops(t), LlgrMarks(t))
  BY <1>3, BulkUpdates
<1>5. ws \subseteq Keys \X RouterIds
  <2>1. LlgrDrops(t) \cap Accepted(t) \in SUBSET Cached(t)
    BY Zenon DEF LlgrDrops, Accepted
  <2> QED
    BY <1>3, <2>1, WithdrawalsType
<1>6. ks \subseteq Accepted(Update(t, LlgrDrops(t), LlgrMarks(t)))
  <2>1. DOMAIN LlgrMarks(t) = Cached(t) \ LlgrDrops(t)
    BY DEF LlgrMarks
  <2>2. ASSUME NEW k \in ks PROVE k \in DOMAIN LlgrMarks(t) /\ ~LlgrMarks(t)[k].rejected
    <3>1. k \in Cached(t) \ LlgrDrops(t) /\ ~t[k].rejected /\ t[k] \in Path
      BY <1>3 DEF Accepted, Cached, Table
    <3>2. LlgrMarks(t)[k] = [t[k] EXCEPT !.llgr = TRUE]
      BY <3>1 DEF LlgrMarks
    <3> QED
      BY <2>1, <3>1, <3>2, Zenon DEF Path
  <2>3. ks \subseteq {k \in DOMAIN LlgrMarks(t) : ~LlgrMarks(t)[k].rejected}
    BY <2>2
  <2> HIDE DEF t, ks
  <2> QED
    BY <1>3, <1>4, <2>3, UpdateFacts
<1> HIDE DEF ws, ks
<1> QED
  BY <1>1, <1>2, <1>3, <1>4, <1>5, <1>6, TypeUpdateTable, Zenon

LEMMA TypeHandleEOR ==
    ASSUME TypeInv, NEW p \in Peers, HandleEOR(p)
    PROVE  TypeInv'
<1> DEFINE t == adj[p]
           none == [k \in {} |-> NoPath]
           ws == WithdrawalsOf(t, StaleKeys(t) \cap Accepted(t))
<1>1. /\ UpdateTable(p, StaleKeys(t), none) /\ Walk(p, ws, {})
      /\ UNCHANGED ribVars /\ mgmt' = mgmt
  BY Zenon DEF HandleEOR
<1>2. SessionsOK'
  BY DEF HandleEOR, stopPeerRestarting, TypeInv, TypeOK, SessionsOK, configVars
<1>3. t \in Table /\ mgmt' \in Peers \cup {NoPeer}
  BY <1>1 DEF TypeInv, TypeOK
<1>4. Updates(StaleKeys(t), none)
  BY <1>3, BulkUpdates
<1>5. ws \subseteq Keys \X RouterIds
  <2>1. StaleKeys(t) \cap Accepted(t) \in SUBSET Cached(t)
    BY DEF StaleKeys
  <2> QED
    BY <1>3, <2>1, WithdrawalsType
<1> HIDE DEF ws, none
<1> QED
  BY <1>1, <1>2, <1>3, <1>4, <1>5, TypeUpdateTable, Zenon

\* After a soft reset the paths without a loop are accepted.
LEMMA SoftResetFacts ==
    ASSUME NEW t \in Table, NEW l
    PROVE  /\ Updates({}, SetRejected(t, l))
           /\ Withdrawals(t, SetRejected(t, l)) \in SUBSET Cached(t)
           /\ {k \in Cached(t) : t[k].attr \notin l} \subseteq Accepted(Update(t, {}, SetRejected(t, l)))
<1> DEFINE adds == SetRejected(t, l)
<1>1. Updates({}, adds)
  BY BulkUpdates
<1>2. Withdrawals(t, adds) \in SUBSET Cached(t)
  BY DEF Withdrawals, FallsOut, SetRejected, Cached
<1>3. ASSUME NEW k \in Cached(t), t[k].attr \notin l
      PROVE  k \in Accepted(Update(t, {}, adds))
  <2>1. t[k] \in Path
    BY DEF Cached, Table
  <2>2. CASE t[k].rejected
    <3>1. k \in DOMAIN adds /\ adds[k] = [t[k] EXCEPT !.rejected = (t[k].attr \in l)]
      BY <1>3, <2>1, <2>2 DEF SetRejected, Path
    <3>2. adds[k] = [t[k] EXCEPT !.rejected = FALSE]
      <4>1. (t[k].attr \in l) = FALSE
        BY <1>3
      <4> HIDE DEF adds
      <4> QED
        BY <4>1, <3>1, Zenon
    <3>3. ~adds[k].rejected
      BY <2>1, <3>2 DEF Path
    <3>4. k \in {j \in DOMAIN adds : ~adds[j].rejected}
      BY <3>1, <3>3, Zenon
    <3> HIDE DEF adds
    <3> QED
      BY <1>1, <3>4, UpdateFacts
  <2>3. CASE ~t[k].rejected
    <3>1. k \in Accepted(t) /\ k \notin DOMAIN adds
      <4>1. t[k].rejected = FALSE /\ (t[k].attr \in l) = FALSE
        BY <1>3, <2>1, <2>3 DEF Path
      <4>2. ~(t[k].rejected # (t[k].attr \in l))
        BY <4>1, Zenon
      <4> QED
        BY <4>2, <2>3 DEF SetRejected, Accepted
    <3>2. k \notin Withdrawals(t, adds)
      BY <3>1 DEF Withdrawals
    <3> HIDE DEF adds
    <3> QED
      BY <1>1, <3>1, <3>2, UpdateFacts
  <2> QED
    BY <2>2, <2>3
<1> QED
  BY <1>1, <1>2, <1>3

LEMMA TypeSoftResetIn ==
    ASSUME TypeInv, NEW p \in Peers, SoftResetIn(p)
    PROVE  TypeInv'
<1> DEFINE t == adj[p]
           adds == SetRejected(t, loops)
           ws == WithdrawalsOf(t, Withdrawals(t, adds))
           ks == {k \in Cached(t) : t[k].attr \notin loops}
<1>1. /\ UpdateTable(p, {}, adds) /\ Walk(p, ws, ks)
      /\ UNCHANGED ribVars /\ mgmt' \in Peers \cup {NoPeer}
  BY Zenon DEF SoftResetIn, HoldLock
<1>2. SessionsOK'
  BY DEF SoftResetIn, TypeInv, TypeOK, SessionsOK, configVars, grVars
<1>3. t \in Table
  BY DEF TypeInv, TypeOK
<1>4. /\ Updates({}, adds) /\ ks \subseteq Accepted(Update(t, {}, adds))
      /\ Withdrawals(t, adds) \in SUBSET Cached(t)
  BY <1>3, SoftResetFacts
<1>5. ws \subseteq Keys \X RouterIds
  BY <1>3, <1>4, WithdrawalsType
<1> HIDE DEF adds, ws, ks
<1> QED
  BY <1>1, <1>2, <1>4, <1>5, TypeUpdateTable, Zenon

LEMMA TypeAddPath ==
    ASSUME TypeInv, NEW n \in Nlri, NEW a \in Attrs, AddPath(n, a)
    PROVE  TypeInv'
<1> DEFINE id == LocalIdFor(n, Local, 0)
           new == [attr |-> a, llgr |-> FALSE, localID |-> id]
<1>1. /\ UNCHANGED tableVars /\ UNCHANGED <<adj, walkVars>>
      /\ \/ loc' = [loc EXCEPT ![n][Local] = NoPath] /\ idMap' = idMap
         \/ loc' = [loc EXCEPT ![n][Local] = new] /\ idMap' = [idMap EXCEPT ![n] = idMap[n] \cup {id}]
  BY ZenonT(30) DEF AddPath, tableVars, TypeInv, TypeOK
<1>2. SessionsOK'
  BY DEF AddPath, TypeInv, TypeOK, SessionsOK, configVars, grVars
<1>3. Local \in Sources
  BY DEF Sources
<1>4. id \in Nat \ {0}
  BY <1>3, LocalIdType
<1>5. new \in Installed
  BY <1>4 DEF Installed
<1>6. /\ idMap[n] \in SUBSET (Nat \ {0}) /\ IsFiniteSet(idMap[n])
      /\ idMap[n] \cup {id} \in SUBSET (Nat \ {0}) /\ IsFiniteSet(idMap[n] \cup {id})
  BY <1>4, FS_AddElement, Zenon DEF TypeInv, TypeOK
<1> HIDE DEF id, new
<1>7. RibOK'
  <2>1. CASE loc' = [loc EXCEPT ![n][Local] = NoPath] /\ idMap' = idMap
    <3>1. idMap' = [idMap EXCEPT ![n] = idMap[n]]
      BY <2>1 DEF TypeInv, TypeOK
    <3> QED
      BY <2>1, <3>1, <1>3, <1>6, RibStep, Zenon
  <2>2. CASE loc' = [loc EXCEPT ![n][Local] = new] /\ idMap' = [idMap EXCEPT ![n] = idMap[n] \cup {id}]
    BY <2>2, <1>3, <1>5, <1>6, RibStep, Zenon
  <2> QED
    BY <1>1, <2>1, <2>2
<1> QED
  BY <1>1, <1>2, <1>7, SameTables, SameWalks, TypePartsNext, Zenon DEF TypeInv

LEMMA TypeDeletePath ==
    ASSUME TypeInv, NEW n \in Nlri, DeletePath(n)
    PROVE  TypeInv'
<1>1. /\ UNCHANGED tableVars /\ UNCHANGED <<adj, walkVars>>
      /\ loc' = [loc EXCEPT ![n][Local] = NoPath] /\ idMap' = [idMap EXCEPT ![n] = idMap[n]]
  BY Zenon DEF DeletePath, tableVars, TypeInv, TypeOK
<1>2. SessionsOK'
  BY DEF DeletePath, TypeInv, TypeOK, SessionsOK, configVars, grVars
<1>3. Local \in Sources /\ idMap[n] \in SUBSET (Nat \ {0}) /\ IsFiniteSet(idMap[n])
  BY DEF Sources, TypeInv, TypeOK
<1>4. RibOK'
  BY <1>1, <1>3, RibStep, Zenon
<1> QED
  BY <1>1, <1>2, <1>4, SameTables, SameWalks, TypePartsNext, Zenon DEF TypeInv

LEMMA TypeAddPeer ==
    ASSUME TypeInv, NEW p \in Peers, AddPeer(p)
    PROVE  TypeInv'
<1>1. DropTable(p) /\ UNCHANGED ribVars /\ UNCHANGED walkVars /\ announces[p] = {}
  BY Zenon DEF AddPeer, Management, Walking
<1>2. SessionsOK'
  BY DEF AddPeer, TypeInv, TypeOK, SessionsOK
<1>3. WalksOK'
  BY <1>1 DEF TypeInv, TypeOK, WalksOK, walkVars
<1>4. AnnouncedAccepted'
  <2>1. ASSUME NEW q \in Peers PROVE announces'[q] \subseteq Accepted(adj'[q])
    BY <1>1 DEF DropTable, TypeInv, TypeOK, walkVars, AnnouncedAccepted
  <2> QED
    BY <2>1, Zenon DEF AnnouncedAccepted
<1> QED
  BY <1>1, <1>2, <1>3, <1>4, DropTableStep, SameRib, TypePartsNext, Zenon DEF TypeInv

LEMMA TypeStep == TypeInv /\ [Next]_vars => TypeInv'
<1> SUFFICES ASSUME TypeInv, [Next]_vars PROVE TypeInv'
  OBVIOUS
<1> USE DEF configVars, grVars
<1>1. ASSUME NEW p \in Peers, NEW r \in RouterIds, Establish(p, r) PROVE TypeInv'
  <2>1. SessionsOK'
    BY <1>1 DEF Establish, TypeInv, TypeOK, SessionsOK
  <2> QED
    BY <1>1, <2>1, TypeOther, Zenon DEF Establish
<1>2. ASSUME NEW p \in Peers, NEW graceful \in BOOLEAN, PeerDown(p, graceful) PROVE TypeInv'
  <2>1. SessionsOK' /\ mgmt' \in Peers \cup {NoPeer}
    BY <1>2 DEF PeerDown, TypeInv, TypeOK, SessionsOK
  <2> QED
    BY <1>2, <2>1, TypeDrop, Zenon DEF PeerDown
<1>3. ASSUME NEW p \in Peers, RestartFailed(p) PROVE TypeInv'
  <2>1. SessionsOK' /\ mgmt' \in Peers \cup {NoPeer}
    BY <1>3 DEF RestartFailed, TypeInv, TypeOK, SessionsOK
  <2> QED
    BY <1>3, <2>1, TypeDrop, Zenon DEF RestartFailed
<1>4. ASSUME NEW p \in Peers, LlgrTimeout(p) PROVE TypeInv'
  <2>1. SessionsOK'
    BY <1>4 DEF LlgrTimeout, TypeInv, TypeOK, SessionsOK
  <2> QED
    BY <1>4, <2>1, TypeOther, Zenon DEF LlgrTimeout
<1>5. ASSUME NEW p \in Peers, LlgrRestartTimerExpired(p) PROVE TypeInv'
  <2>1. SessionsOK' /\ mgmt' \in Peers \cup {NoPeer}
    BY <1>5 DEF LlgrRestartTimerExpired, stopPeerRestarting, HoldLock, TypeInv, TypeOK, SessionsOK
  <2> QED
    BY <1>5, <2>1, TypeDrop, Zenon DEF LlgrRestartTimerExpired
<1>6. ASSUME NEW p \in Peers, DeletePeer(p) PROVE TypeInv'
  <2>1. SessionsOK' /\ mgmt' \in Peers \cup {NoPeer}
    BY <1>6 DEF DeletePeer, stopPeerRestarting, HoldLock, TypeInv, TypeOK, SessionsOK
  <2> QED
    BY <1>6, <2>1, TypeDrop, Zenon DEF DeletePeer
<1>7. ASSUME NEW p \in Peers, FsmExit(p) PROVE TypeInv'
  <2>1. SessionsOK'
    BY <1>7 DEF FsmExit, TypeInv, TypeOK, SessionsOK
  <2> QED
    BY <1>7, <2>1, TypeOther, Zenon DEF FsmExit
<1>8. ASSUME NEW new \in Policies, SetPolicies(new) PROVE TypeInv'
  <2>1. SessionsOK'
    BY <1>8, PolicyAssumption DEF SetPolicies, TypeInv, TypeOK, SessionsOK
  <2> QED
    BY <1>8, <2>1, TypeOther, Zenon DEF SetPolicies
<1>9. ASSUME NEW l \in LoopSets, SetLoops(l) PROVE TypeInv'
  <2>1. SessionsOK'
    BY <1>9, PolicyAssumption DEF SetLoops, TypeInv, TypeOK, SessionsOK
  <2> QED
    BY <1>9, <2>1, TypeOther, Zenon DEF SetLoops
<1>10. ASSUME UNCHANGED vars PROVE TypeInv'
  <2>1. SessionsOK' /\ UNCHANGED <<tableVars, ribVars, walkVars>>
    BY <1>10, Zenon DEF vars, TypeInv, TypeOK, SessionsOK
  <2> QED
    BY <2>1, TypeOther, Zenon
<1>11. ASSUME NEW p \in Peers, PeerNext(p) PROVE TypeInv'
  BY <1>11, <1>1, <1>2, <1>3, TypeWithdraw, TypeAnnounce, TypeHandleUpdate,
     TypePeerRestart, TypeHandleEOR, TypeSoftResetIn, Zenon DEF PeerNext
<1>12. ASSUME OperatorNext PROVE TypeInv'
  BY <1>12, <1>6, <1>7, <1>8, <1>9, TypeAddPath, TypeDeletePath, TypeAddPeer,
     LocalAssumption, PeersAssumption, Zenon DEF OperatorNext
<1>13. ASSUME NEW p \in LlgrPeers, LongLivedNext(p) PROVE TypeInv'
  BY <1>13, <1>4, <1>5, TypeStartLongLived, PeersAssumption DEF LongLivedNext
<1> QED
  BY <1>10, <1>11, <1>12, <1>13 DEF Next

\* In every behavior every variable keeps its type; in particular the counters
\* of an Adj-RIB-In (adj.go) never go below zero.
THEOREM TypeCorrect == Spec => []TypeOK
<1>1. TypeInv => TypeOK
  BY DEF TypeInv
<1> QED
  BY <1>1, TypeInit, TypeStep, PTL DEF Spec

\* The counters of every Adj-RIB-In are always the numbers of cached and of
\* accepted paths, whatever order of updates, restarts, resets and deletions.
THEOREM CountersCorrect == Spec => []CountersExact
<1>1. TypeInv => CountersExact
  BY Zenon DEF TypeInv
<1> QED
  BY <1>1, TypeInit, TypeStep, PTL DEF Spec

-----------------------------------------------------------------------------
(* Stale paths.                                                            *)

\* After an update a path is stale only if it was before, and was not
\* withdrawn, or if it came in stale.
LEMMA UpdateStale ==
    ASSUME NEW t \in Table, NEW dels, NEW adds, Updates(dels, adds)
    PROVE  StaleKeys(Update(t, dels, adds)) \subseteq
               (StaleKeys(t) \ dels) \cup {k \in DOMAIN adds : adds[k].stale}
<1> SUFFICES ASSUME NEW k \in StaleKeys(Update(t, dels, adds)), k \notin DOMAIN adds \/ ~adds[k].stale
             PROVE  k \in StaleKeys(t) \ dels
  OBVIOUS
<1>1. PICK x : x = Update(t, dels, adds)[k]
  BY Zenon
<1>2. k \in Keys /\ x # NoPath /\ x.stale
  BY <1>1, Zenon DEF StaleKeys, Cached
<1>3. x = IF k \in dels THEN NoPath ELSE IF k \in DOMAIN adds THEN Replace(t[k], adds[k]) ELSE t[k]
  BY <1>1, <1>2, Zenon DEF Update
<1>4. k \in DOMAIN adds => Replace(t[k], adds[k]).stale = adds[k].stale
  <2>1. ASSUME NEW new \in Path, NEW old PROVE Replace(old, new).stale = new.stale
    BY Zenon DEF Replace, Path
  <2> QED
    BY <2>1 DEF Updates
<1>5. k \notin dels /\ x = t[k]
  BY <1>2, <1>3, <1>4
<1> QED
  BY <1>2, <1>5 DEF StaleKeys, Cached

\* The table and the restart of p change: it has no stale path left, or is
\* restarting, or has no new one and goes on restarting if it was.
LEMMA StaleNext ==
    ASSUME StaleOnlyWhileRestarting, NEW p \in Peers, NEW t, adj \in [Peers -> Table],
           adj' = [adj EXCEPT ![p] = t], restarting \ {p} \subseteq restarting',
           \/ StaleKeys(t) = {}
           \/ p \in restarting'
           \/ StaleKeys(t) \subseteq StaleKeys(adj[p]) /\ restarting \subseteq restarting'
    PROVE  StaleOnlyWhileRestarting'
<1> SUFFICES ASSUME NEW q \in Peers, StaleKeys(adj'[q]) # {} PROVE q \in restarting'
  BY DEF StaleOnlyWhileRestarting
<1>1. CASE q = p
  BY <1>1 DEF StaleOnlyWhileRestarting
<1>2. CASE q # p
  BY <1>2 DEF StaleOnlyWhileRestarting
<1> QED
  BY <1>1, <1>2

LEMMA StaleDrop ==
    ASSUME TypeInv, StaleOnlyWhileRestarting, NEW p \in Peers, DropTable(p),
           restarting \ {p} \subseteq restarting'
    PROVE  StaleOnlyWhileRestarting'
<1>1. StaleKeys(NewAdjRib) = {}
  BY DEF StaleKeys, Cached, NewAdjRib
<1>2. adj \in [Peers -> Table] /\ adj' = [adj EXCEPT ![p] = NewAdjRib]
  BY DEF DropTable, TypeInv, TypeOK
<1> QED
  BY <1>1, <1>2, StaleNext, Zenon

\* An installed path is written its identifier, and nothing else.
LEMMA StaleAnnounce ==
    ASSUME TypeInv, StaleOnlyWhileRestarting, NEW p \in Peers, PropagateAnnounce(p)
    PROVE  StaleOnlyWhileRestarting'
<1>1. adj \in [Peers -> Table] /\ restarting' = restarting
  BY DEF PropagateAnnounce, grVars, TypeInv, TypeOK
<1>2. PICK k \in announces[p] : Install(p, k) \/ Filter(p, k)
  BY Zenon DEF PropagateAnnounce
<1>3. CASE adj' = adj
  BY <1>1, <1>3, Zenon DEF StaleOnlyWhileRestarting
<1>4. ASSUME NEW id, adj' = [adj EXCEPT ![p][k].localID = id] PROVE StaleOnlyWhileRestarting'
  <2>1. k \in Keys /\ adj[p][k] \in Path /\ adj[p] \in Table
    BY <1>1, NoPathAssumption DEF TypeInv, AnnouncedAccepted, Accepted, Cached, Table
  <2>2. PICK x : x = [adj[p][k] EXCEPT !.localID = id]
    BY Zenon
  <2>3. x.stale = adj[p][k].stale
    BY <2>1, <2>2 DEF Path
  <2>4. PICK t : t = [adj[p] EXCEPT ![k] = x]
    BY Zenon
  <2>5. adj' = [adj EXCEPT ![p] = t]
    BY <1>4, <2>2, <2>4, Zenon
  <2>6. \A j \in Keys : t[j] = IF j = k THEN x ELSE adj[p][j]
    BY <2>1, <2>4 DEF Table
  <2>7. adj[p][k] # NoPath
    BY <2>1, NoPathAssumption
  <2>8. StaleKeys(t) \subseteq StaleKeys(adj[p])
    BY <2>3, <2>6, <2>7 DEF StaleKeys, Cached
  <2> QED
    BY <1>1, <2>5, <2>8, StaleNext, Zenon
<1> QED
  BY <1>2, <1>3, <1>4 DEF Install, Filter

LEMMA StaleHandleUpdate ==
    ASSUME TypeInv, StaleOnlyWhileRestarting, NEW p \in Peers, NEW dels \in SUBSET Keys,
           NEW adds \in SUBSET Keys, NEW a \in Attrs, HandleUpdate(p, dels, adds, a)
    PROVE  StaleOnlyWhileRestarting'
<1> DEFINE paths == [k \in adds |-> NewPath(p, a)]
           t == Update(adj[p], dels, paths)
<1>1. /\ adj' = [adj EXCEPT ![p] = t] /\ dels \cap adds = {} /\ restarting' = restarting
  BY DEF HandleUpdate, UpdateTable, grVars
<1>2. adj \in [Peers -> Table] /\ adj[p] \in Table
  BY DEF TypeInv, TypeOK
<1>3. Updates(dels, paths)
  BY <1>1, HandleUpdateFacts
<1>4. {k \in DOMAIN paths : paths[k].stale} = {}
  BY DEF NewPath
<1> HIDE DEF paths
<1>5. StaleKeys(t) \subseteq StaleKeys(adj[p])
  BY <1>2, <1>3, <1>4, UpdateStale, Zenon
<1> HIDE DEF t
<1> QED
  BY <1>1, <1>2, <1>5, StaleNext, Zenon

\* End-of-RIB ends the restart, and what is still stale goes with it.
LEMMA StaleHandleEOR ==
    ASSUME TypeInv, StaleOnlyWhileRestarting, NEW p \in Peers, HandleEOR(p)
    PROVE  StaleOnlyWhileRestarting'
<1> DEFINE none == [k \in {} |-> NoPath]
           t == Update(adj[p], StaleKeys(adj[p]), none)
<1>1. adj' = [adj EXCEPT ![p] = t] /\ restarting' = restarting \ {p}
  BY DEF HandleEOR, UpdateTable, stopPeerRestarting
<1>2. adj \in [Peers -> Table] /\ adj[p] \in Table
  BY DEF TypeInv, TypeOK
<1>3. Updates(StaleKeys(adj[p]), none) /\ DOMAIN none = {}
  BY <1>2, BulkUpdates
<1> HIDE DEF none
<1>4. StaleKeys(t) = {}
  BY <1>2, <1>3, UpdateStale
<1> HIDE DEF t
<1> QED
  BY <1>1, <1>2, <1>4, StaleNext, Zenon

\* A soft reset turns the verdict of a path and leaves its mark.
LEMMA StaleSoftResetIn ==
    ASSUME TypeInv, StaleOnlyWhileRestarting, NEW p \in Peers, SoftResetIn(p)
    PROVE  StaleOnlyWhileRestarting'
<1> DEFINE adds == SetRejected(adj[p], loops)
           t == Update(adj[p], {}, adds)
<1>1. adj' = [adj EXCEPT ![p] = t] /\ restarting' = restarting
  BY Zenon DEF SoftResetIn, UpdateTable, grVars
<1>2. adj \in [Peers -> Table] /\ adj[p] \in Table
  BY DEF TypeInv, TypeOK
<1>3. Updates({}, adds)
  BY <1>2, BulkUpdates
<1>4. \A k \in DOMAIN adds : adds[k].stale => k \in StaleKeys(adj[p])
  <2>1. ASSUME NEW k \in DOMAIN adds, NEW b, adds[k] = [adj[p][k] EXCEPT !.rejected = b], adds[k].stale
        PROVE  k \in StaleKeys(adj[p])
    <3>1. k \in Cached(adj[p]) /\ adj[p][k] \in Path
      BY <1>2, <2>1 DEF SetRejected, Cached, Table
    <3>2. adds[k].stale = adj[p][k].stale
      BY <2>1, <3>1, Zenon DEF Path
    <3> QED
      BY <2>1, <3>1, <3>2 DEF StaleKeys
  <2>2. \A k \in DOMAIN adds : adds[k] = [adj[p][k] EXCEPT !.rejected = (adj[p][k].attr \in loops)]
    BY DEF SetRejected
  <2> HIDE DEF adds
  <2> QED
    BY <2>1, <2>2, Zenon
<1> HIDE DEF adds
<1>5. StaleKeys(t) \subseteq StaleKeys(adj[p])
  BY <1>2, <1>3, <1>4, UpdateStale
<1> HIDE DEF t
<1> QED
  BY <1>1, <1>2, <1>5, StaleNext, Zenon

LEMMA StaleStep == TypeInv /\ StaleOnlyWhileRestarting /\ [Next]_vars => StaleOnlyWhileRestarting'
<1> SUFFICES ASSUME TypeInv, StaleOnlyWhileRestarting, [Next]_vars
             PROVE  StaleOnlyWhileRestarting'
  OBVIOUS
<1>1. ASSUME adj' = adj, restarting' = restarting PROVE StaleOnlyWhileRestarting'
  BY <1>1 DEF StaleOnlyWhileRestarting
<1>2. ASSUME NEW p \in Peers, PeerRestart(p) \/ StartLongLived(p) PROVE StaleOnlyWhileRestarting'
  <2>1. PICK t : adj' = [adj EXCEPT ![p] = t]
    BY <1>2, SMTT(30) DEF PeerRestart, StartLongLived, UpdateTable
  <2>2. adj \in [Peers -> Table] /\ restarting \subseteq restarting' /\ p \in restarting'
    BY <1>2 DEF PeerRestart, StartLongLived, TypeInv, TypeOK
  <2> QED
    BY <2>1, <2>2, StaleNext, Zenon
<1>3. ASSUME NEW p \in Peers,
             \/ \E graceful \in BOOLEAN : PeerDown(p, graceful)
             \/ RestartFailed(p) \/ LlgrRestartTimerExpired(p) \/ DeletePeer(p) \/ AddPeer(p)
      PROVE  StaleOnlyWhileRestarting'
  <2>1. DropTable(p) /\ restarting \ {p} \subseteq restarting'
    BY <1>3 DEF PeerDown, RestartFailed, LlgrRestartTimerExpired, DeletePeer, AddPeer,
       stopPeerRestarting
  <2> QED
    BY <2>1, StaleDrop, Zenon
<1>4. ASSUME NEW p \in Peers, PeerNext(p) PROVE StaleOnlyWhileRestarting'
  <2>1. CASE PropagateWithdraw(p) \/ \E r \in RouterIds : Establish(p, r)
    BY <1>1, <2>1, Zenon DEF PropagateWithdraw, Establish, tableVars, grVars
  <2> QED
    BY <1>2, <1>3, <1>4, <2>1, StaleAnnounce, StaleHandleUpdate, StaleHandleEOR,
       StaleSoftResetIn, Zenon, Zenon DEF PeerNext
<1>5. ASSUME NEW p \in LlgrPeers, LongLivedNext(p) PROVE StaleOnlyWhileRestarting'
  <2>1. CASE LlgrTimeout(p)
    BY <1>1, <2>1 DEF LlgrTimeout, tableVars
  <2>2. p \in Peers
    BY PeersAssumption
  <2> QED
    BY <1>2, <1>3, <1>5, <2>1, <2>2, Zenon DEF LongLivedNext
<1>6. ASSUME OperatorNext PROVE StaleOnlyWhileRestarting'
  <2>1. CASE \E p \in Deletable : DeletePeer(p) \/ AddPeer(p)
    BY <1>3, <2>1, PeersAssumption
  <2>2. CASE ~\E p \in Deletable : DeletePeer(p) \/ AddPeer(p)
    <3>1. adj' = adj /\ restarting' = restarting
      BY <1>6, <2>2 DEF OperatorNext, SetPolicies, SetLoops, AddPath, DeletePath, FsmExit,
         tableVars, grVars
    <3> QED
      BY <1>1, <3>1
  <2> QED
    BY <2>1, <2>2
<1>7. CASE UNCHANGED vars
  BY <1>1, <1>7 DEF vars, tableVars, grVars
<1> QED
  BY <1>4, <1>5, <1>6, <1>7 DEF Next

\* Whatever ends the helper side of a graceful restart (End-of-RIB, the restart
\* and LLGR timers, the end of the session, a deletion) removes the stale paths:
\* none is cached for a neighbor that does not count as restarting.
THEOREM StaleCorrect == Spec => []StaleOnlyWhileRestarting
<1>1. Init => StaleOnlyWhileRestarting
  BY DEF Init, StaleOnlyWhileRestarting, StaleKeys, Cached, NewAdjRib
<1> QED
  BY <1>1, TypeInit, TypeStep, StaleStep, PTL DEF Spec

=============================================================================
