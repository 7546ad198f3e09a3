------------------------------- MODULE AdjRib -------------------------------
(***************************************************************************)
(* The Adj-RIB-In of one neighbor for one address family: the paths the    *)
(* neighbor sent, cached before the import policy runs, keyed by prefix    *)
(* and by the path identifier the neighbor chose (ADD-PATH).               *)
(*                                                                         *)
(* A table is a function from keys to paths.  The operators below are the  *)
(* methods of AdjRib; each returns the new table, or the set of keys the   *)
(* caller has to feed to the Loc-RIB.                                      *)
(***************************************************************************)
EXTENDS Integers, FiniteSets

CONSTANTS
    Nlri,       \* prefixes of the family
    PathIds,    \* path identifiers a neighbor may use (remoteID)
    Attrs,      \* path attribute lists
    NoLlgr,     \* the attribute lists that carry the NO_LLGR community
    RouterIds,  \* BGP identifiers a neighbor may present in its OPEN
    NoPath      \* no path is cached under a key

Keys == Nlri \X PathIds

\* A cached path: its attributes, the identifier of the session it came from
\* (source), the ingress loop verdict (rejected), the graceful-restart mark
\* (stale), the LLGR_STALE community (llgr) and the identifier the Loc-RIB
\* gave it (localID, 0 when it has none).
Path == [attr: Attrs, src: RouterIds, rejected: BOOLEAN, stale: BOOLEAN,
         llgr: BOOLEAN, localID: Nat]

ASSUME NoPathAssumption == NoPath \notin Path
ASSUME NoLlgrAssumption == NoLlgr \subseteq Attrs
ASSUME FiniteAssumption == IsFiniteSet(Nlri) /\ IsFiniteSet(PathIds)

Table == [Keys -> Path \cup {NoPath}]

NewAdjRib == [k \in Keys |-> NoPath]

Cached(t) == {k \in Keys : t[k] # NoPath}

Accepted(t) == {k \in Cached(t) : ~t[k].rejected}

StaleKeys(t) == {k \in Cached(t) : t[k].stale}

(***************************************************************************)
(* Update.  dels are the withdrawn keys, adds a function from the          *)
(* announced keys to their new paths; the two are disjoint.                *)
(***************************************************************************)

\* An accepted path that is replaced by a rejected one loses its place in the
\* Loc-RIB, and its replacement is stripped of the local path identifier.
FallsOut(old, new) == old # NoPath /\ ~old.rejected /\ new.rejected

\* Mutant: the replacement keeps the identifier.
Replace_KeepsId(old, new) == new

Replace(old, new) ==
    IF FallsOut(old, new) THEN [new EXCEPT !.localID = 0] ELSE new

Update(t, dels, adds) ==
    [k \in Keys |-> IF k \in dels THEN NoPath
                    ELSE IF k \in DOMAIN adds THEN Replace(t[k], adds[k])
                    ELSE t[k]]

\* What Update returns: the keys whose installed path has to be withdrawn
\* because the cached path went from accepted to rejected.
Withdrawals(t, adds) == {k \in DOMAIN adds : FallsOut(t[k], adds[k])}

\* Mutant: a path that falls out is not taken off the accepted ones.
AcceptedAfter_Blind(n, t, dels, adds) ==
    (n + Cardinality({k \in DOMAIN adds : ~adds[k].rejected} \ Accepted(t)))
       - Cardinality(dels \cap Accepted(t))

\* The counters total and accepted move with every single path.
TotalAfter(n, t, dels, adds) ==
    (n + Cardinality(DOMAIN adds \ Cached(t))) - Cardinality(dels \cap Cached(t))

AcceptedAfter(n, t, dels, adds) ==
    (n + Cardinality({k \in DOMAIN adds : ~adds[k].rejected} \ Accepted(t)))
       - Cardinality((dels \cap Accepted(t)) \cup Withdrawals(t, adds))

(***************************************************************************)
(* The bulk operations.                                                    *)
(***************************************************************************)

\* StaleAll: a graceful restart began; every path stays, marked stale.
StaleAll(t) ==
    [k \in Keys |-> IF t[k] = NoPath THEN NoPath ELSE [t[k] EXCEPT !.stale = TRUE]]

\* MarkLLGRStaleOrDrop: the paths that carry NO_LLGR go, the others get the
\* LLGR_STALE community.
LlgrDrops(t) == {k \in Cached(t) : t[k].attr \in NoLlgr}

LlgrMarks(t) ==
    [k \in Cached(t) \ LlgrDrops(t) |-> [t[k] EXCEPT !.llgr = TRUE]]

\* SetRejected for every cached path, as an inbound soft reset does: loops is
\* the set of attribute lists that the loop checks reject now.
SetRejected(t, loops) ==
    [k \in {c \in Cached(t) : t[c].rejected # (t[c].attr \in loops)} |->
        [t[k] EXCEPT !.rejected = (t[k].attr \in loops)]]

=============================================================================
