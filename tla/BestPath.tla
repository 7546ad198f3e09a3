------------------------------ MODULE BestPath ------------------------------
(***************************************************************************)
(* The known path list of a destination (destination.go): a new path is    *)
(* put in its place by a binary search with the comparisons of best path   *)
(* selection, and the first path, and the paths as good as it, are what    *)
(* neighbors, the FIB and watchers are told of, as differences.            *)
(*                                                                         *)
(* A key stands for a source and the path identifier received from it.     *)
(* A setup fixes what does not change while the server runs: the selection *)
(* options, the kind and first AS of the sources, and the keys and the     *)
(* attributes that are in use. Only the order of the ages counts, so ages  *)
(* are ranks.                                                              *)
(***************************************************************************)
EXTENDS Integers, SequencesExt

CONSTANTS Keys,      \* pairs of a source and a path identifier
          Src,       \* the source of a key
          RouterID,  \* of sources
          Address,   \* of sources
          Setups     \* records [opts, kind, as, keys, attrs]

VARIABLES setup, list,
          told,  \* the best path neighbors were told of
          fib    \* the multipath, kept by the differences watchers are sent

vars == <<setup, list, told, fib>>

Sources == Range(Src)

\* What the constants are.
Constants ==
    /\ DOMAIN Src = Keys
    /\ RouterID \in [Sources -> Int]
    /\ Address \in [Sources -> Int]
    /\ Setups \subseteq
         [opts : [alwaysMed : BOOLEAN, ignoreLen : BOOLEAN, external : BOOLEAN],
          kind : [Sources -> {"local", "ebgp", "ibgp", "confed"}],
          as : [Sources -> Nat], keys : SUBSET Keys,
          attrs : SUBSET [stale : BOOLEAN, pref : Int, len : Nat, origin : Int, med : Int]]

None == [src |-> "none"]

\* What Path.Equal tells apart: the source and the attributes.
Content(p) == [src |-> p.src, attr |-> p.attr]
Equal(p, q) == Content(p) = Content(q)

Init ==
    /\ setup \in Setups
    /\ list = <<>>
    /\ told = None
    /\ fib = [k \in Keys |-> None]

----------------------------------------------------------------------------
(* The comparisons: 1 for the first path, -1 for the second, 0 undecided *)

Lower(a, b) == IF a < b THEN 1 ELSE IF a > b THEN -1 ELSE 0
Without(a, b) == IF a = b THEN 0 ELSE IF a THEN -1 ELSE 1

IsLocal(p) == setup.kind[p.src] = "local"
IsIBGP(p) == setup.kind[p.src] = "ibgp"
Confederation(p) == setup.kind[p.src] = "confed"

compareByLLGRStaleCommunity(p, q) == Without(p.attr.stale, q.attr.stale)
compareByReachableNexthop(p, q) == Without(p.invalid, q.invalid)
compareByLocalPref(p, q) == Lower(q.attr.pref, p.attr.pref)
\* Of two local paths of different sources the first argument wins.
compareByLocalOrigin(p, q) ==
    IF p.src = q.src THEN 0 ELSE IF IsLocal(p) THEN 1 ELSE IF IsLocal(q) THEN -1 ELSE 0
compareByASPath(p, q) ==
    IF setup.opts.ignoreLen THEN 0 ELSE Lower(p.attr.len, q.attr.len)
compareByOrigin(p, q) == Lower(p.attr.origin, q.attr.origin)

SameAS(p, q) == setup.as[p.src] # 0 /\ setup.as[p.src] = setup.as[q.src]
compareByMED(p, q) ==
    IF \/ setup.opts.alwaysMed
       \/ p.attr.len = 0 /\ q.attr.len = 0
       \/ SameAS(p, q)
    THEN Lower(p.attr.med, q.attr.med) ELSE 0

compareByASNumber(p, q) ==
    Without(Confederation(p) \/ IsIBGP(p), Confederation(q) \/ IsIBGP(q))

compareByAge(p, q) ==
    IF ~IsIBGP(p) /\ ~IsIBGP(q) /\ ~setup.opts.external THEN Lower(p.age, q.age) ELSE 0

compareByRouterID(p, q) ==
    IF \/ IsLocal(p) /\ IsLocal(q)
       \/ ~setup.opts.external /\ ~(IsIBGP(p) /\ IsIBGP(q))
    THEN 0 ELSE Lower(RouterID[p.src], RouterID[q.src])

compareByNeighborAddress(p, q) ==
    IF IsLocal(p) THEN 1 ELSE IF IsLocal(q) THEN -1 ELSE Lower(Address[p.src], Address[q.src])

\* The first criterion that tells two paths apart decides.
Else(a, b) == IF a # 0 THEN a ELSE b

Preferred(p, q) ==
    Else(compareByLLGRStaleCommunity(p, q),
    Else(compareByReachableNexthop(p, q), compareByLocalPref(p, q)))

\* The criteria before MED.
Plain(p, q) ==
    Else(Preferred(p, q),
    Else(compareByLocalOrigin(p, q),
    Else(compareByASPath(p, q), compareByOrigin(p, q))))

TieBreak(p, q) ==
    Else(compareByMED(p, q),
    Else(compareByASNumber(p, q),
    Else(compareByAge(p, q),
    Else(compareByRouterID(p, q), compareByNeighborAddress(p, q)))))

Decide(p, q) == Else(Plain(p, q), TieBreak(p, q))

----------------------------------------------------------------------------
(* Calculate *)

\* sort.Search: halves the interval x[1]..x[2] until one index is left, the
\* first one in s if all after it are in s too.
Bisect(n, s) ==
    LET f[x \in (0..n) \X (0..n)] ==
            LET h == (x[1] + x[2]) \div 2
            IN IF x[1] >= x[2] THEN x[1]
               ELSE IF h + 1 \in s THEN f[<<x[1], h>>] ELSE f[<<h + 1, x[2]>>]
    IN f

Search(n, s) == Bisect(n, s)[<<0, n>>]

\* Mutant: the search is over all paths but the last.
insertSort_Short(l, p) ==
    InsertAt(l, Search(IF l = <<>> THEN 0 ELSE Len(l) - 1, {i \in DOMAIN l : Decide(p, l[i]) >= 0}) + 1, p)
insertSort(l, p) == InsertAt(l, Search(Len(l), {i \in DOMAIN l : Decide(p, l[i]) >= 0}) + 1, p)

\* The path of a key leaves the list: withdrawn, or replaced.
Removed(l, k) ==
    IF \E i \in DOMAIN l : l[i].key = k
    THEN RemoveAt(l, CHOOSE i \in DOMAIN l : l[i].key = k) ELSE l

\* Compare, by which paths are as good as the best.
Compare(p, q) ==
    Else(Without(p.attr.stale, q.attr.stale),
    Else(Without(~IsLocal(p), ~IsLocal(q)),
    Else(Without(IsIBGP(p), IsIBGP(q)),
    Else(Lower(q.attr.pref, p.attr.pref),
    Else(Lower(p.attr.len, q.attr.len),
    Else(Lower(p.attr.origin, q.attr.origin), Lower(p.attr.med, q.attr.med)))))))

\* Mutant: paths whose next hop is not reachable are taken too.
getMultiBestPath_Unreachable(l) ==
    IF l = <<>> \/ (l # <<>> /\ l[1].invalid) THEN <<>>
    ELSE SubSeq(l, 1, Search(Len(l), {i \in DOMAIN l : Compare(l[i], l[1]) # 0}))
getMultiBestPath(l) ==
    IF l = <<>> \/ (l # <<>> /\ l[1].invalid) THEN <<>>
    ELSE SubSeq(l, 1, Search(Len(l), {i \in DOMAIN l : l[i].invalid \/ Compare(l[i], l[1]) # 0}))

\* GetMultiBestPathDiff, as the paths that are new or changed and the keys
\* that are withdrawn.
\* Mutant: a path whose key stays is taken to be the same.
GetMultiBestPathDiff_Keys(old, new) ==
    LET o == Range(getMultiBestPath(old))
        n == Range(getMultiBestPath(new))
    IN [update |-> {p \in n : \A q \in o : q.key # p.key},
        withdraw |-> {q.key : q \in {x \in o : \A p \in n : p.key # x.key}}]
GetMultiBestPathDiff(old, new) ==
    LET o == Range(getMultiBestPath(old))
        n == Range(getMultiBestPath(new))
    IN [update |-> {p \in n : \A q \in o : q.key = p.key => ~Equal(p, q)},
        withdraw |-> {q.key : q \in {x \in o : \A p \in n : p.key # x.key}}]

First(l) == IF l = <<>> THEN None ELSE l[1]
Reachable(p) == p # None /\ ~p.invalid

\* GetChanges: what neighbors are told of the best path.
GetChanges(old, new) ==
    LET o == First(old)
        b == First(new)
    IN IF b # None /\ o # None /\ Equal(b, o) /\ b.invalid = o.invalid THEN "same"
       ELSE IF Reachable(b) THEN "best"
       ELSE IF Reachable(o) THEN "withdraw"
       ELSE "same"

\* Ages are ranks: only their order counts.
Ranked(l) ==
    [i \in DOMAIN l |-> [l[i] EXCEPT !.age = Cardinality({j \in DOMAIN l : l[j].age <= l[i].age})]]

Notify(l) ==
    /\ list' = Ranked(l)
    /\ told' = LET c == GetChanges(list, l)
               IN IF c = "same" THEN told
                  ELSE IF c = "best" THEN Content(l[1]) ELSE None
    /\ fib' = LET d == GetMultiBestPathDiff(list, l)
              IN [k \in Keys |->
                    IF \E p \in d.update : p.key = k
                    THEN Content(CHOOSE p \in d.update : p.key = k)
                    ELSE IF k \in d.withdraw THEN None ELSE fib[k]]
    /\ UNCHANGED setup

\* The age of a path that is announced: ages are in seconds, so it may be that
\* of the newest path, and a path that is announced again keeps its age.
Ages(k) == {Len(list), Len(list) + 1} \cup {p.age : p \in {x \in Range(list) : x.key = k}}

\* A source announces a path: it replaces the one with the same identifier.
Announce(k, a, t) ==
    Notify(insertSort(Removed(list, k),
               [key |-> k, src |-> Src[k], attr |-> a, invalid |-> FALSE, age |-> t]))

explicitWithdraw(k) ==
    /\ \E p \in Range(list) : p.key = k
    /\ Notify(Removed(list, k))

\* The next hop of a path becomes unreachable, or its metric is known and is the
\* path's MED, or a path becomes stale: a clone of the path, with its age,
\* replaces it.
Change(p, q) == Notify(insertSort(Removed(list, p.key), q))
NexthopUnreachable(p) == ~p.invalid /\ Change(p, [p EXCEPT !.invalid = TRUE])
NexthopUpdate(p, metric) ==
    /\ p.invalid \/ p.attr.med # metric
    /\ [p.attr EXCEPT !.med = metric] \in setup.attrs
    /\ Change(p, [p EXCEPT !.invalid = FALSE, !.attr.med = metric])
MarkLLGRStale(p) ==
    /\ ~p.attr.stale
    /\ [p.attr EXCEPT !.stale = TRUE] \in setup.attrs
    /\ Change(p, [p EXCEPT !.attr.stale = TRUE])

Next ==
    \/ \E k \in setup.keys :
          explicitWithdraw(k) \/ \E a \in setup.attrs : \E t \in Ages(k) : Announce(k, a, t)
    \/ \E p \in Range(list) :
          \/ NexthopUnreachable(p) \/ MarkLLGRStale(p)
          \/ \E a \in setup.attrs : NexthopUpdate(p, a.med)

Spec == Init /\ [][Next]_vars

----------------------------------------------------------------------------
(* Properties *)

\* One path per key, in the table's shape.
TypeOK ==
    /\ setup \in Setups
    /\ list \in Seq([key : Keys, src : Sources, attr : setup.attrs, invalid : BOOLEAN,
                     age : 1..Len(list)])
    /\ \A i \in DOMAIN list : list[i].src = Src[list[i].key]
    /\ \A i, j \in DOMAIN list : list[i].key = list[j].key => i = j

NoConfederationAmongInternal ==
    ~(\E k, l \in Keys : setup.kind[Src[k]] = "confed" /\ setup.kind[Src[l]] = "ibgp")

\* A path a client adds for another speaker, without its address, is a local
\* path of a source of its own (server.go:2581).
OneLocalSource ==
    \A x, y \in Sources : setup.kind[x] = "local" /\ setup.kind[y] = "local" => x = y

\* The order of two paths does not depend on a third: local paths have one
\* source, MED is compared between all paths that compete, and where the age
\* counts no confederation member competes with an internal neighbor.
Transitive ==
    /\ OneLocalSource
    /\ \/ setup.opts.alwaysMed
       \/ \A a \in setup.attrs : a.len = 0
       \/ \A k, l \in Keys :
             (setup.kind[Src[k]] = "local") = (setup.kind[Src[l]] = "local") =>
                setup.as[Src[k]] # 0 /\ setup.as[Src[k]] = setup.as[Src[l]]
    /\ setup.opts.external \/ NoConfederationAmongInternal

\* Whatever came, changed and went in whatever order, no path is better than
\* one before it in the list: binary search in a list that is only ever
\* extended by binary search keeps it sorted, and the first path is the best.
Sorted ==
    Transitive =>
        \A i, j \in DOMAIN list : i < j => Decide(list[i], list[j]) >= 0

\* Where MED makes the order of two paths depend on a third, the list is still
\* sorted by the criteria that come before it; where there are several local
\* sources, by those that come before local origin.
Settled(p, q) == IF OneLocalSource THEN Plain(p, q) ELSE Preferred(p, q)
SortedByPlain ==
    \A i, j \in DOMAIN list : i < j => Settled(list[i], list[j]) >= 0

\* The multipath, found by a binary search, is all the reachable paths as good
\* as the best one.
MultipathExact ==
    ( /\ Transitive
      /\ NoConfederationAmongInternal
      /\ ~setup.opts.ignoreLen
      /\ list # <<>> /\ ~list[1].invalid ) =>
        Range(getMultiBestPath(list)) =
            {p \in Range(list) : ~p.invalid /\ Compare(p, list[1]) = 0}

\* Who only hears of changes knows the best path: neighbors by GetChanges.
ToldBest == told = IF Reachable(First(list)) THEN Content(list[1]) ELSE None

\* Who only hears of differences knows the multipath.
FibFollows ==
    LET m == Range(getMultiBestPath(list))
    IN \A k \in Keys :
          fib[k] = IF \E p \in m : p.key = k THEN Content(CHOOSE p \in m : p.key = k) ELSE None

\* Neighbors and watchers, who hear of changes only, know where things stand.
WatchersKnow == ToldBest /\ FibFollows

=============================================================================
