--------------------------- MODULE BestPathProofs ---------------------------
(***************************************************************************)
(* Proofs about the known path list of a destination (BestPath): binary    *)
(* insertion keeps it sorted, the multipath found by binary search is      *)
(* exact, and who is only told of differences knows the best path and the  *)
(* multipath.                                                              *)
(***************************************************************************)
EXTENDS BestPath, SequenceTheorems, FiniteSetTheorems, WellFoundedInduction, TLAPS

----------------------------------------------------------------------------
(* Induction, and sequences *)

\* A nonempty set of natural numbers has a least element.
LEMMA LeastNumber ==
    ASSUME NEW T, T \subseteq Nat, T # {}
    PROVE  \E m \in T : \A k \in T : m <= k
<1> DEFINE R == OpToRel(<, Nat)
<1>1. IsWellFoundedOn(R, Nat)
  BY NatLessThanWellFounded, Zenon
<1>2. \A a, b \in Nat : <<a, b>> \in R <=> a < b
  BY DEF OpToRel
<1> HIDE DEF R
<1>3. PICK m \in T : \A y \in T : ~(<<y, m>> \in R)
  BY <1>1, WFMin, Zenon
<1>4. \A k \in T : ~(k < m)
  BY <1>2, <1>3, Zenon
<1>5. \A k \in T : m <= k
  BY <1>4
<1> QED
  BY <1>5

\* Induction, for a property given as the set of the numbers that have it.
LEMMA Induction ==
    ASSUME NEW S, 0 \in S, \A n \in Nat : n \in S => n + 1 \in S
    PROVE  Nat \subseteq S
<1> SUFFICES ASSUME ~(Nat \subseteq S) PROVE FALSE
  OBVIOUS
<1>1. PICK m \in Nat \ S : \A k \in Nat \ S : m <= k
  <2>1. Nat \ S \subseteq Nat /\ Nat \ S # {}
    OBVIOUS
  <2> QED
    BY <2>1, LeastNumber, Zenon
<1>2. m # 0 /\ m - 1 \in Nat /\ m - 1 \notin S
  BY <1>1
<1> QED
  BY <1>1, <1>2

LEMMA InsertAtIs ==
    ASSUME NEW S, NEW l \in Seq(S), NEW e \in S, NEW i \in 1..Len(l) + 1
    PROVE  /\ InsertAt(l, i, e) \in Seq(S)
           /\ Len(InsertAt(l, i, e)) = Len(l) + 1
           /\ \A j \in 1..Len(l) + 1 :
                 InsertAt(l, i, e)[j] = IF j < i THEN l[j] ELSE IF j = i THEN e ELSE l[j - 1]
<1> DEFINE a == SubSeq(l, 1, i - 1)
           b == SubSeq(l, i, Len(l))
           c == a \o <<e>>
<1>1. a \in Seq(S) /\ Len(a) = i - 1 /\ \A j \in 1..i - 1 : a[j] = l[j]
  BY SubSeqProperties
<1>2. b \in Seq(S) /\ Len(b) = Len(l) - i + 1 /\ \A j \in 1..Len(l) - i + 1 : b[j] = l[i + j - 1]
  BY SubSeqProperties
<1>3. InsertAt(l, i, e) = c \o b
  BY DEF InsertAt
<1> HIDE DEF a, b
<1>4. c \in Seq(S) /\ Len(c) = i /\ \A j \in 1..i : c[j] = IF j < i THEN l[j] ELSE e
  <2>1. <<e>> \in Seq(S) /\ Len(<<e>>) = 1 /\ <<e>>[1] = e
    OBVIOUS
  <2>2. /\ c \in Seq(S)
        /\ Len(c) = Len(a) + 1
        /\ \A j \in 1..Len(a) + 1 : c[j] = IF j <= Len(a) THEN a[j] ELSE <<e>>[j - Len(a)]
    BY <1>1, <2>1, ConcatProperties
  <2> QED
    BY <1>1, <2>1, <2>2
<1> HIDE DEF c
<1>5. /\ c \o b \in Seq(S)
      /\ Len(c \o b) = Len(c) + Len(b)
      /\ \A j \in 1..Len(c) + Len(b) : (c \o b)[j] = IF j <= Len(c) THEN c[j] ELSE b[j - Len(c)]
  BY <1>2, <1>4, ConcatProperties
<1>6. ASSUME NEW j \in 1..Len(l) + 1
      PROVE  (c \o b)[j] = IF j < i THEN l[j] ELSE IF j = i THEN e ELSE l[j - 1]
  <2>1. CASE j <= i
    BY <1>2, <1>4, <1>5, <2>1
  <2>2. CASE ~(j <= i)
    <3>1. (c \o b)[j] = b[j - i] /\ j - i \in 1..Len(l) - i + 1
      BY <1>2, <1>4, <1>5, <2>2
    <3>2. b[j - i] = l[i + (j - i) - 1]
      BY <1>2, <3>1
    <3> QED
      BY <2>2, <3>1, <3>2, SMTT(60)
  <2> QED
    BY <2>1, <2>2, Zenon
<1> QED
  BY <1>2, <1>3, <1>4, <1>5, <1>6

LEMMA RemoveAtIs ==
    ASSUME NEW S, NEW l \in Seq(S), NEW i \in 1..Len(l)
    PROVE  /\ RemoveAt(l, i) \in Seq(S)
           /\ Len(RemoveAt(l, i)) = Len(l) - 1
           /\ \A j \in 1..Len(l) - 1 : RemoveAt(l, i)[j] = IF j < i THEN l[j] ELSE l[j + 1]
<1> DEFINE a == SubSeq(l, 1, i - 1)
           b == SubSeq(l, i + 1, Len(l))
<1>1. a \in Seq(S) /\ Len(a) = i - 1 /\ \A j \in 1..i - 1 : a[j] = l[j]
  BY SubSeqProperties
<1>2. b \in Seq(S) /\ Len(b) = Len(l) - i /\ \A j \in 1..Len(l) - i : b[j] = l[i + j]
  BY SubSeqProperties
<1>3. RemoveAt(l, i) = a \o b
  BY DEF RemoveAt
<1> HIDE DEF a, b
<1>4. /\ a \o b \in Seq(S)
      /\ Len(a \o b) = Len(a) + Len(b)
      /\ \A j \in 1..Len(a) + Len(b) : (a \o b)[j] = IF j <= Len(a) THEN a[j] ELSE b[j - Len(a)]
  BY <1>1, <1>2, ConcatProperties, Zenon
<1>5. ASSUME NEW j \in 1..Len(l) - 1
      PROVE  (a \o b)[j] = IF j < i THEN l[j] ELSE l[j + 1]
  <2>1. CASE j < i
    BY <1>1, <1>2, <1>4, <2>1
  <2>2. CASE ~(j < i)
    <3>1. (a \o b)[j] = b[j - i + 1] /\ j - i + 1 \in 1..Len(l) - i
      BY <1>1, <1>2, <1>4, <2>2
    <3>2. b[j - i + 1] = l[i + (j - i + 1)]
      BY <1>2, <3>1
    <3> QED
      BY <2>2, <3>1, <3>2
  <2> QED
    BY <2>1, <2>2, Zenon
<1> QED
  BY <1>1, <1>2, <1>3, <1>4, <1>5

----------------------------------------------------------------------------
(* sort.Search *)

Half(x) == (x[1] + x[2]) \div 2
Halved(g, s, x) ==
    IF x[1] >= x[2] THEN x[1]
    ELSE IF Half(x) + 1 \in s THEN g[<<x[1], Half(x)>>] ELSE g[<<Half(x) + 1, x[2]>>]

LEMMA HalfIs ==
    ASSUME NEW n \in Nat, NEW x \in (0..n) \X (0..n), x[1] < x[2]
    PROVE  Half(x) \in x[1]..(x[2] - 1)
<1>1. x[1] \in 0..n /\ x[2] \in 0..n
  OBVIOUS
<1> QED
  BY <1>1 DEF Half

\* Functions that halve intervals no longer than d exist for every d.
Halves(n, s, d) ==
    \E g : /\ DOMAIN g = (0..n) \X (0..n)
           /\ \A x \in (0..n) \X (0..n) : x[2] - x[1] <= d => g[x] = Halved(g, s, x)

LEMMA HalvesExist ==
    ASSUME NEW n \in Nat, NEW s
    PROVE  \A d \in Nat : Halves(n, s, d)
<1> DEFINE D == (0..n) \X (0..n)
           S == {d \in Nat : Halves(n, s, d)}
<1>1. 0 \in S
  <2> DEFINE g == [x \in D |-> x[1]]
  <2>1. \A x \in D : x[2] - x[1] <= 0 => g[x] = Halved(g, s, x)
    BY DEF Halved
  <2>2. DOMAIN g = D
    OBVIOUS
  <2> QED
    BY <2>1, <2>2, Zenon DEF Halves
<1>2. ASSUME NEW d \in Nat, d \in S
      PROVE  d + 1 \in S
  <2>1. PICK g : /\ DOMAIN g = D
                 /\ \A x \in D : x[2] - x[1] <= d => g[x] = Halved(g, s, x)
    BY <1>2, Zenon DEF Halves
  <2> DEFINE h == [x \in D |-> IF x[2] - x[1] = d + 1 THEN Halved(g, s, x) ELSE g[x]]
  <2>2. ASSUME NEW x \in D, x[2] - x[1] <= d + 1
        PROVE  Halved(h, s, x) = Halved(g, s, x)
    <3>1. CASE x[1] >= x[2]
      BY <3>1 DEF Halved
    <3>2. CASE x[1] < x[2]
      <4>1. Half(x) \in x[1]..(x[2] - 1) /\ x[1] \in 0..n /\ x[2] \in 0..n
        BY <3>2, HalfIs
      <4> DEFINE y == <<x[1], Half(x)>>
                 z == <<Half(x) + 1, x[2]>>
      <4>2. y \in D /\ z \in D
        BY <4>1
      <4>3. y[2] - y[1] # d + 1 /\ z[2] - z[1] # d + 1
        BY <2>2, <4>1
      <4>4. h[y] = g[y] /\ h[z] = g[z]
        BY <4>2, <4>3
      <4> QED
        BY <4>4 DEF Halved
    <3> QED
      BY <3>1, <3>2
  <2>3. ASSUME NEW x \in D, x[2] - x[1] <= d + 1
        PROVE  h[x] = Halved(h, s, x)
    <3>1. CASE x[2] - x[1] = d + 1
      BY <2>2, <2>3, <3>1
    <3>2. CASE x[2] - x[1] # d + 1
      <4>1. x[2] - x[1] <= d
        BY <2>3, <3>2
      <4> QED
        BY <2>1, <2>2, <2>3, <3>2, <4>1
    <3> QED
      BY <3>1, <3>2
  <2>4. DOMAIN h = D
    OBVIOUS
  <2> HIDE DEF h
  <2>5. Halves(n, s, d + 1)
    BY <2>3, <2>4, Zenon DEF Halves
  <2> QED
    BY <2>5
<1> HIDE DEF S
<1>3. Nat \subseteq S
  BY <1>1, <1>2, Induction, Zenon
<1> QED
  BY <1>3, Zenon DEF S

LEMMA BisectIs ==
    ASSUME NEW n \in Nat, NEW s, NEW x \in (0..n) \X (0..n)
    PROVE  Bisect(n, s)[x] = Halved(Bisect(n, s), s, x)
<1> DEFINE D == (0..n) \X (0..n)
           Is(f) == f = [y \in D |-> Halved(f, s, y)]
<1>1. Bisect(n, s) = CHOOSE f : Is(f)
  BY DEF Bisect, Halved, Half
<1>2. \E g : Is(g)
  <2>1. PICK g : /\ DOMAIN g = D
                 /\ \A y \in D : y[2] - y[1] <= n => g[y] = Halved(g, s, y)
    <3>1. Halves(n, s, n)
      BY HalvesExist, Zenon
    <3> QED
      BY <3>1, Zenon DEF Halves
  <2>2. \A y \in D : y[2] - y[1] <= n
    OBVIOUS
  <2> DEFINE f == [y \in D |-> g[y]]
  <2>3. ASSUME NEW y \in D
        PROVE  f[y] = Halved(f, s, y)
    <3>1. CASE y[1] >= y[2]
      BY <2>1, <2>2, <3>1, Zenon DEF Halved
    <3>2. CASE y[1] < y[2]
      <4>1. Half(y) \in y[1]..(y[2] - 1) /\ y[1] \in 0..n /\ y[2] \in 0..n
        BY <3>2, HalfIs
      <4>2. <<y[1], Half(y)>> \in D /\ <<Half(y) + 1, y[2]>> \in D
        BY <4>1
      <4>3. Halved(f, s, y) = Halved(g, s, y)
        BY <4>2 DEF Halved
      <4> QED
        BY <2>1, <2>2, <4>3
    <3> QED
      BY <3>1, <3>2
  <2>4. Is(f)
    BY <2>3
  <2> QED
    BY <2>4, Zenon
<1>3. Is(Bisect(n, s))
  BY <1>1, <1>2, Zenon
<1> QED
  BY <1>3, Zenon

\* Where the search ends: the index before is not in s, the next one is.
LEMMA BisectEnds ==
    ASSUME NEW n \in Nat, NEW s, NEW x \in (0..n) \X (0..n), x[1] <= x[2]
    PROVE  /\ Bisect(n, s)[x] \in x[1]..x[2]
           /\ Bisect(n, s)[x] > x[1] => Bisect(n, s)[x] \notin s
           /\ Bisect(n, s)[x] < x[2] => Bisect(n, s)[x] + 1 \in s
<1> DEFINE D == (0..n) \X (0..n)
           b == Bisect(n, s)
           Ends(y) == /\ b[y] \in y[1]..y[2]
                      /\ b[y] > y[1] => b[y] \notin s
                      /\ b[y] < y[2] => b[y] + 1 \in s
           Short(d) == \A y \in D : y[1] <= y[2] /\ y[2] - y[1] <= d => Ends(y)
           S == {d \in Nat : Short(d)}
<1> HIDE DEF b
<1>1. \A y \in D : b[y] = Halved(b, s, y)
  BY BisectIs, Zenon DEF b
<1> HIDE DEF b
<1>0. ASSUME NEW y \in D, y[1] = y[2]
      PROVE  Ends(y)
  <2>1. y[1] \in Int /\ b[y] = y[1]
    <3>1. y[1] \in Int /\ y[1] >= y[2]
      BY <1>0
    <3>2. b[y] = Halved(b, s, y)
      BY <1>1, Zenon
    <3> QED
      BY <3>1, <3>2, Zenon DEF Halved
  <2> QED
    BY <1>0, <2>1
<1>2. 0 \in S
  <2>1. \A y \in D : y[1] <= y[2] /\ y[2] - y[1] <= 0 => y[1] = y[2]
    OBVIOUS
  <2>2. Short(0)
    BY <1>0, <2>1, Zenon
  <2> QED
    BY <2>2
<1>3. ASSUME NEW d \in Nat, d \in S
      PROVE  d + 1 \in S
  <2> SUFFICES ASSUME NEW y \in D, y[1] <= y[2], y[2] - y[1] <= d + 1
               PROVE  Ends(y)
    <3>1. d + 1 \in Nat
      OBVIOUS
    <3> QED
      BY <3>1, Zenon
  <2>1. CASE y[1] = y[2]
    BY <1>0, <2>1, Zenon
  <2>2. CASE ~(y[1] = y[2])
    <3>1. Half(y) \in y[1]..(y[2] - 1) /\ y[1] \in 0..n /\ y[2] \in 0..n
      BY <2>2, HalfIs
    <3> DEFINE u == <<y[1], Half(y)>>
               v == <<Half(y) + 1, y[2]>>
    <3>2. u \in D /\ v \in D /\ u[1] <= u[2] /\ v[1] <= v[2] /\ u[2] - u[1] <= d /\ v[2] - v[1] <= d
      BY <3>1
    <3>3. Ends(u) /\ Ends(v)
      BY <1>3, <3>2, Zenon
    <3>4. b[y] = IF Half(y) + 1 \in s THEN b[u] ELSE b[v]
      BY <1>1, <2>2 DEF Halved
    <3> HIDE DEF Short
    <3>5. CASE Half(y) + 1 \in s
      BY <3>1, <3>3, <3>4, <3>5
    <3>6. CASE ~(Half(y) + 1 \in s)
      BY <3>1, <3>3, <3>4, <3>6
    <3> QED
      BY <3>5, <3>6, Zenon
  <2> QED
    BY <2>1, <2>2, Zenon
<1> HIDE DEF S
<1>4. Nat \subseteq S
  BY <1>2, <1>3, Induction, Zenon
<1>5. x[2] - x[1] \in Nat
  OBVIOUS
<1>6. Short(x[2] - x[1])
  BY <1>4, <1>5, Zenon DEF S
<1>7. Ends(x)
  BY <1>6
<1> QED
  BY <1>7, Zenon DEF b

\* Binary search in a list of which nothing is known ends between an index that
\* is not in s and one that is.
LEMMA SearchEnds ==
    ASSUME NEW n \in Nat, NEW s
    PROVE  /\ Search(n, s) \in 0..n
           /\ Search(n, s) > 0 => Search(n, s) \notin s
           /\ Search(n, s) < n => Search(n, s) + 1 \in s
<1>1. <<0, n>> \in (0..n) \X (0..n)
  OBVIOUS
<1> QED
  BY <1>1, BisectEnds DEF Search

----------------------------------------------------------------------------
(* The comparisons *)

Paths == {p \in [key : Keys, src : Sources, attr : setup.attrs, invalid : BOOLEAN, age : Nat] :
             p.src = Src[p.key]}

LEMMA SetupType ==
    ASSUME Constants, setup \in Setups
    PROVE  /\ setup.opts.alwaysMed \in BOOLEAN
           /\ setup.opts.ignoreLen \in BOOLEAN
           /\ setup.opts.external \in BOOLEAN
           /\ setup.keys \subseteq Keys
           /\ \A x \in Sources : setup.as[x] \in Nat /\ RouterID[x] \in Int /\ Address[x] \in Int
           /\ \A a \in setup.attrs :
                 a \in [stale : BOOLEAN, pref : Int, len : Nat, origin : Int, med : Int]
  BY DEF Constants

LEMMA PathType ==
    ASSUME Constants, setup \in Setups, NEW p \in Paths
    PROVE  /\ p.key \in Keys /\ p.src \in Sources /\ p.src = Src[p.key]
           /\ p.attr \in setup.attrs
           /\ p.attr.stale \in BOOLEAN /\ p.invalid \in BOOLEAN
           /\ p.attr.pref \in Int /\ p.attr.len \in Nat /\ p.attr.origin \in Int
           /\ p.attr.med \in Int /\ p.age \in Nat
           /\ setup.as[p.src] \in Nat /\ RouterID[p.src] \in Int /\ Address[p.src] \in Int
<1>1. /\ p.key \in Keys /\ p.src \in Sources /\ p.src = Src[p.key]
      /\ p.attr \in setup.attrs /\ p.invalid \in BOOLEAN /\ p.age \in Nat
  BY DEF Paths
<1>2. p.attr \in [stale : BOOLEAN, pref : Int, len : Nat, origin : Int, med : Int]
  BY <1>1, SetupType
<1>3. setup.as[p.src] \in Nat /\ RouterID[p.src] \in Int /\ Address[p.src] \in Int
  BY <1>1, SetupType, Zenon
<1> QED
  BY <1>1, <1>2, <1>3

\* What the comparisons x of a path with a second one, y of the second one
\* with a third one and z of the first one with the third one have to satisfy.
Chain(x, y, z) == x >= 0 /\ y >= 0 => z >= 0 /\ (z = 0 => x = 0 /\ y = 0)
\* And the comparisons x and y of two paths in both orders.
Opposite(x, y) == (x < 0 => y > 0) /\ (x = 0 => y = 0)

\* One criterion, for three paths: it is a number, it can be chained and it is
\* turned round when the paths are.
Ordered(pq, qr, pr, qp) ==
    /\ pq \in Int /\ qr \in Int /\ pr \in Int /\ qp \in Int
    /\ Chain(pq, qr, pr)
    /\ Opposite(pq, qp)

LEMMA OrderedElse ==
    ASSUME NEW x, NEW y, NEW z, NEW v, Ordered(x, y, z, v),
           NEW a, NEW b, NEW c, NEW d, Ordered(a, b, c, d)
    PROVE  Ordered(Else(x, a), Else(y, b), Else(z, c), Else(v, d))
  BY DEF Ordered, Chain, Opposite, Else

LEMMA OrderedLower ==
    ASSUME NEW a \in Int, NEW b \in Int, NEW c \in Int
    PROVE  Ordered(Lower(a, b), Lower(b, c), Lower(a, c), Lower(b, a))
  BY DEF Lower, Ordered, Chain, Opposite

LEMMA OrderedHigher ==
    ASSUME NEW a \in Int, NEW b \in Int, NEW c \in Int
    PROVE  Ordered(Lower(b, a), Lower(c, b), Lower(c, a), Lower(a, b))
  BY DEF Lower, Ordered, Chain, Opposite

LEMMA OrderedWithout ==
    ASSUME NEW a \in BOOLEAN, NEW b \in BOOLEAN, NEW c \in BOOLEAN
    PROVE  Ordered(Without(a, b), Without(b, c), Without(a, c), Without(b, a))
  BY DEF Without, Ordered, Chain, Opposite

LEMMA OrderedZero == Ordered(0, 0, 0, 0)
  BY DEF Ordered, Chain, Opposite

\* The first criteria order any three paths.
LEMMA PreferredOrdered ==
    ASSUME Constants, setup \in Setups, NEW p \in Paths, NEW q \in Paths, NEW r \in Paths
    PROVE  Ordered(Preferred(p, q), Preferred(q, r), Preferred(p, r), Preferred(q, p))
<1> DEFINE Is(C(_, _)) == Ordered(C(p, q), C(q, r), C(p, r), C(q, p))
<1>1. Is(compareByLLGRStaleCommunity)
  BY PathType, OrderedWithout DEF compareByLLGRStaleCommunity
<1>2. Is(compareByReachableNexthop)
  BY PathType, OrderedWithout DEF compareByReachableNexthop
<1>3. Is(compareByLocalPref)
  BY PathType, OrderedHigher DEF compareByLocalPref
<1> QED
  BY <1>1, <1>2, <1>3, OrderedElse, Zenon DEF Preferred

\* The criteria before MED order any three paths if there is one local source.
LEMMA PlainOrdered ==
    ASSUME Constants, setup \in Setups, OneLocalSource,
           NEW p \in Paths, NEW q \in Paths, NEW r \in Paths
    PROVE  Ordered(Plain(p, q), Plain(q, r), Plain(p, r), Plain(q, p))
<1> DEFINE Is(C(_, _)) == Ordered(C(p, q), C(q, r), C(p, r), C(q, p))
<1>4. Is(compareByLocalOrigin)
  <2>1. \A x, y \in Paths : compareByLocalOrigin(x, y) = Without(~IsLocal(x), ~IsLocal(y))
    <3> SUFFICES ASSUME NEW x \in Paths, NEW y \in Paths
                 PROVE  compareByLocalOrigin(x, y) = Without(~IsLocal(x), ~IsLocal(y))
      BY Zenon
    <3>1. IsLocal(x) /\ IsLocal(y) => x.src = y.src
      BY PathType, Zenon DEF OneLocalSource, IsLocal
    <3> QED
      BY <3>1 DEF compareByLocalOrigin, Without, IsLocal
  <2> QED
    BY <2>1, OrderedWithout, Zenon DEF IsLocal
<1>5. Is(compareByASPath)
  <2>1. CASE setup.opts.ignoreLen
    BY <2>1, OrderedZero, Zenon DEF compareByASPath
  <2>2. CASE ~setup.opts.ignoreLen
    BY <2>2, PathType, OrderedLower DEF compareByASPath
  <2> QED
    BY <2>1, <2>2, Zenon
<1>6. Is(compareByOrigin)
  BY PathType, OrderedLower DEF compareByOrigin
<1>7. Ordered(Else(compareByASPath(p, q), compareByOrigin(p, q)),
              Else(compareByASPath(q, r), compareByOrigin(q, r)),
              Else(compareByASPath(p, r), compareByOrigin(p, r)),
              Else(compareByASPath(q, p), compareByOrigin(q, p)))
  BY <1>5, <1>6, OrderedElse, Zenon
<1> QED
  BY <1>4, <1>7, PreferredOrdered, OrderedElse, Zenon DEF Plain

\* Those that settle the order of any three paths.
LEMMA SettledOrdered ==
    ASSUME Constants, setup \in Setups, NEW p \in Paths, NEW q \in Paths, NEW r \in Paths
    PROVE  Ordered(Settled(p, q), Settled(q, r), Settled(p, r), Settled(q, p))
<1>1. CASE OneLocalSource
  BY <1>1, PlainOrdered, Zenon DEF Settled
<1>2. CASE ~OneLocalSource
  BY <1>2, PreferredOrdered, Zenon DEF Settled
<1> QED
  BY <1>1, <1>2, Zenon

\* Criteria that need only order paths the earlier ones do not tell apart.
LEMMA OrderedOnTies ==
    ASSUME NEW x, NEW y, NEW z, NEW v, Ordered(x, y, z, v),
           NEW a \in Int, NEW b \in Int, NEW c \in Int, NEW d \in Int,
           x = 0 /\ y = 0 /\ z = 0 => Chain(a, b, c),
           x = 0 => Opposite(a, d)
    PROVE  Ordered(Else(x, a), Else(y, b), Else(z, c), Else(v, d))
  BY DEF Ordered, Chain, Opposite, Else

IsInternal(p) == Confederation(p) \/ IsIBGP(p)
LastCriteria(p, q) ==
    Else(compareByAge(p, q), Else(compareByRouterID(p, q), compareByNeighborAddress(p, q)))

LEMMA LastCriteriaOrdered ==
    ASSUME Constants, setup \in Setups, Transitive,
           NEW p \in Paths, NEW q \in Paths, NEW r \in Paths,
           IsLocal(p) = IsLocal(q), IsLocal(q) = IsLocal(r),
           IsInternal(p) = IsInternal(q), IsInternal(q) = IsInternal(r)
    PROVE  Ordered(LastCriteria(p, q), LastCriteria(q, r), LastCriteria(p, r), LastCriteria(q, p))
<1> DEFINE Is(C(_, _)) == Ordered(C(p, q), C(q, r), C(p, r), C(q, p))
<1>0. setup.opts.external \/ (IsIBGP(p) = IsIBGP(q) /\ IsIBGP(q) = IsIBGP(r))
  <2>1. \A x \in Paths : x.key \in Keys /\ x.src = Src[x.key]
    BY PathType, Zenon
  <2>2. CASE NoConfederationAmongInternal
    <3>1. \A x, y \in Paths : ~(Confederation(x) /\ IsIBGP(y))
      BY <2>1, <2>2, Zenon DEF NoConfederationAmongInternal, Confederation, IsIBGP
    <3>2. \A x \in Paths : IsIBGP(x) \in BOOLEAN /\ Confederation(x) \in BOOLEAN
      BY DEF IsIBGP, Confederation
    <3> QED
      BY <3>1, <3>2 DEF IsInternal
  <2> QED
    BY <2>2, Zenon DEF Transitive
<1>1. Is(compareByAge)
  <2>1. CASE setup.opts.external
    BY <2>1, OrderedZero, Zenon DEF compareByAge
  <2>2. CASE ~setup.opts.external /\ IsIBGP(p)
    BY <1>0, <2>2, OrderedZero, Zenon DEF compareByAge
  <2>3. CASE ~setup.opts.external /\ ~IsIBGP(p)
    <3>1. ~IsIBGP(q) /\ ~IsIBGP(r)
      BY <1>0, <2>3, Zenon
    <3> QED
      BY <2>3, <3>1, PathType, OrderedLower DEF compareByAge
  <2> QED
    BY <2>1, <2>2, <2>3, Zenon
<1>2. Is(compareByRouterID)
  <2>1. CASE IsLocal(p)
    BY <2>1, OrderedZero, Zenon DEF compareByRouterID
  <2>2. CASE ~IsLocal(p) /\ (setup.opts.external \/ IsIBGP(p))
    <3>1. /\ ~IsLocal(q) /\ ~IsLocal(r)
          /\ setup.opts.external \/ (IsIBGP(p) /\ IsIBGP(q) /\ IsIBGP(r))
      BY <1>0, <2>2, Zenon
    <3>2. ASSUME NEW x \in {p, q, r}, NEW y \in {p, q, r}
          PROVE  compareByRouterID(x, y) = Lower(RouterID[x.src], RouterID[y.src])
      BY <2>2, <3>1 DEF compareByRouterID
    <3>3. RouterID[p.src] \in Int /\ RouterID[q.src] \in Int /\ RouterID[r.src] \in Int
      BY PathType, Zenon
    <3> QED
      BY <3>2, <3>3, OrderedLower
  <2>3. CASE ~IsLocal(p) /\ ~setup.opts.external /\ ~IsIBGP(p)
    <3>1. ~IsIBGP(q) /\ ~IsIBGP(r)
      BY <1>0, <2>3, Zenon
    <3> QED
      BY <2>3, <3>1, OrderedZero, Zenon DEF compareByRouterID
  <2> QED
    BY <2>1, <2>2, <2>3, Zenon
<1>3. Is(compareByNeighborAddress)
  <2>1. CASE IsLocal(p)
    <3>1. Ordered(1, 1, 1, 1)
      BY DEF Ordered, Chain, Opposite
    <3> QED
      BY <2>1, <3>1, Zenon DEF compareByNeighborAddress
  <2>2. CASE ~IsLocal(p)
    <3>1. ~IsLocal(q) /\ ~IsLocal(r)
      BY <2>2, Zenon
    <3>2. ASSUME NEW x \in {p, q, r}, NEW y \in {p, q, r}
          PROVE  compareByNeighborAddress(x, y) = Lower(Address[x.src], Address[y.src])
      BY <2>2, <3>1 DEF compareByNeighborAddress
    <3>3. Address[p.src] \in Int /\ Address[q.src] \in Int /\ Address[r.src] \in Int
      BY PathType, Zenon
    <3> QED
      BY <3>2, <3>3, OrderedLower
  <2> QED
    BY <2>1, <2>2, Zenon
<1>4. Ordered(Else(compareByRouterID(p, q), compareByNeighborAddress(p, q)),
              Else(compareByRouterID(q, r), compareByNeighborAddress(q, r)),
              Else(compareByRouterID(p, r), compareByNeighborAddress(p, r)),
              Else(compareByRouterID(q, p), compareByNeighborAddress(q, p)))
  BY <1>2, <1>3, OrderedElse, Zenon
<1> QED
  BY <1>1, <1>4, OrderedElse, Zenon DEF LastCriteria

LEMMA LastCriteriaType ==
    ASSUME Constants, setup \in Setups, NEW p \in Paths, NEW q \in Paths
    PROVE  LastCriteria(p, q) \in Int
  BY PathType DEF LastCriteria, Else, compareByAge, compareByRouterID, compareByNeighborAddress, Lower

\* Where paths are not told apart before MED, MED is compared.
LEMMA MedCompared ==
    ASSUME Constants, setup \in Setups, Transitive, NEW p \in Paths, NEW q \in Paths,
           IsLocal(p) = IsLocal(q)
    PROVE  compareByMED(p, q) = Lower(p.attr.med, q.attr.med)
<1>1. /\ p.key \in Keys /\ p.src = Src[p.key] /\ p.attr \in setup.attrs
      /\ q.key \in Keys /\ q.src = Src[q.key] /\ q.attr \in setup.attrs
  BY PathType, Zenon
<1> QED
  BY <1>1, Zenon DEF Transitive, compareByMED, SameAS, IsLocal

LEMMA TieBreakOrdered ==
    ASSUME Constants, setup \in Setups, Transitive,
           NEW p \in Paths, NEW q \in Paths, NEW r \in Paths,
           IsLocal(p) = IsLocal(q), IsLocal(q) = IsLocal(r)
    PROVE  Ordered(TieBreak(p, q), TieBreak(q, r), TieBreak(p, r), TieBreak(q, p))
<1>1. Ordered(compareByMED(p, q), compareByMED(q, r), compareByMED(p, r), compareByMED(q, p))
  BY MedCompared, PathType, OrderedLower
<1>2. Ordered(compareByASNumber(p, q), compareByASNumber(q, r),
              compareByASNumber(p, r), compareByASNumber(q, p))
  BY OrderedWithout, Zenon DEF compareByASNumber, IsIBGP, Confederation
<1>3. ASSUME NEW x \in Paths, NEW y \in Paths, compareByASNumber(x, y) = 0
      PROVE  IsInternal(x) = IsInternal(y)
  BY <1>3 DEF compareByASNumber, IsInternal, Without, IsIBGP, Confederation
<1>4. compareByASNumber(p, q) = 0 /\ compareByASNumber(q, r) = 0 =>
         Chain(LastCriteria(p, q), LastCriteria(q, r), LastCriteria(p, r))
  BY <1>3, LastCriteriaOrdered, Zenon DEF Ordered
<1>5. compareByASNumber(p, q) = 0 => Opposite(LastCriteria(p, q), LastCriteria(q, p))
  BY <1>3, LastCriteriaOrdered, Zenon DEF Ordered
<1>6. Ordered(Else(compareByASNumber(p, q), LastCriteria(p, q)),
              Else(compareByASNumber(q, r), LastCriteria(q, r)),
              Else(compareByASNumber(p, r), LastCriteria(p, r)),
              Else(compareByASNumber(q, p), LastCriteria(q, p)))
  BY <1>2, <1>4, <1>5, LastCriteriaType, OrderedOnTies, Zenon
<1> QED
  BY <1>1, <1>6, OrderedElse, Zenon DEF TieBreak, LastCriteria

\* A number also where the criteria do not order the paths.
LEMMA DecideType ==
    ASSUME Constants, setup \in Setups, NEW p \in Paths, NEW q \in Paths
    PROVE  Plain(p, q) \in Int /\ TieBreak(p, q) \in Int /\ Decide(p, q) \in Int
<1>1. Plain(p, q) \in Int
  <2>1. Preferred(p, q) \in Int /\ compareByASPath(p, q) \in Int /\ compareByOrigin(p, q) \in Int
    BY PathType, PreferredOrdered DEF Ordered, compareByASPath, compareByOrigin, Lower
  <2> QED
    BY <2>1 DEF Plain, Else, compareByLocalOrigin
<1>2. compareByMED(p, q) \in Int /\ compareByASNumber(p, q) \in Int
  BY PathType DEF compareByMED, compareByASNumber, Lower, Without
<1>3. TieBreak(p, q) = Else(compareByMED(p, q), Else(compareByASNumber(p, q), LastCriteria(p, q)))
  BY DEF TieBreak, LastCriteria
<1> QED
  BY <1>1, <1>2, <1>3, LastCriteriaType DEF Decide, Else

\* What is settled decides.
LEMMA SettledFirst ==
    ASSUME Constants, setup \in Setups, NEW p \in Paths, NEW q \in Paths
    PROVE  /\ Settled(p, q) \in Int
           /\ Decide(p, q) >= 0 => Settled(p, q) >= 0
           /\ ~(Decide(p, q) >= 0) => Settled(p, q) <= 0
<1>1. Settled(p, q) \in Int
  BY SettledOrdered, Zenon DEF Ordered
<1> DEFINE rest == Else(compareByLocalOrigin(p, q), Else(compareByASPath(p, q), compareByOrigin(p, q)))
<1>2. Plain(p, q) = Else(Preferred(p, q), rest)
  BY DEF Plain
<1>3. Preferred(p, q) \in Int
  BY PreferredOrdered, Zenon DEF Ordered
<1> HIDE DEF rest
<1>4. CASE OneLocalSource
  BY <1>1, <1>4, DecideType DEF Settled, Decide, Else
<1>5. CASE ~OneLocalSource
  <2>1. Settled(p, q) = Preferred(p, q)
    BY <1>5, Zenon DEF Settled
  <2>2. Preferred(p, q) # 0 => Decide(p, q) = Preferred(p, q)
    BY <1>2, <1>3 DEF Decide, Else
  <2> QED
    BY <1>3, <2>1, <2>2
<1> QED
  BY <1>4, <1>5, Zenon

LEMMA PlainTie ==
    ASSUME Constants, setup \in Setups, NEW p \in Paths, NEW q \in Paths, Plain(p, q) = 0
    PROVE  /\ compareByLLGRStaleCommunity(p, q) = 0
           /\ compareByReachableNexthop(p, q) = 0
           /\ compareByLocalPref(p, q) = 0
           /\ compareByASPath(p, q) = 0
           /\ compareByOrigin(p, q) = 0
           /\ IsLocal(p) = IsLocal(q)
<1>1. compareByLocalOrigin(p, q) = 0 => IsLocal(p) = IsLocal(q)
  BY DEF compareByLocalOrigin, IsLocal, Without
<1> QED
  BY <1>1, Zenon DEF Plain, Preferred, Else

\* Best path selection orders any three paths.
LEMMA DecideOrdered ==
    ASSUME Constants, setup \in Setups, Transitive,
           NEW p \in Paths, NEW q \in Paths, NEW r \in Paths
    PROVE  Ordered(Decide(p, q), Decide(q, r), Decide(p, r), Decide(q, p))
<1>1. Plain(p, q) = 0 /\ Plain(q, r) = 0 => Chain(TieBreak(p, q), TieBreak(q, r), TieBreak(p, r))
  BY PlainTie, TieBreakOrdered, Zenon DEF Ordered
<1>2. Plain(p, q) = 0 => Opposite(TieBreak(p, q), TieBreak(q, p))
  BY PlainTie, TieBreakOrdered, Zenon DEF Ordered
<1> QED
  BY <1>1, <1>2, PlainOrdered, DecideType, OrderedOnTies, Zenon DEF Decide, Transitive

----------------------------------------------------------------------------
(* The list *)

\* Sortedness of a list by a relation R, such as being no worse than.
LEMMA InsertedSorted ==
    ASSUME NEW S, NEW R, NEW l \in Seq(S), NEW e \in S, NEW i \in 1..Len(l) + 1,
           \A x, y, z \in S : <<x, y>> \in R /\ <<y, z>> \in R => <<x, z>> \in R,
           \A j, k \in 1..Len(l) : j < k => <<l[j], l[k]>> \in R,
           i > 1 => <<l[i - 1], e>> \in R,
           i <= Len(l) => <<e, l[i]>> \in R,
           NEW j \in 1..Len(l) + 1, NEW k \in 1..Len(l) + 1, j < k
    PROVE  <<InsertAt(l, i, e)[j], InsertAt(l, i, e)[k]>> \in R
<1> DEFINE m == InsertAt(l, i, e)
<1>1. /\ m[j] = IF j < i THEN l[j] ELSE IF j = i THEN e ELSE l[j - 1]
      /\ m[k] = IF k < i THEN l[k] ELSE IF k = i THEN e ELSE l[k - 1]
  <2>1. /\ m \in Seq(S) /\ Len(m) = Len(l) + 1
        /\ \A n \in 1..Len(l) + 1 : m[n] = IF n < i THEN l[n] ELSE IF n = i THEN e ELSE l[n - 1]
    BY InsertAtIs, SMT
  <2> QED
    BY <2>1, Zenon
<1> SUFFICES <<m[j], m[k]>> \in R
  OBVIOUS
<1> HIDE DEF m
<1>2. Len(l) \in Nat /\ \A n \in 1..Len(l) : l[n] \in S
  OBVIOUS
<1>3. CASE k < i
  BY <1>1, <1>2, <1>3
<1>4. CASE k = i
  <2>1. m[j] = l[j] /\ m[k] = e /\ j \in 1..Len(l) /\ i - 1 \in 1..Len(l) /\ i > 1
    BY <1>1, <1>2, <1>4
  <2>2. CASE j = i - 1
    BY <2>1, <2>2
  <2>3. CASE ~(j = i - 1)
    <3>1. <<l[j], l[i - 1]>> \in R
      BY <1>4, <2>1, <2>3
    <3> QED
      BY <1>2, <2>1, <3>1
  <2> QED
    BY <2>2, <2>3, Zenon
<1>5. CASE k > i /\ j = i
  <2>1. m[j] = e /\ m[k] = l[k - 1] /\ k - 1 \in 1..Len(l) /\ i \in 1..Len(l) /\ i <= Len(l)
    BY <1>1, <1>2, <1>5
  <2>2. CASE k - 1 = i
    BY <2>1, <2>2
  <2>3. CASE ~(k - 1 = i)
    <3>1. <<l[i], l[k - 1]>> \in R
      BY <1>5, <2>1, <2>3
    <3> QED
      BY <1>2, <2>1, <3>1
  <2> QED
    BY <2>2, <2>3, Zenon
<1>6. CASE k > i /\ j < i
  BY <1>1, <1>2, <1>6, SMTT(60)
<1>7. CASE j > i
  BY <1>1, <1>2, <1>7, SMTT(60)
<1> QED
  BY <1>2, <1>3, <1>4, <1>5, <1>6, <1>7

UniqueKeys(l) == \A i, j \in DOMAIN l : l[i].key = l[j].key => i = j

\* What is left when the path of a key is removed, in the order it had.
LEMMA RemovedIs ==
    ASSUME NEW S, NEW l \in Seq(S), UniqueKeys(l), NEW k
    PROVE  /\ Removed(l, k) \in Seq(S)
           /\ UniqueKeys(Removed(l, k))
           /\ \A i \in DOMAIN Removed(l, k) : Removed(l, k)[i].key # k
           /\ \A i, j \in DOMAIN Removed(l, k) : i < j =>
                 \E a, b \in DOMAIN l :
                    a < b /\ Removed(l, k)[i] = l[a] /\ Removed(l, k)[j] = l[b]
<1> DEFINE m == Removed(l, k)
<1>1. DOMAIN l = 1..Len(l) /\ Len(l) \in Nat
  BY LenProperties
<1>2. CASE ~(\E i \in DOMAIN l : l[i].key = k)
  <2>1. m = l
    BY <1>2, Zenon DEF Removed
  <2> QED
    BY <1>2, <2>1, Zenon
<1>3. CASE \E i \in DOMAIN l : l[i].key = k
  <2> DEFINE c == CHOOSE i \in DOMAIN l : l[i].key = k
  <2>1. c \in DOMAIN l /\ l[c].key = k
    BY <1>3, Zenon
  <2>2. m = RemoveAt(l, c)
    BY <1>3, Zenon DEF Removed
  <2> HIDE DEF c
  <2>3. /\ m \in Seq(S) /\ Len(m) = Len(l) - 1
        /\ \A j \in 1..Len(l) - 1 : m[j] = IF j < c THEN l[j] ELSE l[j + 1]
    BY <1>1, <2>1, <2>2, RemoveAtIs, ZenonT(30)
  <2>4. DOMAIN m = 1..Len(l) - 1
    BY <2>3, LenProperties
  <2> HIDE DEF m
  <2> DEFINE at(j) == IF j < c THEN j ELSE j + 1
  <2>5. ASSUME NEW j \in DOMAIN m
        PROVE  at(j) \in DOMAIN l /\ at(j) # c /\ m[j] = l[at(j)] /\ at(j) \in Int
    BY <1>1, <2>1, <2>3, <2>4
  <2>6. \A i, j \in DOMAIN m : i < j => at(i) < at(j)
    BY <1>1, <2>1, <2>4
  <2>7. \A i, j \in DOMAIN m : at(i) = at(j) => i = j
    BY <1>1, <2>1, <2>4
  <2> HIDE DEF at
  <2>8. UniqueKeys(m)
    BY <2>5, <2>7, Zenon DEF UniqueKeys
  <2>9. \A i \in DOMAIN m : m[i].key # k
    BY <2>1, <2>5, Zenon DEF UniqueKeys
  <2>10. \A i, j \in DOMAIN m : i < j => \E a, b \in DOMAIN l : a < b /\ m[i] = l[a] /\ m[j] = l[b]
    BY <2>5, <2>6, Zenon
  <2> QED
    BY <2>3, <2>8, <2>9, <2>10, Zenon DEF m
<1> QED
  BY <1>2, <1>3, Zenon

LEMMA InsertedUnique ==
    ASSUME NEW S, NEW l \in Seq(S), UniqueKeys(l), NEW e \in S,
           \A i \in DOMAIN l : l[i].key # e.key, NEW i \in 1..Len(l) + 1
    PROVE  UniqueKeys(InsertAt(l, i, e))
<1> DEFINE m == InsertAt(l, i, e)
<1>1. /\ m \in Seq(S) /\ Len(m) = Len(l) + 1
      /\ \A j \in 1..Len(l) + 1 : m[j] = IF j < i THEN l[j] ELSE IF j = i THEN e ELSE l[j - 1]
  BY InsertAtIs
<1> HIDE DEF m
<1>2. DOMAIN m = 1..Len(l) + 1 /\ DOMAIN l = 1..Len(l) /\ Len(l) \in Nat
  BY <1>1, LenProperties
<1> SUFFICES ASSUME NEW j \in 1..Len(l) + 1, NEW k \in 1..Len(l) + 1, m[j].key = m[k].key
             PROVE  j = k
  BY <1>2, Zenon DEF UniqueKeys, m
<1> DEFINE from(n) == IF n < i THEN n ELSE n - 1
<1>3. ASSUME NEW n \in 1..Len(l) + 1, n # i
      PROVE  from(n) \in DOMAIN l /\ m[n] = l[from(n)] /\ m[n].key # e.key
  <2>1. from(n) \in DOMAIN l
    BY <1>2, <1>3
  <2>2. m[n] = l[from(n)]
    BY <1>1, <1>2, <1>3
  <2> QED
    BY <2>1, <2>2
<1>4. m[i] = e
  BY <1>1, <1>2
<1>5. CASE j = i \/ k = i
  <2>1. ~(j # i) \/ ~(k # i)
    BY <1>5
  <2> HIDE DEF from
  <2> QED
    BY <1>3, <1>4, <1>5, Zenon
<1>6. CASE j # i /\ k # i
  <2>1. from(j) = from(k)
    BY <1>3, <1>6, Zenon DEF UniqueKeys
  <2> QED
    BY <1>2, <1>6, <2>1
<1> QED
  BY <1>5, <1>6, Zenon

SortedList(l) == Transitive => \A i, j \in DOMAIN l : i < j => Decide(l[i], l[j]) >= 0
PlainSortedList(l) == \A i, j \in DOMAIN l : i < j => Settled(l[i], l[j]) >= 0
Known(l) == l \in Seq(Paths) /\ UniqueKeys(l) /\ SortedList(l) /\ PlainSortedList(l)

LEMMA RemovedKnown ==
    ASSUME NEW l, Known(l), NEW k
    PROVE  Known(Removed(l, k)) /\ \A i \in DOMAIN Removed(l, k) : Removed(l, k)[i].key # k
<1>1. l \in Seq(Paths) /\ UniqueKeys(l)
  BY Zenon DEF Known
<1> DEFINE m == Removed(l, k)
<1>2. /\ m \in Seq(Paths) /\ UniqueKeys(m) /\ \A i \in DOMAIN m : m[i].key # k
      /\ \A i, j \in DOMAIN m : i < j => \E a, b \in DOMAIN l : a < b /\ m[i] = l[a] /\ m[j] = l[b]
  BY <1>1, RemovedIs
<1> HIDE DEF m
<1>3. SortedList(m) /\ PlainSortedList(m)
  BY <1>2, Zenon DEF Known, SortedList, PlainSortedList
<1> QED
  BY <1>2, <1>3, Zenon DEF Known, m

\* A path put where binary search says is not out of order with its neighbors
\* in the list, and so with no path of it.
LEMMA InsertedKnown ==
    ASSUME Constants, setup \in Setups, NEW l, Known(l), NEW e \in Paths,
           \A i \in DOMAIN l : l[i].key # e.key
    PROVE  Known(insertSort(l, e))
<1> DEFINE s == {i \in DOMAIN l : Decide(e, l[i]) >= 0}
           r == Search(Len(l), s)
           m == InsertAt(l, r + 1, e)
<1>1. /\ l \in Seq(Paths) /\ UniqueKeys(l) /\ DOMAIN l = 1..Len(l) /\ Len(l) \in Nat
      /\ \A i \in 1..Len(l) : l[i] \in Paths
  BY LenProperties, ElementOfSeq DEF Known
<1>2. r \in 0..Len(l) /\ (r > 0 => r \notin s) /\ (r < Len(l) => r + 1 \in s)
  BY <1>1, SearchEnds
<1>3. insertSort(l, e) = m
  BY DEF insertSort
<1> HIDE DEF r
<1>4. r + 1 \in 1..Len(l) + 1
  BY <1>1, <1>2
<1>5. m \in Seq(Paths) /\ DOMAIN m = 1..Len(l) + 1
  BY <1>1, <1>4, InsertAtIs, LenProperties
<1>6. UniqueKeys(m)
  BY <1>1, <1>4, InsertedUnique
<1>7. r > 0 => r \in 1..Len(l) /\ ~(Decide(e, l[r]) >= 0) /\ l[r] \in Paths
  BY <1>1, <1>2
<1>8. r + 1 <= Len(l) => r + 1 \in 1..Len(l) /\ Decide(e, l[r + 1]) >= 0 /\ l[r + 1] \in Paths
  BY <1>1, <1>2
<1> HIDE DEF s
<1>9. ASSUME Transitive
      PROVE  \A j, k \in DOMAIN m : j < k => Decide(m[j], m[k]) >= 0
  <2> DEFINE R == {x \in Paths \X Paths : Decide(x[1], x[2]) >= 0}
  <2>1. \A x, y \in Paths : <<x, y>> \in R <=> Decide(x, y) >= 0
    OBVIOUS
  <2>2. ASSUME NEW x \in Paths, NEW y \in Paths, NEW z \in Paths, <<x, y>> \in R, <<y, z>> \in R
        PROVE  <<x, z>> \in R
    <3>1. Chain(Decide(x, y), Decide(y, z), Decide(x, z))
      BY <1>9, DecideOrdered, Zenon DEF Ordered
    <3> QED
      BY <2>1, <2>2, <3>1, Zenon DEF Chain
  <2>3. \A j, k \in 1..Len(l) : j < k => <<l[j], l[k]>> \in R
    BY <1>1, <1>9, <2>1, Zenon DEF Known, SortedList
  <2>4. (r + 1) > 1 => <<l[(r + 1) - 1], e>> \in R
    <3> SUFFICES ASSUME r > 0 PROVE <<l[r], e>> \in R
      BY <1>2
    <3>1. Opposite(Decide(e, l[r]), Decide(l[r], e)) /\ Decide(e, l[r]) \in Int /\ Decide(l[r], e) \in Int
      BY <1>7, <1>9, DecideOrdered, Zenon DEF Ordered
    <3>2. Decide(l[r], e) >= 0
      BY <1>7, <3>1 DEF Opposite
    <3> QED
      BY <1>7, <2>1, <3>2, Zenon
  <2>5. (r + 1) <= Len(l) => <<e, l[r + 1]>> \in R
    BY <1>8, <2>1, Zenon
  <2>6. \A j \in DOMAIN m : m[j] \in Paths
    BY <1>5
  <2> HIDE DEF R
  <2>7. ASSUME NEW j \in DOMAIN m, NEW k \in DOMAIN m, j < k
        PROVE  <<m[j], m[k]>> \in R
    BY <1>1, <1>4, <1>5, <2>2, <2>3, <2>4, <2>5, <2>7, InsertedSorted, Zenon
  <2> QED
    BY <2>1, <2>6, <2>7, Zenon
<1>10. PlainSortedList(m)
  <2> DEFINE R == {x \in Paths \X Paths : Settled(x[1], x[2]) >= 0}
  <2>1. \A x, y \in Paths : <<x, y>> \in R <=> Settled(x, y) >= 0
    OBVIOUS
  <2>2. ASSUME NEW x \in Paths, NEW y \in Paths, NEW z \in Paths, <<x, y>> \in R, <<y, z>> \in R
        PROVE  <<x, z>> \in R
    <3>1. Chain(Settled(x, y), Settled(y, z), Settled(x, z))
      BY SettledOrdered, Zenon DEF Ordered
    <3> QED
      BY <2>1, <2>2, <3>1, Zenon DEF Chain
  <2>3. \A j, k \in 1..Len(l) : j < k => <<l[j], l[k]>> \in R
    BY <1>1, <2>1, Zenon DEF Known, PlainSortedList
  <2>4. (r + 1) > 1 => <<l[(r + 1) - 1], e>> \in R
    <3> SUFFICES ASSUME r > 0 PROVE <<l[r], e>> \in R
      BY <1>2
    <3>1. Opposite(Settled(e, l[r]), Settled(l[r], e))
      BY <1>7, SettledOrdered, Zenon DEF Ordered
    <3>2. Settled(e, l[r]) \in Int /\ Settled(l[r], e) \in Int /\ Settled(e, l[r]) <= 0
      BY <1>7, SettledFirst, Zenon
    <3>3. Settled(l[r], e) >= 0
      BY <3>1, <3>2 DEF Opposite
    <3> QED
      BY <1>7, <2>1, <3>3, Zenon
  <2>5. (r + 1) <= Len(l) => <<e, l[r + 1]>> \in R
    <3> SUFFICES ASSUME r + 1 <= Len(l) PROVE <<e, l[r + 1]>> \in R
      OBVIOUS
    <3>2. Settled(e, l[r + 1]) >= 0
      BY <1>8, SettledFirst, Zenon
    <3> QED
      BY <1>8, <2>1, <3>2, Zenon
  <2>6. \A j \in DOMAIN m : m[j] \in Paths
    BY <1>5
  <2> HIDE DEF R
  <2>7. ASSUME NEW j \in DOMAIN m, NEW k \in DOMAIN m, j < k
        PROVE  <<m[j], m[k]>> \in R
    BY <1>1, <1>4, <1>5, <2>2, <2>3, <2>4, <2>5, <2>7, InsertedSorted, Zenon
  <2> QED
    BY <2>1, <2>6, <2>7, Zenon DEF PlainSortedList
<1> QED
  BY <1>3, <1>5, <1>6, <1>9, <1>10, Zenon DEF Known, SortedList

\* Ranks of ages are in the order of the ages.
LEMMA RankedIs ==
    ASSUME NEW l \in Seq(Paths)
    PROVE  /\ DOMAIN Ranked(l) = DOMAIN l
           /\ \A i \in DOMAIN l :
                 /\ Ranked(l)[i].key = l[i].key /\ Ranked(l)[i].src = l[i].src
                 /\ Ranked(l)[i].attr = l[i].attr /\ Ranked(l)[i].invalid = l[i].invalid
                 /\ Ranked(l)[i].age \in 1..Len(l)
                 /\ Ranked(l)[i] \in [key : Keys, src : Sources, attr : setup.attrs,
                                      invalid : BOOLEAN, age : 1..Len(l)]
           /\ \A i, j \in DOMAIN l :
                 Lower(Ranked(l)[i].age, Ranked(l)[j].age) = Lower(l[i].age, l[j].age)
<1> DEFINE Up(i) == {j \in DOMAIN l : l[j].age <= l[i].age}
<1>1. DOMAIN l = 1..Len(l) /\ Len(l) \in Nat /\ \A i \in DOMAIN l : l[i] \in Paths
  BY LenProperties, ElementOfSeq
<1>2. \A i \in DOMAIN l : l[i].age \in Nat
  BY <1>1, Zenon DEF Paths
<1>3. \A i \in DOMAIN l : Ranked(l)[i] = [l[i] EXCEPT !.age = Cardinality(Up(i))]
  BY DEF Ranked
<1>4. IsFiniteSet(DOMAIN l) /\ Cardinality(DOMAIN l) = Len(l)
  BY <1>1, FS_Interval
<1>5. ASSUME NEW i \in DOMAIN l
      PROVE  /\ IsFiniteSet(Up(i)) /\ Cardinality(Up(i)) \in 1..Len(l)
  <2>1. Up(i) \subseteq DOMAIN l /\ i \in Up(i)
    BY <1>2
  <2> HIDE DEF Up
  <2>2. IsFiniteSet(Up(i)) /\ Cardinality(Up(i)) <= Cardinality(DOMAIN l)
    BY <1>4, <2>1, FS_Subset
  <2>3. Cardinality(Up(i)) \in Nat /\ Cardinality(Up(i)) # 0
    BY <2>1, <2>2, FS_CardinalityType, FS_EmptySet
  <2> QED
    BY <1>1, <1>4, <2>2, <2>3
<1>6. ASSUME NEW i \in DOMAIN l, NEW j \in DOMAIN l, l[i].age < l[j].age
      PROVE  Cardinality(Up(i)) < Cardinality(Up(j))
  <2>1. Up(i) \subseteq Up(j) /\ j \in Up(j) /\ j \notin Up(i)
    BY <1>2, <1>6
  <2> HIDE DEF Up
  <2>2. Up(i) # Up(j)
    BY <2>1
  <2> QED
    BY <1>5, <2>1, <2>2, FS_Subset
<1>7. ASSUME NEW i \in DOMAIN l, NEW j \in DOMAIN l, l[i].age = l[j].age
      PROVE  Cardinality(Up(i)) = Cardinality(Up(j))
  <2>1. Up(i) = Up(j)
    BY <1>7
  <2> QED
    BY <2>1, Zenon
<1> HIDE DEF Up
<1>8. ASSUME NEW i \in DOMAIN l, NEW j \in DOMAIN l
      PROVE  Lower(Cardinality(Up(i)), Cardinality(Up(j))) = Lower(l[i].age, l[j].age)
  <2>1. /\ l[i].age \in Int /\ l[j].age \in Int
        /\ Cardinality(Up(i)) \in Int /\ Cardinality(Up(j)) \in Int
    BY <1>2, <1>5
  <2> QED
    BY <1>6, <1>7, <2>1 DEF Lower
<1>9. ASSUME NEW i \in DOMAIN l
      PROVE  /\ Ranked(l)[i].key = l[i].key /\ Ranked(l)[i].src = l[i].src
             /\ Ranked(l)[i].attr = l[i].attr /\ Ranked(l)[i].invalid = l[i].invalid
             /\ Ranked(l)[i].age = Cardinality(Up(i))
             /\ Ranked(l)[i] \in [key : Keys, src : Sources, attr : setup.attrs,
                                  invalid : BOOLEAN, age : 1..Len(l)]
  <2>1. l[i] \in [key : Keys, src : Sources, attr : setup.attrs, invalid : BOOLEAN, age : Nat]
    BY <1>1 DEF Paths
  <2> QED
    BY <1>3, <1>5, <2>1, Zenon
<1>10. DOMAIN Ranked(l) = DOMAIN l
  BY DEF Ranked
<1> QED
  BY <1>5, <1>8, <1>9, <1>10, Zenon

\* The comparisons of two paths depend on nothing but their attributes and
\* sources, and on which is older.
LEMMA SameButAge ==
    ASSUME NEW p, NEW q, NEW x, NEW y,
           p.src = x.src, p.attr = x.attr, p.invalid = x.invalid,
           q.src = y.src, q.attr = y.attr, q.invalid = y.invalid
    PROVE  /\ Settled(p, q) = Settled(x, y)
           /\ Compare(p, q) = Compare(x, y)
           /\ Content(p) = Content(x)
           /\ Lower(p.age, q.age) = Lower(x.age, y.age) => Decide(p, q) = Decide(x, y)
<1>1. IsLocal(p) = IsLocal(x) /\ IsIBGP(p) = IsIBGP(x) /\ Confederation(p) = Confederation(x)
  BY Zenon DEF IsLocal, IsIBGP, Confederation
<1>2. IsLocal(q) = IsLocal(y) /\ IsIBGP(q) = IsIBGP(y) /\ Confederation(q) = Confederation(y)
  BY Zenon DEF IsLocal, IsIBGP, Confederation
<1>3. Preferred(p, q) = Preferred(x, y) /\ Plain(p, q) = Plain(x, y)
  BY <1>1, <1>2, Zenon DEF Plain, Preferred, compareByLLGRStaleCommunity, compareByReachableNexthop,
     compareByLocalPref, compareByLocalOrigin, compareByASPath, compareByOrigin
<1>4. Compare(p, q) = Compare(x, y)
  BY <1>1, <1>2, Zenon DEF Compare
<1>5. ASSUME Lower(p.age, q.age) = Lower(x.age, y.age)
      PROVE  TieBreak(p, q) = TieBreak(x, y)
  BY <1>1, <1>2, <1>5, Zenon DEF TieBreak, compareByMED, SameAS, compareByASNumber, compareByAge,
     compareByRouterID, compareByNeighborAddress
<1> QED
  BY <1>3, <1>4, <1>5, Zenon DEF Decide, Settled, Content

LEMMA RankedKnown ==
    ASSUME NEW l, Known(l)
    PROVE  /\ SortedList(Ranked(l)) /\ PlainSortedList(Ranked(l)) /\ UniqueKeys(Ranked(l))
           /\ Len(Ranked(l)) = Len(l)
           /\ Ranked(l) \in Seq([key : Keys, src : Sources, attr : setup.attrs,
                                 invalid : BOOLEAN, age : 1..Len(l)])
           /\ \A i \in DOMAIN Ranked(l) : Ranked(l)[i].src = Src[Ranked(l)[i].key]
<1> DEFINE m == Ranked(l)
           P == [key : Keys, src : Sources, attr : setup.attrs, invalid : BOOLEAN, age : 1..Len(l)]
<1>1. l \in Seq(Paths) /\ Len(l) \in Nat /\ DOMAIN l = 1..Len(l)
  BY LenProperties DEF Known
<1>2. /\ DOMAIN m = DOMAIN l
      /\ \A i \in DOMAIN l :
            /\ m[i].key = l[i].key /\ m[i].src = l[i].src
            /\ m[i].attr = l[i].attr /\ m[i].invalid = l[i].invalid
            /\ m[i] \in P
      /\ \A i, j \in DOMAIN l : Lower(m[i].age, m[j].age) = Lower(l[i].age, l[j].age)
  BY <1>1, RankedIs, Zenon
<1>3. m \in Seq(P) /\ Len(m) = Len(l)
  <2>1. m = [i \in 1..Len(l) |-> m[i]]
    BY <1>1 DEF Ranked
  <2> HIDE DEF m, P
  <2> QED
    BY <1>1, <1>2, <2>1
<1>4. \A i \in DOMAIN l : l[i].src = Src[l[i].key]
  BY <1>1, ElementOfSeq DEF Paths
<1> HIDE DEF m, P
<1>5. ASSUME NEW i \in DOMAIN l, NEW j \in DOMAIN l
      PROVE  Settled(m[i], m[j]) = Settled(l[i], l[j]) /\ Decide(m[i], m[j]) = Decide(l[i], l[j])
  BY <1>2, SameButAge
<1>6. SortedList(m) /\ PlainSortedList(m)
  <2>1. DOMAIN m = DOMAIN l
    BY <1>2, Zenon
  <2>2. SortedList(m)
    BY <1>5, <2>1, SMT DEF Known, SortedList
  <2>3. PlainSortedList(m)
    BY <1>5, <2>1, SMT DEF Known, PlainSortedList
  <2> QED
    BY <2>2, <2>3, Zenon
<1>7. UniqueKeys(m)
  BY <1>2, Zenon DEF Known, UniqueKeys
<1>8. \A i \in DOMAIN m : m[i].src = Src[m[i].key]
  BY <1>2, <1>4, Zenon
<1> QED
  BY <1>3, <1>6, <1>7, <1>8, Zenon DEF m, P

LEMMA RankedPaths ==
    ASSUME NEW l, Known(l)
    PROVE  Ranked(l) \in Seq(Paths) /\ Len(Ranked(l)) = Len(l)
<1> DEFINE m == Ranked(l)
<1>1. l \in Seq(Paths)
  BY Zenon DEF Known
<1>2. /\ m \in Seq([key : Keys, src : Sources, attr : setup.attrs, invalid : BOOLEAN, age : 1..Len(l)])
      /\ \A i \in DOMAIN m : m[i].src = Src[m[i].key]
      /\ Len(m) = Len(l)
  BY RankedKnown, Zenon
<1>3. m \in Seq(Paths)
  <2>1. ASSUME NEW i \in 1..Len(m)
        PROVE  m[i] \in Paths
    <3>1. m[i] \in [key : Keys, src : Sources, attr : setup.attrs, invalid : BOOLEAN, age : 1..Len(l)]
      BY <1>2, ElementOfSeq, Zenon
    <3>2. i \in DOMAIN m
      BY <1>2, LenProperties, Zenon
    <3>3. m[i].src = Src[m[i].key]
      BY <1>2, <3>2, Zenon
    <3>4. Len(l) \in Nat
      BY <1>1, LenProperties, Zenon
    <3> HIDE DEF m
    <3> QED
      BY <3>1, <3>3, <3>4 DEF Paths
  <2>2. m = [i \in 1..Len(m) |-> m[i]] /\ Len(m) \in Nat
    <3> HIDE DEF m
    <3> QED
      BY <1>2
  <2> HIDE DEF m
  <2> QED
    BY <2>1, <2>2
<1> QED
  BY <1>2, <1>3, Zenon

----------------------------------------------------------------------------
(* The steps *)

LEMMA ListKnown ==
    ASSUME Constants, TypeOK, Sorted, SortedByPlain
    PROVE  Known(list)
<1>1. /\ list \in Seq([key : Keys, src : Sources, attr : setup.attrs, invalid : BOOLEAN,
                         age : 1..Len(list)])
      /\ \A i \in DOMAIN list : list[i].src = Src[list[i].key]
  BY Zenon DEF TypeOK
<1>2. Len(list) \in Nat /\ DOMAIN list = 1..Len(list)
  BY <1>1, LenProperties
<1>3. ASSUME NEW i \in 1..Len(list)
      PROVE  list[i] \in Paths
  <2>1. list[i] \in [key : Keys, src : Sources, attr : setup.attrs, invalid : BOOLEAN,
                      age : 1..Len(list)]
    BY <1>1, ElementOfSeq, Zenon
  <2> QED
    BY <1>1, <1>2, <2>1 DEF Paths
<1>4. list \in Seq(Paths)
  <2>1. list = [i \in 1..Len(list) |-> list[i]]
    BY <1>1
  <2> QED
    BY <1>2, <1>3, <2>1
<1> QED
  BY <1>4, Zenon DEF Known, TypeOK, UniqueKeys, Sorted, SortedByPlain, SortedList, PlainSortedList

\* Every step puts a list in the place of the old one and says what changed.
LEMMA NextNotifies ==
    ASSUME Constants, setup \in Setups, Known(list), Next
    PROVE  \E l : Known(l) /\ Notify(l)
<1>1. ASSUME NEW k, explicitWithdraw(k)
      PROVE  Known(Removed(list, k)) /\ Notify(Removed(list, k))
  BY <1>1, RemovedKnown, Zenon DEF explicitWithdraw
<1>2. ASSUME NEW e \in Paths
      PROVE  Known(insertSort(Removed(list, e.key), e))
  BY RemovedKnown, InsertedKnown, Zenon
<1>3. list \in Seq(Paths)
  BY Zenon DEF Known
<1>4. ASSUME NEW k \in setup.keys, NEW a \in setup.attrs, NEW t \in Ages(k), Announce(k, a, t)
      PROVE  \E l : Known(l) /\ Notify(l)
  <2> DEFINE e == [key |-> k, src |-> Src[k], attr |-> a, invalid |-> FALSE, age |-> t]
  <2>0. k \in Keys
    BY SetupType, Zenon
  <2>1. Src[k] \in Sources
    BY <2>0 DEF Constants, Sources, Range
  <2>2. t \in Nat
    <3>1. \A p \in Range(list) : p.age \in Nat
      BY <1>3 DEF Range, Paths
    <3>2. Len(list) \in Nat
      BY <1>3, LenProperties
    <3> QED
      BY <3>1, <3>2 DEF Ages
  <2>3. e \in Paths /\ e.key = k
    BY <2>0, <2>1, <2>2 DEF Paths
  <2>4. Notify(insertSort(Removed(list, e.key), e))
    BY <1>4, <2>3, Zenon DEF Announce
  <2> QED
    BY <1>2, <2>3, <2>4, Zenon
<1>5. ASSUME NEW p \in Range(list)
      PROVE  p \in Paths
  BY <1>3 DEF Range
<1>6. ASSUME NEW p \in Range(list), NexthopUnreachable(p)
      PROVE  \E l : Known(l) /\ Notify(l)
  <2> DEFINE e == [p EXCEPT !.invalid = TRUE]
  <2>1. e \in Paths /\ e.key = p.key
    BY <1>5, Zenon DEF Paths
  <2>2. Notify(insertSort(Removed(list, e.key), e))
    BY <1>6, <2>1, Zenon DEF NexthopUnreachable, Change
  <2> QED
    BY <1>2, <2>1, <2>2, Zenon
<1>8. ASSUME NEW p \in Range(list), NEW metric, NexthopUpdate(p, metric)
      PROVE  \E l : Known(l) /\ Notify(l)
  <2> DEFINE e == [p EXCEPT !.invalid = FALSE, !.attr.med = metric]
  <2>1. [p.attr EXCEPT !.med = metric] \in setup.attrs
    BY <1>8, Zenon DEF NexthopUpdate
  <2>2. e = [p EXCEPT !.invalid = FALSE, !.attr = [p.attr EXCEPT !.med = metric]]
    BY <1>5 DEF Paths
  <2>3. e \in Paths /\ e.key = p.key
    BY <1>5, <2>1, <2>2 DEF Paths
  <2>4. Notify(insertSort(Removed(list, e.key), e))
    BY <1>8, <2>3, Zenon DEF NexthopUpdate, Change
  <2> QED
    BY <1>2, <2>3, <2>4, Zenon
<1>7. ASSUME NEW p \in Range(list), MarkLLGRStale(p)
      PROVE  \E l : Known(l) /\ Notify(l)
  <2> DEFINE e == [p EXCEPT !.attr.stale = TRUE]
  <2>1. [p.attr EXCEPT !.stale = TRUE] \in setup.attrs
    BY <1>7, Zenon DEF MarkLLGRStale
  <2>2. e = [p EXCEPT !.attr = [p.attr EXCEPT !.stale = TRUE]]
    BY <1>5 DEF Paths
  <2>3. e \in Paths /\ e.key = p.key
    BY <1>5, <2>1, <2>2, Zenon DEF Paths
  <2>4. Notify(insertSort(Removed(list, e.key), e))
    BY <1>7, <2>3, Zenon DEF MarkLLGRStale, Change
  <2> QED
    BY <1>2, <2>3, <2>4, Zenon
<1> QED
  BY <1>1, <1>4, <1>6, <1>7, <1>8, Zenon DEF Next

LEMMA NotifySorts ==
    ASSUME Constants, setup \in Setups, NEW l, Known(l), Notify(l)
    PROVE  TypeOK' /\ Sorted' /\ SortedByPlain'
<1>1. list' = Ranked(l) /\ setup' = setup
  BY Zenon DEF Notify
<1>2. TypeOK'
  BY <1>1, RankedKnown, Zenon DEF TypeOK, UniqueKeys
<1>3. Sorted' = SortedList(Ranked(l))
  BY <1>1 DEF Sorted, SortedList, Transitive, OneLocalSource, NoConfederationAmongInternal, Decide,
     Plain, Preferred, TieBreak,
     compareByLLGRStaleCommunity, compareByReachableNexthop, compareByLocalPref, compareByLocalOrigin,
     compareByASPath, compareByOrigin, compareByMED, SameAS, compareByASNumber, compareByAge,
     compareByRouterID, compareByNeighborAddress, IsLocal, IsIBGP, Confederation
<1>4. SortedByPlain' = PlainSortedList(Ranked(l))
  BY <1>1 DEF SortedByPlain, PlainSortedList, Settled, OneLocalSource, Plain, Preferred,
     compareByLLGRStaleCommunity, compareByReachableNexthop, compareByLocalPref, compareByLocalOrigin,
     compareByASPath, compareByOrigin, IsLocal
<1> QED
  BY <1>2, <1>3, <1>4, RankedKnown, Zenon

----------------------------------------------------------------------------
(* What is told *)

LEMMA NotNone ==
    ASSUME NEW p \in Paths
    PROVE  p # None
<1>1. DOMAIN p = {"key", "src", "attr", "invalid", "age"}
  BY DEF Paths
<1>2. DOMAIN None = {"src"}
  BY DEF None
<1> QED
  BY <1>1, <1>2

LEMMA FirstIs ==
    ASSUME NEW l \in Seq(Paths)
    PROVE  /\ l = <<>> => ~Reachable(First(l))
           /\ l # <<>> => /\ 1 \in DOMAIN l /\ l[1] \in Paths
                          /\ First(l) = l[1] /\ l[1] # None
                          /\ Reachable(First(l)) = ~l[1].invalid
<1>1. l # <<>> => 1 \in DOMAIN l /\ l[1] \in Paths
  BY EmptySeq, LenProperties
<1>2. l # <<>> => l[1] # None
  BY <1>1, NotNone, Zenon
<1> QED
  BY <1>1, <1>2, Zenon DEF First, Reachable

LEMMA NotifyTells ==
    ASSUME Known(list), ToldBest, NEW l, Known(l), Notify(l)
    PROVE  ToldBest'
<1> DEFINE m == Ranked(l)
<1>1. list \in Seq(Paths) /\ l \in Seq(Paths)
  BY Zenon DEF Known
<1>2. m \in Seq(Paths) /\ Len(m) = Len(l)
  BY RankedPaths, Zenon
<1>4. m = <<>> <=> l = <<>>
  BY <1>1, <1>2, EmptySeq
<1>5. l # <<>> => m[1].invalid = l[1].invalid /\ Content(m[1]) = Content(l[1])
  BY <1>1, FirstIs, RankedIs, Zenon DEF Content
<1>6. Reachable(First(m)) = Reachable(First(l))
  <2> HIDE DEF m
  <2> QED
    BY <1>1, <1>2, <1>4, <1>5, FirstIs, Zenon
<1>7. Reachable(First(m)) => Content(m[1]) = Content(l[1])
  BY <1>1, <1>5, <1>6, FirstIs, Zenon
<1>8. told' = IF Reachable(First(l)) THEN Content(l[1]) ELSE None
  <2> DEFINE o == First(list)
             b == First(l)
  <2>1. told = IF Reachable(o) THEN Content(list[1]) ELSE None
    BY Zenon DEF ToldBest
  <2>2. told' = IF GetChanges(list, l) = "same" THEN told
                ELSE IF GetChanges(list, l) = "best" THEN Content(l[1]) ELSE None
    BY Zenon DEF Notify
  <2>3. CASE b # None /\ o # None /\ Equal(b, o) /\ b.invalid = o.invalid
    <3>1. GetChanges(list, l) = "same"
      BY <2>3, Zenon DEF GetChanges
    <3>2. l # <<>> /\ list # <<>>
      BY <2>3, Zenon DEF First
    <3>3. b = l[1] /\ o = list[1]
      BY <3>2, Zenon DEF First
    <3>4. Reachable(b) = Reachable(o) /\ Content(l[1]) = Content(list[1])
      BY <2>3, <3>3, Zenon DEF Reachable, Equal
    <3> QED
      BY <2>1, <2>2, <3>1, <3>4, Zenon
  <2>4. CASE ~(b # None /\ o # None /\ Equal(b, o) /\ b.invalid = o.invalid)
    <3>1. GetChanges(list, l) = IF Reachable(b) THEN "best"
                                ELSE IF Reachable(o) THEN "withdraw" ELSE "same"
      BY <2>4, Zenon DEF GetChanges
    <3>2. "best" # "same" /\ "withdraw" # "same" /\ "withdraw" # "best"
      OBVIOUS
    <3> HIDE DEF o, b
    <3>3. CASE Reachable(b)
      BY <2>2, <3>1, <3>2, <3>3, Zenon DEF b
    <3>4. CASE ~Reachable(b) /\ Reachable(o)
      BY <2>2, <3>1, <3>2, <3>4, Zenon DEF b
    <3>5. CASE ~Reachable(b) /\ ~Reachable(o)
      BY <2>1, <2>2, <3>1, <3>2, <3>5, Zenon DEF b
    <3> QED
      BY <3>3, <3>4, <3>5, Zenon
  <2> QED
    BY <2>3, <2>4, Zenon
<1>9. list' = m
  BY Zenon DEF Notify
<1> HIDE DEF m
<1>10. ToldBest' = (told' = IF Reachable(First(m)) THEN Content(m[1]) ELSE None)
  BY <1>9, Zenon DEF ToldBest, Reachable, First, Content, None
<1> QED
  BY <1>6, <1>7, <1>8, <1>10, Zenon

----------------------------------------------------------------------------
(* The multipath *)

\* How many paths of a list are its multipath.
BestCount(l) ==
    IF l = <<>> \/ (l # <<>> /\ l[1].invalid) THEN 0
    ELSE Search(Len(l), {i \in DOMAIN l : l[i].invalid \/ Compare(l[i], l[1]) # 0})

LEMMA MultipathIs ==
    ASSUME NEW S, NEW l \in Seq(S)
    PROVE  /\ BestCount(l) \in 0..Len(l)
           /\ Range(getMultiBestPath(l)) = {l[i] : i \in 1..BestCount(l)}
<1> DEFINE r == BestCount(l)
<1>1. Len(l) \in Nat /\ DOMAIN l = 1..Len(l)
  BY LenProperties
<1>2. r \in 0..Len(l)
  BY <1>1, SearchEnds DEF BestCount
<1>3. CASE l = <<>> \/ (l # <<>> /\ l[1].invalid)
  <2>1. r = 0 /\ getMultiBestPath(l) = <<>>
    BY <1>3, Zenon DEF BestCount, getMultiBestPath
  <2>2. Range(<<>>) = {}
    BY DEF Range
  <2> QED
    BY <1>2, <2>1, <2>2
<1>4. CASE ~(l = <<>> \/ (l # <<>> /\ l[1].invalid))
  <2>1. getMultiBestPath(l) = SubSeq(l, 1, r)
    BY <1>4, Zenon DEF BestCount, getMultiBestPath
  <2> HIDE DEF r
  <2>2. SubSeq(l, 1, r) = [i \in 1..r |-> l[i]]
    BY <1>1, <1>2
  <2>3. Range([i \in 1..r |-> l[i]]) = {l[i] : i \in 1..r}
    BY DEF Range
  <2> QED
    BY <1>2, <2>1, <2>2, <2>3, Zenon DEF r
<1> QED
  BY <1>3, <1>4, Zenon

\* Ranking the ages leaves the multipath as it is.
LEMMA RankedMultipath ==
    ASSUME NEW l, Known(l)
    PROVE  BestCount(Ranked(l)) = BestCount(l)
<1> DEFINE m == Ranked(l)
           bad(x) == {i \in DOMAIN x : x[i].invalid \/ Compare(x[i], x[1]) # 0}
<1>1. l \in Seq(Paths) /\ m \in Seq(Paths) /\ Len(m) = Len(l)
  BY RankedPaths, Zenon DEF Known
<1>2. m = <<>> <=> l = <<>>
  BY <1>1, EmptySeq
<1>3. CASE l = <<>>
  BY <1>2, <1>3, Zenon DEF BestCount
<1>4. CASE l # <<>>
  <2>1. 1 \in DOMAIN l
    BY <1>1, <1>4, FirstIs, Zenon
  <2>2. /\ DOMAIN m = DOMAIN l
        /\ \A i \in DOMAIN l :
              m[i].src = l[i].src /\ m[i].attr = l[i].attr /\ m[i].invalid = l[i].invalid
    BY <1>1, RankedIs, Zenon
  <2> HIDE DEF m
  <2>3. \A i \in DOMAIN l : Compare(m[i], m[1]) = Compare(l[i], l[1])
    BY <2>1, <2>2, SameButAge
  <2>4. bad(m) = bad(l)
    BY <2>2, <2>3, Zenon
  <2>5. m[1].invalid = l[1].invalid
    BY <2>1, <2>2, Zenon
  <2> QED
    BY <1>1, <1>2, <2>4, <2>5, Zenon DEF BestCount, m
<1> QED
  BY <1>3, <1>4, Zenon

\* The FIB holds what it was given of the paths in m, one for a key.
Holds(f, m) ==
    \A k \in Keys : f[k] = IF \E p \in m : p.key = k THEN Content(CHOOSE p \in m : p.key = k) ELSE None
OnePerKey(m) == \A p, q \in m : p.key = q.key => p = q

LEMMA OnePerKeyHolds ==
    ASSUME NEW f, NEW m, OnePerKey(m)
    PROVE  Holds(f, m) <=>
              \A k \in Keys :
                 /\ \A p \in m : p.key = k => f[k] = Content(p)
                 /\ (\A p \in m : p.key # k) => f[k] = None
<1>1. ASSUME NEW k, NEW p \in m, p.key = k
      PROVE  (CHOOSE q \in m : q.key = k) = p
  BY <1>1, Zenon DEF OnePerKey
<1>2. ASSUME NEW k \in Keys
      PROVE  (f[k] = IF \E p \in m : p.key = k THEN Content(CHOOSE p \in m : p.key = k) ELSE None)
             <=> /\ \A p \in m : p.key = k => f[k] = Content(p)
                 /\ (\A p \in m : p.key # k) => f[k] = None
  <2>1. CASE \E p \in m : p.key = k
    <3>1. PICK p \in m : p.key = k
      BY <2>1, Zenon
    <3>2. (CHOOSE q \in m : q.key = k) = p
      BY <1>1, <3>1, Zenon
    <3>3. \A q \in m : q.key = k => q = p
      BY <3>1, Zenon DEF OnePerKey
    <3> QED
      BY <3>1, <3>2, <3>3, Zenon
  <2>2. CASE \A p \in m : p.key # k
    BY <2>2, Zenon
  <2> QED
    BY <2>1, <2>2, Zenon
<1> QED
  BY <1>2, Zenon DEF Holds

\* GetMultiBestPathDiff, for multipaths as sets.
Updates(o, n) == {p \in n : \A q \in o : q.key = p.key => ~Equal(p, q)}
Withdraws(o, n) == {q.key : q \in {x \in o : \A p \in n : p.key # x.key}}
Applied(update, withdraw, f, k) ==
    IF \E p \in update : p.key = k THEN Content(CHOOSE p \in update : p.key = k)
    ELSE IF k \in withdraw THEN None ELSE f[k]

\* A difference applied to what holds the old paths gives what holds the new.
LEMMA DifferenceHolds ==
    ASSUME NEW o, OnePerKey(o), NEW n, OnePerKey(n), NEW f, Holds(f, o), NEW g,
           \A k \in Keys : g[k] = Applied(Updates(o, n), Withdraws(o, n), f, k)
    PROVE  Holds(g, n)
<1> DEFINE update == Updates(o, n)
           withdraw == Withdraws(o, n)
<1>1. \A k \in Keys :
         /\ \A q \in o : q.key = k => f[k] = Content(q)
         /\ (\A q \in o : q.key # k) => f[k] = None
  BY OnePerKeyHolds, Zenon
<1>2. \A k \in Keys :
         g[k] = IF \E p \in update : p.key = k THEN Content(CHOOSE p \in update : p.key = k)
                ELSE IF k \in withdraw THEN None ELSE f[k]
  BY Zenon DEF Applied
<1> HIDE DEF update, withdraw
<1>3. ASSUME NEW k \in Keys, NEW p \in n, p.key = k
      PROVE  g[k] = Content(p)
  <2>1. k \notin withdraw
    BY <1>3, Zenon DEF withdraw, Withdraws
  <2>2. \A q \in update : q.key = k => q = p
    BY <1>3, Zenon DEF OnePerKey, update, Updates
  <2>3. CASE p \in update
    <3>1. (CHOOSE q \in update : q.key = k) = p
      BY <1>3, <2>2, <2>3, Zenon
    <3> QED
      BY <1>3, <1>2, <2>3, <3>1, Zenon
  <2>4. CASE p \notin update
    <3>1. g[k] = f[k]
      BY <1>3, <1>2, <2>1, <2>2, <2>4, Zenon
    <3>2. PICK q \in o : q.key = k /\ Equal(p, q)
      BY <1>3, <2>4, Zenon DEF update, Updates
    <3>3. f[k] = Content(q)
      BY <1>1, <3>2, Zenon
    <3> QED
      BY <3>1, <3>2, <3>3, Zenon DEF Equal
  <2> QED
    BY <2>3, <2>4, Zenon
<1>4. ASSUME NEW k \in Keys, \A p \in n : p.key # k
      PROVE  g[k] = None
  <2>1. ~\E p \in update : p.key = k
    BY <1>4, Zenon DEF update, Updates
  <2>2. CASE \E q \in o : q.key = k
    <3>1. PICK q \in o : q.key = k
      BY <2>2, Zenon
    <3>2. q \in {x \in o : \A p \in n : p.key # x.key}
      BY <1>4, <3>1, Zenon
    <3>3. k \in withdraw
      BY <3>1, <3>2 DEF withdraw, Withdraws
    <3> QED
      BY <1>2, <2>1, <3>3, Zenon
  <2>3. CASE \A q \in o : q.key # k
    <3>1. f[k] = None
      BY <1>1, <2>3, Zenon
    <3>2. k \notin withdraw
      BY <2>3, Zenon DEF withdraw, Withdraws
    <3> QED
      BY <1>2, <2>1, <3>1, <3>2, Zenon
  <2> QED
    BY <2>2, <2>3, Zenon
<1> QED
  BY <1>3, <1>4, OnePerKeyHolds, Zenon

\* A multipath has one path for a key.
LEMMA MultipathOnePerKey ==
    ASSUME NEW l \in Seq(Paths), UniqueKeys(l)
    PROVE  OnePerKey(Range(getMultiBestPath(l)))
<1>1. Range(getMultiBestPath(l)) = {l[i] : i \in 1..BestCount(l)}
  BY MultipathIs, Zenon
<1>2. 1..BestCount(l) \subseteq DOMAIN l
  BY MultipathIs, LenProperties
<1> QED
  BY <1>1, <1>2, Zenon DEF UniqueKeys, OnePerKey

LEMMA NotifyHolds ==
    ASSUME Known(list), FibFollows, NEW l, Known(l), Notify(l)
    PROVE  FibFollows'
<1> DEFINE m == Ranked(l)
           o == Range(getMultiBestPath(list))
           n == Range(getMultiBestPath(l))
           w == Range(getMultiBestPath(m))
<1>1. /\ list \in Seq(Paths) /\ UniqueKeys(list) /\ l \in Seq(Paths) /\ UniqueKeys(l)
      /\ m \in Seq(Paths) /\ UniqueKeys(m)
  BY RankedPaths, RankedKnown, Zenon DEF Known
<1>2. OnePerKey(o) /\ OnePerKey(n) /\ OnePerKey(w)
  BY <1>1, MultipathOnePerKey, Zenon
<1>3. Holds(fib, o)
  BY Zenon DEF FibFollows, Holds
<1>4. Holds(fib', n)
  <2> DEFINE d == GetMultiBestPathDiff(list, l)
  <2>1. d.update = Updates(o, n) /\ d.withdraw = Withdraws(o, n)
    BY DEF GetMultiBestPathDiff, Updates, Withdraws
  <2>2. \A k \in Keys : fib'[k] = Applied(d.update, d.withdraw, fib, k)
    BY Zenon DEF Notify, Applied
  <2> HIDE DEF o, n, d
  <2>3. \A k \in Keys : fib'[k] = Applied(Updates(o, n), Withdraws(o, n), fib, k)
    BY <2>1, <2>2, Zenon
  <2> QED
    BY <1>2, <1>3, <2>3, DifferenceHolds, Zenon
<1>5. Holds(fib', w)
  <2>1. /\ n = {l[i] : i \in 1..BestCount(l)} /\ w = {m[i] : i \in 1..BestCount(l)}
        /\ 1..BestCount(l) \subseteq DOMAIN l
    <3>1. /\ n = {l[i] : i \in 1..BestCount(l)} /\ w = {m[i] : i \in 1..BestCount(m)}
      BY <1>1, MultipathIs, Zenon
    <3>2. 1..BestCount(l) \subseteq DOMAIN l
      BY <1>1, MultipathIs, LenProperties
    <3> QED
      BY <3>1, <3>2, RankedMultipath, Zenon
  <2>2. \A i \in DOMAIN l : m[i].key = l[i].key /\ Content(m[i]) = Content(l[i])
    BY <1>1, RankedIs, Zenon DEF Content
  <2> HIDE DEF m, n, w
  <2>3. \A k \in Keys :
           /\ \A p \in n : p.key = k => fib'[k] = Content(p)
           /\ (\A p \in n : p.key # k) => fib'[k] = None
    BY <1>2, <1>4, OnePerKeyHolds, Zenon
  <2>4. ASSUME NEW k \in Keys, NEW p \in w, p.key = k
        PROVE  fib'[k] = Content(p)
    <3>1. PICK i \in 1..BestCount(l) : p = m[i]
      BY <2>1, <2>4, Zenon
    <3> QED
      BY <2>1, <2>2, <2>3, <2>4, <3>1, Zenon
  <2>5. ASSUME NEW k \in Keys, \A p \in w : p.key # k
        PROVE  fib'[k] = None
    <3>1. ASSUME NEW p \in n
          PROVE  p.key # k
      <4>1. PICK i \in 1..BestCount(l) : p = l[i]
        BY <2>1, <3>1, Zenon
      <4>2. m[i] \in w
        BY <2>1, <4>1, Zenon
      <4> QED
        BY <2>1, <2>2, <2>5, <4>1, <4>2, Zenon
    <3> QED
      BY <2>3, <3>1, Zenon
  <2> QED
    BY <1>2, <2>4, <2>5, OnePerKeyHolds, Zenon
<1>6. list' = m /\ setup' = setup
  BY Zenon DEF Notify
<1>7. getMultiBestPath(list)' = getMultiBestPath(m)
  <2> HIDE DEF m
  <2> QED
    BY <1>6 DEF getMultiBestPath, Compare, IsLocal, IsIBGP
<1>8. FibFollows' = Holds(fib', w)
  <2> HIDE DEF m
  <2> QED
    BY <1>7 DEF FibFollows, Holds, Content, None
<1> QED
  BY <1>5, <1>8, Zenon

\* What paths as good as each other have in common.
LEMMA CompareTie ==
    ASSUME Constants, setup \in Setups, NEW p \in Paths, NEW q \in Paths
    PROVE  Compare(p, q) = 0 <=>
              /\ p.attr.stale = q.attr.stale
              /\ IsLocal(p) = IsLocal(q)
              /\ IsIBGP(p) = IsIBGP(q)
              /\ p.attr.pref = q.attr.pref
              /\ p.attr.len = q.attr.len
              /\ p.attr.origin = q.attr.origin
              /\ p.attr.med = q.attr.med
<1>1. \A a, b \in Int : Lower(a, b) = 0 <=> a = b
  BY DEF Lower
<1>2. \A a, b \in BOOLEAN : Without(a, b) = 0 <=> a = b
  BY DEF Without
<1>3. IsLocal(p) \in BOOLEAN /\ IsLocal(q) \in BOOLEAN /\ IsIBGP(p) \in BOOLEAN /\ IsIBGP(q) \in BOOLEAN
  BY DEF IsLocal, IsIBGP
<1>4. \A a, b : Else(a, b) = 0 <=> a = 0 /\ b = 0
  BY DEF Else
<1>5. /\ Without(p.attr.stale, q.attr.stale) = 0 <=> p.attr.stale = q.attr.stale
      /\ Lower(q.attr.pref, p.attr.pref) = 0 <=> p.attr.pref = q.attr.pref
      /\ Lower(p.attr.len, q.attr.len) = 0 <=> p.attr.len = q.attr.len
      /\ Lower(p.attr.origin, q.attr.origin) = 0 <=> p.attr.origin = q.attr.origin
      /\ Lower(p.attr.med, q.attr.med) = 0 <=> p.attr.med = q.attr.med
  BY <1>1, <1>2, PathType
<1>6. /\ Without(~IsLocal(p), ~IsLocal(q)) = 0 <=> IsLocal(p) = IsLocal(q)
      /\ Without(IsIBGP(p), IsIBGP(q)) = 0 <=> IsIBGP(p) = IsIBGP(q)
  BY <1>2, <1>3, Zenon
<1>7. Compare(p, q) = 0 <=>
         /\ Without(p.attr.stale, q.attr.stale) = 0
         /\ Without(~IsLocal(p), ~IsLocal(q)) = 0
         /\ Without(IsIBGP(p), IsIBGP(q)) = 0
         /\ Lower(q.attr.pref, p.attr.pref) = 0
         /\ Lower(p.attr.len, q.attr.len) = 0
         /\ Lower(p.attr.origin, q.attr.origin) = 0
         /\ Lower(p.attr.med, q.attr.med) = 0
  BY <1>4, SMT DEF Compare
<1> QED
  BY <1>5, <1>6, <1>7, Zenon

\* A path between the best one and one as good as it is as good, too.
LEMMA Between ==
    ASSUME Constants, setup \in Setups, Transitive, NoConfederationAmongInternal,
           ~setup.opts.ignoreLen,
           NEW p \in Paths, NEW q \in Paths, NEW r \in Paths,
           Decide(p, q) >= 0, Decide(q, r) >= 0,
           ~p.invalid, ~r.invalid, Compare(r, p) = 0
    PROVE  ~q.invalid /\ Compare(q, p) = 0
<1>1. /\ r.attr.stale = p.attr.stale /\ IsLocal(r) = IsLocal(p) /\ IsIBGP(r) = IsIBGP(p)
      /\ r.attr.pref = p.attr.pref /\ r.attr.len = p.attr.len
      /\ r.attr.origin = p.attr.origin /\ r.attr.med = p.attr.med
  BY CompareTie, Zenon
<1>2. p.invalid = r.invalid
  BY PathType
<1>3. /\ Plain(p, q) \in Int /\ Plain(q, r) \in Int
      /\ TieBreak(p, q) \in Int /\ TieBreak(q, r) \in Int
  BY DecideType, Zenon
<1>4. Plain(p, r) = 0
  <2>1. \A a \in Int : Lower(a, a) = 0
    BY DEF Lower
  <2>2. \A a : Without(a, a) = 0
    BY Zenon DEF Without
  <2>3. compareByLocalOrigin(p, r) = 0
    <3>1. IsLocal(p) /\ IsLocal(r) => p.src = r.src
      BY PathType, Zenon DEF Transitive, OneLocalSource, IsLocal
    <3> QED
      BY <1>1, <3>1, Zenon DEF compareByLocalOrigin
  <2>4. compareByLLGRStaleCommunity(p, r) = 0 /\ compareByReachableNexthop(p, r) = 0
    BY <1>1, <1>2, <2>2, Zenon DEF compareByLLGRStaleCommunity, compareByReachableNexthop
  <2>5. compareByLocalPref(p, r) = 0 /\ compareByASPath(p, r) = 0 /\ compareByOrigin(p, r) = 0
    BY <1>1, <2>1, PathType DEF compareByLocalPref, compareByASPath, compareByOrigin
  <2> QED
    BY <2>3, <2>4, <2>5, Zenon DEF Plain, Preferred, Else
<1>5. Plain(p, q) = 0 /\ Plain(q, r) = 0
  <2>1. Plain(p, q) >= 0 /\ Plain(q, r) >= 0
    BY <1>3 DEF Decide, Else
  <2> QED
    BY <1>4, <2>1, PlainOrdered DEF Ordered, Chain, Transitive
<1>6. TieBreak(p, q) >= 0 /\ TieBreak(q, r) >= 0
  BY <1>5, Zenon DEF Decide, Else
<1>7. /\ q.attr.stale = p.attr.stale /\ q.invalid = p.invalid /\ q.attr.pref = p.attr.pref
      /\ q.attr.len = p.attr.len /\ q.attr.origin = p.attr.origin
      /\ IsLocal(p) = IsLocal(q) /\ IsLocal(q) = IsLocal(r)
  <2>1. /\ compareByLLGRStaleCommunity(p, q) = 0 /\ compareByReachableNexthop(p, q) = 0
        /\ compareByLocalPref(p, q) = 0 /\ compareByASPath(p, q) = 0 /\ compareByOrigin(p, q) = 0
        /\ IsLocal(p) = IsLocal(q) /\ IsLocal(q) = IsLocal(r)
    BY <1>5, PlainTie, Zenon
  <2>2. \A a, b \in Int : Lower(a, b) = 0 => a = b
    BY DEF Lower
  <2>3. \A a, b \in BOOLEAN : Without(a, b) = 0 => a = b
    BY DEF Without
  <2>4. q.attr.stale = p.attr.stale /\ q.invalid = p.invalid
    BY <2>1, <2>3, PathType, Zenon DEF compareByLLGRStaleCommunity, compareByReachableNexthop
  <2>5. q.attr.pref = p.attr.pref /\ q.attr.len = p.attr.len /\ q.attr.origin = p.attr.origin
    BY <2>1, <2>2, PathType DEF compareByLocalPref, compareByASPath, compareByOrigin
  <2> QED
    BY <2>1, <2>4, <2>5, Zenon
<1>8. /\ compareByMED(p, q) = Lower(p.attr.med, q.attr.med)
      /\ compareByMED(q, r) = Lower(q.attr.med, r.attr.med)
  BY <1>7, MedCompared, Zenon
<1>9. q.attr.med = p.attr.med
  <2>1. compareByMED(p, q) >= 0 /\ compareByMED(q, r) >= 0
    BY <1>6, <1>8, PathType DEF TieBreak, Else, Lower
  <2>2. \A a, b \in Int : Lower(a, b) >= 0 => a <= b
    BY DEF Lower
  <2> QED
    BY <1>1, <1>8, <2>1, <2>2, PathType
<1>10. compareByASNumber(p, q) >= 0 /\ compareByASNumber(q, r) >= 0
  <2>1. compareByMED(p, q) = 0 /\ compareByMED(q, r) = 0
    BY <1>1, <1>8, <1>9, PathType DEF Lower
  <2>2. \A a : a >= 0 \/ a # 0
    BY SMT
  <2> QED
    BY <1>6, <2>1, <2>2 DEF TieBreak, Else, compareByASNumber, Without
<1>11. IsIBGP(q) = IsIBGP(p)
  <2>1. (IsInternal(p) => IsInternal(q)) /\ (IsInternal(q) => IsInternal(r))
    BY <1>10 DEF compareByASNumber, Without, IsInternal, Confederation, IsIBGP
  <2>2. \A x, y \in Paths : ~(Confederation(x) /\ IsIBGP(y))
    BY PathType, Zenon DEF NoConfederationAmongInternal, Confederation, IsIBGP
  <2> QED
    BY <1>1, <2>1, <2>2, Zenon DEF IsInternal, IsIBGP
<1> QED
  BY <1>7, <1>9, <1>11, CompareTie, Zenon

\* A sorted list has the paths as good as its first one at its front.
LEMMA KnownMultipath ==
    ASSUME Constants, setup \in Setups, Known(list)
    PROVE  MultipathExact
<1> SUFFICES ASSUME Transitive, NoConfederationAmongInternal, ~setup.opts.ignoreLen,
                    list # <<>>, ~list[1].invalid
             PROVE  Range(getMultiBestPath(list)) =
                        {p \in Range(list) : ~p.invalid /\ Compare(p, list[1]) = 0}
  BY Zenon DEF MultipathExact
<1> DEFINE bad == {i \in DOMAIN list : list[i].invalid \/ Compare(list[i], list[1]) # 0}
           r == BestCount(list)
<1>1. /\ list \in Seq(Paths) /\ Len(list) \in Nat /\ DOMAIN list = 1..Len(list)
      /\ 1 \in DOMAIN list
  BY FirstIs, LenProperties DEF Known
<1>2. r = Search(Len(list), bad)
  BY Zenon DEF BestCount
<1>3. /\ r \in 0..Len(list)
      /\ r > 0 => r \notin bad
      /\ r < Len(list) => r + 1 \in bad
  BY <1>1, <1>2, SearchEnds
<1>4. ASSUME NEW i \in DOMAIN list, NEW j \in DOMAIN list, i <= j, j \notin bad
      PROVE  i \notin bad
  <2>1. \A x \in DOMAIN list : list[x] \in Paths
    BY <1>1, ElementOfSeq, Zenon
  <2>2. ~list[j].invalid /\ Compare(list[j], list[1]) = 0
    BY <1>4, Zenon
  <2>3. CASE i = j
    BY <1>4, <2>3, Zenon
  <2>4. CASE i = 1
    <3>1. Compare(list[1], list[1]) = 0
      BY <1>1, <2>1, CompareTie, Zenon
    <3> QED
      BY <2>4, <3>1, Zenon
  <2>5. CASE 1 < i /\ i < j
    <3>1. Decide(list[1], list[i]) >= 0 /\ Decide(list[i], list[j]) >= 0
      BY <1>1, <2>5, Zenon DEF Known, SortedList
    <3> QED
      BY <1>1, <2>1, <2>2, <3>1, Between, Zenon
  <2>6. i = j \/ i = 1 \/ (1 < i /\ i < j)
    BY <1>1, <1>4
  <2> QED
    BY <2>3, <2>4, <2>5, <2>6, Zenon
<1> HIDE DEF r
<1>5. ASSUME NEW i \in DOMAIN list
      PROVE  i \in 1..r <=> i \notin bad
  <2> HIDE DEF bad
  <2>1. CASE i \in 1..r
    <3>1. r \in DOMAIN list /\ i <= r /\ r > 0
      BY <1>1, <1>3, <2>1
    <3> QED
      BY <1>3, <1>4, <2>1, <3>1, Zenon
  <2>2. CASE i \notin 1..r
    <3>1. r + 1 \in DOMAIN list /\ r + 1 <= i /\ r < Len(list)
      BY <1>1, <1>3, <2>2
    <3> QED
      BY <1>3, <1>4, <2>2, <3>1, Zenon
  <2> QED
    BY <2>1, <2>2, Zenon
<1>6. Range(getMultiBestPath(list)) = {list[i] : i \in 1..r}
  BY <1>1, MultipathIs, Zenon DEF r
<1>7. 1..r \subseteq DOMAIN list
  BY <1>1, <1>3
<1>8. Range(list) = {list[i] : i \in DOMAIN list}
  BY DEF Range
<1>9. {list[i] : i \in 1..r} = {p \in Range(list) : ~p.invalid /\ Compare(p, list[1]) = 0}
  <2>1. ASSUME NEW i \in 1..r
        PROVE  list[i] \in {p \in Range(list) : ~p.invalid /\ Compare(p, list[1]) = 0}
    BY <1>5, <1>7, <1>8, Zenon
  <2>2. ASSUME NEW p \in Range(list), ~p.invalid, Compare(p, list[1]) = 0
        PROVE  p \in {list[i] : i \in 1..r}
    <3>1. PICK i \in DOMAIN list : p = list[i]
      BY <1>8, <2>2, Zenon
    <3>2. i \in 1..r
      BY <1>5, <2>2, <3>1, Zenon
    <3> QED
      BY <3>1, <3>2, Zenon
  <2> QED
    BY <2>1, <2>2, Zenon
<1> QED
  BY <1>6, <1>9, Zenon

----------------------------------------------------------------------------
(* The theorems *)

\* The inductive invariant: that the list is sorted needs the list before the
\* step to be, and what was told of it is a difference to that list.
IInv == TypeOK /\ Sorted /\ SortedByPlain /\ ToldBest /\ FibFollows

LEMMA Initially ==
    ASSUME Init
    PROVE  IInv
<1>1. list = <<>> /\ DOMAIN list = {} /\ Len(list) = 0
  BY DEF Init
<1>2. TypeOK
  BY <1>1 DEF Init, TypeOK
<1>3. Sorted /\ SortedByPlain
  BY <1>1, Zenon DEF Sorted, SortedByPlain
<1>4. ToldBest
  BY <1>1, Zenon DEF Init, ToldBest, First, Reachable
<1>5. FibFollows
  <2>1. getMultiBestPath(list) = <<>>
    BY <1>1, Zenon DEF getMultiBestPath
  <2>2. Range(<<>>) = {}
    BY DEF Range
  <2> QED
    BY <2>1, <2>2, Zenon DEF Init, FibFollows
<1> QED
  BY <1>2, <1>3, <1>4, <1>5, Zenon DEF IInv

LEMMA StepKeeps ==
    ASSUME Constants, IInv, [Next]_vars
    PROVE  IInv'
<1>1. CASE Next
  <2>1. setup \in Setups /\ Known(list)
    BY ListKnown, Zenon DEF IInv, TypeOK
  <2>2. PICK l : Known(l) /\ Notify(l)
    BY <1>1, <2>1, NextNotifies, Zenon
  <2>3. TypeOK' /\ Sorted' /\ SortedByPlain'
    BY <2>1, <2>2, NotifySorts, Zenon
  <2>4. ToldBest'
    BY <2>1, <2>2, NotifyTells, Zenon DEF IInv
  <2>5. FibFollows'
    BY <2>1, <2>2, NotifyHolds, Zenon DEF IInv
  <2> QED
    BY <2>3, <2>4, <2>5, Zenon DEF IInv
<1>2. CASE UNCHANGED vars
  <2>1. setup' = setup /\ list' = list /\ told' = told /\ fib' = fib
    BY <1>2, Zenon DEF vars
  <2>2. TypeOK'
    BY <2>1, Zenon DEF IInv, TypeOK
  <2>3. Sorted' = Sorted
    BY <2>1 DEF Sorted, Transitive, OneLocalSource, NoConfederationAmongInternal, Decide, Plain,
       Preferred, TieBreak,
       compareByLLGRStaleCommunity, compareByReachableNexthop, compareByLocalPref,
       compareByLocalOrigin, compareByASPath, compareByOrigin, compareByMED, SameAS,
       compareByASNumber, compareByAge, compareByRouterID, compareByNeighborAddress, IsLocal, IsIBGP,
       Confederation
  <2>4. SortedByPlain' = SortedByPlain
    BY <2>1 DEF SortedByPlain, Settled, OneLocalSource, Plain, Preferred,
       compareByLLGRStaleCommunity, compareByReachableNexthop,
       compareByLocalPref, compareByLocalOrigin, compareByASPath, compareByOrigin, IsLocal
  <2>5. ToldBest' = ToldBest
    BY <2>1 DEF ToldBest, First, Reachable, Content, None
  <2>6. getMultiBestPath(list)' = getMultiBestPath(list)
    BY <2>1 DEF getMultiBestPath, Compare, IsLocal, IsIBGP
  <2>7. FibFollows' = FibFollows
    BY <2>1, <2>6 DEF FibFollows, Content, None
  <2> QED
    BY <2>2, <2>3, <2>4, <2>5, <2>7, Zenon DEF IInv
<1> QED
  BY <1>1, <1>2, Zenon

LEMMA Invariant ==
    ASSUME Constants
    PROVE  Spec => []IInv
<1>1. Init => IInv
  BY Initially
<1>2. IInv /\ [Next]_vars => IInv'
  BY StepKeeps
<1> QED
  BY <1>1, <1>2, PTL DEF Spec

\* The known path list holds one path for a source and path identifier, each
\* with the source that belongs to the identifier, whatever comes and goes
\* (Calculate, insertSort, implicitWithdraw).
THEOREM OnePathPerKey ==
    ASSUME Constants
    PROVE  Spec => []TypeOK
  BY Invariant, PTL DEF IInv

\* The list is always sorted by best path selection, for every number of paths,
\* where the criteria order the paths at all: a binary search in it finds the
\* place of a new path (insertSort).
THEOREM BestFirst ==
    ASSUME Constants
    PROVE  Spec => []Sorted
  BY Invariant, PTL DEF IInv

\* Without any condition, the list is sorted by the criteria before MED, or
\* before local origin where local paths have several sources.
THEOREM BestByPlain ==
    ASSUME Constants
    PROVE  Spec => []SortedByPlain
  BY Invariant, PTL DEF IInv

\* getMultiBestPath takes all paths as good as the best one and no other.
THEOREM AllAsGood ==
    ASSUME Constants
    PROVE  Spec => []MultipathExact
<1>1. IInv => MultipathExact
  BY ListKnown, KnownMultipath, Zenon DEF IInv, TypeOK
<1> QED
  BY <1>1, Invariant, PTL

\* Neighbors that only hear of changes (GetChanges) know the best path, and
\* watchers that only hear of differences (GetMultiBestPathDiff) the multipath.
THEOREM ChangesSuffice ==
    ASSUME Constants
    PROVE  Spec => []WatchersKnow
  BY Invariant, PTL DEF IInv, WatchersKnow

=============================================================================
