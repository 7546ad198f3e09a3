----------------------- MODULE PropagationSyncProofs -----------------------
(***************************************************************************)
(* Proofs about what the neighbors of Propagation end up with: between     *)
(* walks a neighbor holds the best path if it may have it, and an ADD-PATH *)
(* neighbor every path it may have, or the path waits for room. The        *)
(* invariant for this ties the view of a neighbor to the Loc-RIB, except   *)
(* where a walk has still to come by; the first part shows that a dump, a  *)
(* soft reset or a visit of a walk preserves it for the neighbor it serves.*)
(***************************************************************************)
EXTENDS PropagationProofs

----------------------------------------------------------------------------
(* Steps that leave a neighbor alone *)

\* Neither what was sent to q nor its part in the walk changes, and it is not
\* served better than before; or the policy changes, and this is noted.
Untouched(q) ==
    /\ sent'[q] = sent[q] /\ held'[q] = held[q] /\ view'[q] = view[q]
    /\ gap[q] \subseteq gap'[q]
    /\ Active(q)' => Active(q)
    /\ Unserved(q)' => Unserved(q)
    /\ rejects' = rejects \/ "policy" \in gap'[q] \/ ~Active(q)'

SameWalk(q) ==
    /\ Pending(q)' <=> Pending(q)
    /\ Pending(q) => walk'.by = walk.by /\ walk'.new = walk.new /\ walk'.old = walk.old

LEMMA UntouchedKeeps ==
    ASSUME KnownInv, KnownInv', UNCHANGED known, NEW q \in Peers, SameWalk(q), Untouched(q),
           NeighborInv(q)
    PROVE  NeighborInv(q)'
<1>1. BlankInv(q)'
  BY DEF Untouched, NeighborInv, BlankInv
<1>2. /\ Pending(q)' <=> Pending(q)
      /\ \A s : Waits(q, s)' <=> Waits(q, s)
      /\ \A s : Waits(q, s) => walk'.new = walk.new
      /\ Pending(q) => walk'.old = walk.old
  BY DEF SameWalk, Waits
<1>3. rejects' = rejects => Exports(q)' = Exports(q)
  BY ExportsAre, ExportsAreNext, Zenon
<1>4. ASSUME q \in AddPath PROVE AddInv(q)'
  <2> SUFFICES ASSUME Active(q)' PROVE
        /\ gap'[q] = {} => \A s \in Exports(q)' : s \in sent'[q] \cup held'[q] \/ Waits(q, s)'
        /\ gap'[q] = {} /\ Cardinality(sent'[q]) < SendMax =>
               \A s \in Exports(q)' : s \in sent'[q] \/ Waits(q, s)'
        /\ gap'[q] \subseteq {"policy"} =>
               /\ held'[q] \cap sent'[q] = {}
               /\ \A s \in sent'[q] :
                      /\ s \in Sources
                      /\ ~Waits(q, s)' => view'[q][s] = known'[s] /\ Passes(q, s, known'[s])
                      /\ Waits(q, s)' /\ walk'.new.withdraw => Passes(q, s, walk'.new.attr)
    BY Zenon DEF AddInv
  <2>1. Active(q) /\ AddInv(q)
    BY <1>4 DEF Untouched, NeighborInv
  <2>2. gap'[q] = {} => gap[q] = {} /\ Exports(q)' = Exports(q)
    BY <1>3 DEF Untouched
  <2>3. gap'[q] \subseteq {"policy"} => gap[q] \subseteq {"policy"}
    BY Zenon DEF Untouched
  <2>4. QED
    BY <1>2, <2>1, <2>2, <2>3, Zenon DEF AddInv, Untouched
<1>5. ASSUME q \notin AddPath, OneKindOfInternal PROVE BestInv(q)'
  <2> SUFFICES ASSUME Active(q)' PROVE
        /\ gap'[q] = {} => \/ view'[q][Zero] = DueOf(q, GetBestPath(known))'
                           \/ Pending(q)' /\ view'[q][Zero] = DueOf(q, walk.old)'
        /\ gap'[q] \subseteq {"policy"} /\ view'[q][Zero] # None =>
               \/ May(q, GetBestPath(known'))
               \/ Pending(q)' /\ May(q, walk'.old)
    BY Zenon DEF BestInv
  <2>1. Active(q) /\ BestInv(q)
    BY <1>5 DEF Untouched, NeighborInv
  <2>2. gap'[q] = {} => gap[q] = {} /\ rejects' = rejects
    BY DEF Untouched
  <2>3. gap'[q] \subseteq {"policy"} => gap[q] \subseteq {"policy"}
    BY DEF Untouched
  <2>4. QED
    BY <1>2, <2>1, <2>2, <2>3, Zenon DEF BestInv, DueOf, Untouched
<1>6. QED
  BY <1>1, <1>4, <1>5, Zenon DEF NeighborInv

\* The table changes and a walk begins: it will come by every neighbor.
LEMMA BeginWalk ==
    ASSUME KnownInv, KnownInv', NEW s \in Sources, NEW a \in Attrs \cup {None}, Begin(s, a),
           a # None \/ known[s] # None
    PROVE  WalkInv'
<1> DEFINE o == GetBestPath(known)
           n == GetBestPath(known')
<1>1. known' = [known EXCEPT ![s] = a] /\ known \in [Sources -> Attrs \cup {None}]
  BY DEF Begin, KnownInv
<1>2. /\ walk'.by = s /\ walk'.new = Path(s, IF a = None THEN known[s] ELSE a, a = None)
      /\ walk'.best = GetChanges(known, known').best /\ walk'.old = GetChanges(known, known').old
  BY DEF Begin
<1>3. GetChanges(known, known').best = ChangeOf(o, n) /\ GetChanges(known, known').old = o
  BY DEF GetChanges, ChangeOf
<1>4. o \in Bests
  BY <1>1, BestIsBest
<1> HIDE DEF o, n
<1>5. walk'.new.src = s /\ walk'.new.attr = (IF a = None THEN known[s] ELSE a)
      /\ walk'.new.withdraw = (a = None)
  BY <1>2 DEF Path
<1>6. known'[s] = a
  BY <1>1
<1>7. QED
  BY <1>2, <1>3, <1>4, <1>5, <1>6, Zenon DEF WalkInv, n

LEMMA BeginKeeps ==
    ASSUME KnownInv, KnownInv', NEW s \in Sources, NEW a \in Attrs \cup {None}, Begin(s, a),
           UNCHANGED <<rejects, sent, held, view, gap>>,
           NEW q \in Peers, NeighborInv(q), Active(q)' => Active(q), Unserved(q)' => Unserved(q)
    PROVE  NeighborInv(q)'
<1>1. /\ walk = NoWalk /\ known' = [known EXCEPT ![s] = a]
      /\ known \in [Sources -> Attrs \cup {None}]
  BY DEF Begin, KnownInv
<1>2. /\ walk'.by = s /\ walk'.new = Path(s, IF a = None THEN known[s] ELSE a, a = None)
      /\ walk'.old = GetBestPath(known) /\ walk'.todo = Peers
  BY DEF Begin, GetChanges
<1>3. walk' # NoWalk
  <2>1. walk'.by # Zero
    BY <1>2, PropagationAssumption
  <2>2. QED
    BY <2>1 DEF NoWalk
<1>4. ~Pending(q) /\ (\A t : ~Waits(q, t)) /\ Pending(q)' /\ \A t : Waits(q, t)' <=> t = s
  BY <1>1, <1>2, <1>3 DEF Pending, Waits
<1>5. BlankInv(q)'
  BY ZenonT(30) DEF NeighborInv, BlankInv
<1>6. ASSUME q \in AddPath PROVE AddInv(q)'
  <2> SUFFICES ASSUME Active(q)' PROVE
        /\ gap[q] = {} => \A t \in Exports(q)' : t \in sent[q] \cup held[q] \/ t = s
        /\ gap[q] = {} /\ Cardinality(sent[q]) < SendMax =>
               \A t \in Exports(q)' : t \in sent[q] \/ t = s
        /\ gap[q] \subseteq {"policy"} =>
               /\ held[q] \cap sent[q] = {}
               /\ \A t \in sent[q] :
                      /\ t \in Sources
                      /\ t # s => view[q][t] = known'[t] /\ Passes(q, t, known'[t])
                      /\ t = s /\ walk'.new.withdraw => Passes(q, t, walk'.new.attr)
    BY <1>4, Zenon DEF AddInv
  <2>1. Active(q) /\ AddInv(q)
    BY <1>6 DEF NeighborInv
  <2>2. \A t \in Sources : t # s => known'[t] = known[t]
    BY <1>1
  <2>3. \A t \in Exports(q)' : t # s => t \in Exports(q)
    BY <2>2, ExportsAre, ExportsAreNext DEF ExportsOf
  <2>4. walk'.new.withdraw => walk'.new.attr = known[s]
    <3>1. walk'.new.withdraw = (a = None) /\ walk'.new.attr = (IF a = None THEN known[s] ELSE a)
      BY <1>2, SMTT(30) DEF Path
    <3>2. QED
      BY <3>1, ZenonT(30)
  <2>5. QED
    BY <1>4, <2>1, <2>2, <2>3, <2>4, SMTT(30) DEF AddInv
<1>7. ASSUME q \notin AddPath, OneKindOfInternal PROVE BestInv(q)'
  BY <1>2, <1>4, <1>7, ZenonT(30) DEF NeighborInv, BestInv, DueOf
<1>8. QED
  BY <1>5, <1>6, <1>7, ZenonT(30) DEF NeighborInv

----------------------------------------------------------------------------
(* Dumps and resets *)

\* A dump brings a neighbor up to date that had nothing, or that was.
LEMMA PassedSyncs ==
    ASSUME KnownInv, OutInv, KnownInv', UNCHANGED <<known, rejects, walk>>,
           WalkInv, NEW q \in Peers, NeighborInv(q), ~Unserved(q)',
           NEW W, Send(q, Passed(q), W), held' = held,
           gap'[q] \subseteq {"policy"} =>
               /\ held[q] \cap sent'[q] = {}
               /\ \/ sent[q] = {} /\ held[q] = {}
                  \/ Active(q) /\ gap[q] \subseteq gap'[q]
    PROVE  NeighborInv(q)'
<1>1. BlankInv(q)'
  BY DEF BlankInv
<1>2. /\ Pending(q)' <=> Pending(q)
      /\ \A s : Waits(q, s)' <=> Waits(q, s)
      /\ Exports(q)' = Exports(q)
  BY ExportsAre, ExportsAreNext, Zenon DEF Pending, Waits
<1>3. ASSUME q \in AddPath PROVE AddInv(q)'
  <2>1. /\ Exports(q) \subseteq sent'[q]
        /\ \A s \in Exports(q) : view'[q][s] = known[s]
        /\ \A s \in sent'[q] \ Exports(q) : s \in sent[q] /\ view'[q][s] = view[q][s]
    BY <1>3, PassedAll, Zenon
  <2>2. \A s \in Exports(q) : s \in Sources /\ known[s] # None /\ Passes(q, s, known[s])
    BY ExportsAre DEF ExportsOf
  <2>3. ASSUME gap'[q] \subseteq {"policy"}, NEW s \in sent'[q]
        PROVE  /\ s \in Sources
               /\ ~Waits(q, s) => view'[q][s] = known[s] /\ Passes(q, s, known[s])
               /\ Waits(q, s) /\ walk.new.withdraw => Passes(q, s, walk.new.attr)
    <3>1. CASE s \notin Exports(q)
      <4>1. s \in sent[q] /\ view'[q][s] = view[q][s]
        BY <2>1, <3>1, Zenon
      <4>2. Active(q) /\ gap[q] \subseteq {"policy"}
        BY <2>3, <4>1, Zenon
      <4>3. /\ s \in Sources
            /\ ~Waits(q, s) => view[q][s] = known[s] /\ Passes(q, s, known[s])
            /\ Waits(q, s) /\ walk.new.withdraw => Passes(q, s, walk.new.attr)
        BY <1>3, <4>1, <4>2, Zenon DEF NeighborInv, AddInv
      <4>4. QED
        BY <4>1, <4>3, Zenon
    <3>2. CASE s \in Exports(q)
      <4>1. s \in Sources /\ known[s] # None /\ Passes(q, s, known[s]) /\ view'[q][s] = known[s]
        BY <2>1, <2>2, <3>2, Zenon
      <4>2. Waits(q, s) /\ walk.new.withdraw => FALSE
        BY <4>1, Zenon DEF WalkInv, Waits, Pending
      <4>3. QED
        BY <4>1, <4>2, Zenon
    <3>3. QED
      BY <3>1, <3>2, Zenon
  <2>4. QED
    BY <1>2, <2>1, <2>3, Zenon DEF AddInv
<1>4. ASSUME q \notin AddPath, OneKindOfInternal PROVE BestInv(q)'
  <2> DEFINE b == GetBestPath(known)
  <2>1. IF DueOf(q, b) # None THEN view'[q][Zero] = DueOf(q, b)
        ELSE view'[q][Zero] \in {None, view[q][Zero]}
    BY <1>4, PassedBest, Zenon
  <2>2. sent[q] = {} => view[q][Zero] = None
    BY <1>4, ZeroSlot, Zenon DEF OutInv, Holds
  <2>3. DueOf(q, b) # None => May(q, b)
    BY Zenon DEF DueOf
  <2>4. DueOf(q, b)' = DueOf(q, b) /\ DueOf(q, walk.old)' = DueOf(q, walk.old)
    BY Zenon DEF DueOf
  <2>5. BestInv(q)
    BY <1>4 DEF NeighborInv
  <2>6. GetBestPath(known') = b
    OBVIOUS
  <2> HIDE DEF b
  <2>7. QED
    BY <1>2, <2>1, <2>2, <2>3, <2>4, <2>5, <2>6, Zenon DEF BestInv, b
<1>5. QED
  BY <1>1, <1>3, <1>4, SMTT(30) DEF NeighborInv

LEMMA DumpSyncs ==
    ASSUME KnownInv, OutInv, KnownInv', UNCHANGED <<known, rejects, walk>>,
           WalkInv, NEW q \in Peers, NeighborInv(q), Dump(q), ~Unserved(q)',
           gap'[q] \subseteq {"policy"} =>
               /\ held[q] \cap sent'[q] = {}
               /\ \/ sent[q] = {} /\ held[q] = {}
                  \/ Active(q) /\ gap[q] \subseteq gap'[q]
    PROVE  NeighborInv(q)'
<1>1. Send(q, Passed(q), TakenBack(q)) /\ held' = held
  BY DEF Dump
<1>2. QED
  BY <1>1, PassedSyncs

\* A soft reset takes back what the policy no longer lets through.
LEMMA ResetSyncs ==
    ASSUME KnownInv, OutInv, KnownInv', NEW p \in Peers, NeighborInv(p), softResetOut(p)
    PROVE  NeighborInv(p)'
<1>1. /\ walk = NoWalk /\ st[p] = "up" /\ held' = held
      /\ UNCHANGED <<known, rejects, walk, st, restarting>>
      /\ Gap(p, (gap[p] \ {"policy"}) \cup {g \in {"deferred"} : restarting[p]})
  BY Zenon DEF softResetOut, Management, grVars
<1>2. gap'[p] = (gap[p] \ {"policy"}) \cup {g \in {"deferred"} : restarting[p]}
                \cup {g \in {"flagged"} : held'[p] \cap sent'[p] # {}}
  BY <1>1 DEF Gap, OutInv
<1>3. BlankInv(p)'
  <2>1. Unserved(p)' => "deferred" \in gap'[p]
    BY <1>1, <1>2 DEF Unserved
  <2>2. QED
    BY <2>1 DEF BlankInv
<1>4. ASSUME Active(p)', gap'[p] \subseteq {"policy"}
      PROVE  Active(p) /\ gap[p] \subseteq {"policy"} /\ held'[p] \cap sent'[p] = {}
  <2>1. "flagged" \notin gap'[p]
    BY <1>4, Zenon
  <2>2. QED
    BY <1>1, <1>2, <1>4, <2>1 DEF Active
<1>5. ~Pending(p) /\ ~Pending(p)' /\ (\A s : ~Waits(p, s) /\ ~Waits(p, s)') /\ Exports(p)' = Exports(p)
  BY <1>1, ExportsAre, ExportsAreNext, Zenon DEF Pending, Waits
<1>6. ASSUME p \in AddPath PROVE AddInv(p)'
  <2>1. /\ Exports(p) \subseteq sent'[p]
        /\ \A s \in Exports(p) : view'[p][s] = known[s]
        /\ \A s \in sent'[p] \ Exports(p) : s \in sent[p] /\ view'[p][s] = view[p][s]
    <3>1. PICK W : Send(p, Passed(p), W)
      BY DEF softResetOut
    <3>2. QED
      BY <1>6, <3>1, PassedAll
  <2>2. \A s \in Exports(p) : s \in Sources /\ Passes(p, s, known[s])
    BY ExportsAre, Zenon DEF ExportsOf
  <2>3. ASSUME Active(p)', gap'[p] \subseteq {"policy"}, NEW s \in sent'[p]
        PROVE  s \in Sources /\ view'[p][s] = known[s] /\ Passes(p, s, known[s])
    BY <1>4, <1>5, <1>6, <2>1, <2>2, <2>3 DEF NeighborInv, AddInv
  <2>4. QED
    BY <1>1, <1>4, <1>5, <2>1, <2>3, Zenon DEF AddInv
<1>7. ASSUME p \notin AddPath, OneKindOfInternal PROVE BestInv(p)'
  <2> DEFINE b == GetBestPath(known)
  <2>1. view'[p][Zero] = IF b # NoPath THEN DueOf(p, b) ELSE view[p][Zero]
    BY <1>7, ResetBest, Zenon
  <2>2. DueOf(p, b)' = DueOf(p, b) /\ GetBestPath(known') = b
    BY <1>1 DEF DueOf
  <2>3. /\ DueOf(p, b) # None => May(p, b)
        /\ b = NoPath => ~May(p, b) /\ DueOf(p, b) = None
    BY DEF DueOf, May
  <2>4. BestInv(p)
    BY <1>7, Zenon DEF NeighborInv
  <2> HIDE DEF b
  <2>5. QED
    BY <1>4, <1>5, <2>1, <2>2, <2>3, <2>4, Zenon DEF BestInv, b
<1>8. QED
  BY <1>3, <1>6, <1>7, Zenon DEF NeighborInv

----------------------------------------------------------------------------
(* The walk comes by *)

LEMMA VisitBestSyncs ==
    ASSUME OneKindOfInternal, KnownInv, OutInv, WalkInv, NEW p \in Peers, p \notin AddPath,
           Pending(p), ~Pending(p)', Active(p), BestInv(p), VisitBest(p),
           UNCHANGED <<known, rejects>>, gap[p] \subseteq gap'[p]
    PROVE  BestInv(p)'
<1> DEFINE b == GetBestPath(known)
           o == walk.old
<1>1. PICK x : x = filterpath(p, ChangeOf(o, b), o)
  OBVIOUS
<1>2. b \in Bests /\ o \in Bests /\ walk.best = ChangeOf(o, b)
  BY BestIsBest, ZenonT(30) DEF KnownInv, WalkInv, Pending
<1>3. \/ x = NoPath /\ DueOf(p, o) = DueOf(p, b) /\ (May(p, o) => May(p, b))
      \/ x # NoPath /\ x.withdraw /\ DueOf(p, b) = None
      \/ x = b /\ b # NoPath /\ ~b.withdraw /\ May(p, b) /\ DueOf(p, b) = b.attr
  <2> HIDE DEF b, o
  <2>1. QED
    BY <1>1, <1>2, ChangeOutcome
<1>4. IF x = NoPath THEN UNCHANGED <<sent, view>>
      ELSE IF x.withdraw THEN Send(p, {}, {x}) ELSE Send(p, {x}, {})
  BY <1>1, <1>2, Zenon DEF VisitBest
<1>5. DueOf(p, b)' = DueOf(p, b) /\ GetBestPath(known') = b
  BY Zenon DEF DueOf
<1>6. /\ gap[p] = {} => view[p][Zero] \in {DueOf(p, b), DueOf(p, o)}
      /\ gap[p] \subseteq {"policy"} /\ view[p][Zero] # None => May(p, b) \/ May(p, o)
  BY Zenon DEF BestInv
<1> HIDE DEF b, o
<1>7. CASE x = NoPath /\ DueOf(p, o) = DueOf(p, b) /\ (May(p, o) => May(p, b))
  <2>1. view' = view
    BY <1>4, <1>7, Zenon
  <2>2. QED
    BY <1>5, <1>6, <1>7, <2>1, Zenon DEF BestInv, b
<1>8. CASE x # NoPath /\ x.withdraw /\ DueOf(p, b) = None
  <2>1. view'[p][Zero] = None
    BY <1>4, <1>8, SendEffect, ZeroSlot
  <2>2. QED
    BY <1>5, <1>8, <2>1, ZenonT(30) DEF BestInv, b
<1>9. CASE x = b /\ b # NoPath /\ ~b.withdraw /\ May(p, b) /\ DueOf(p, b) = b.attr
  <2>1. view'[p][Zero] = b.attr
    BY <1>4, <1>9, SendEffect, ZeroSlot
  <2>2. QED
    BY <1>5, <1>9, <2>1, ZenonT(30) DEF BestInv, b
<1>10. QED
  BY <1>3, <1>7, <1>8, <1>9, Zenon

\* The path of the walk at an ADD-PATH neighbor.
LEMMA NewPath ==
    ASSUME KnownInv, WalkInv, NEW p \in AddPath, Pending(p)
    PROVE  LET x == filterpath(p, walk.new, NoPath)
               s == walk.by IN
           /\ s \in Sources /\ walk.new.src = s /\ walk.new # NoPath
           /\ x = IF Passes(p, s, walk.new.attr) /\ (walk.new.withdraw \/ walk.new.attr \notin rejects)
                  THEN IF walk.new.withdraw \/ Takes(p, walk.new.attr)
                       THEN walk.new ELSE Withdraw(walk.new)
                  ELSE NoPath
<1>1. walk \in [by : Sources, new : Paths, best : Paths, old : Paths, todo : SUBSET Peers]
  BY DEF KnownInv, Pending
<1>2. walk.new.src = walk.by /\ walk.new.attr # None
  BY DEF WalkInv, Pending
<1>3. walk.new # NoPath
  BY <1>2, NoPathFacts
<1>4. p \in Peers
  BY SourceSlot
<1>5. QED
  BY <1>1, <1>2, <1>3, <1>4, FilterAlone

\* An ADD-PATH neighbor is sent one path, or one is withdrawn, or both.
LEMMA SendPath ==
    ASSUME OutInv, NEW p \in Peers, \A t : Slot(p, t) = t, NEW x, x.src \in Slots,
           Send(p, {x}, {})
    PROVE  /\ sent'[p] = sent[p] \cup {x.src}
           /\ view'[p][x.src] = x.attr
           /\ \A t \in Slots \ {x.src} : view'[p][t] = view[p][t]
<1> DEFINE A == {x}
           W == {}
<1>1. /\ sent'[p] = (sent[p] \ {Slot(p, y.src) : y \in W}) \cup {Slot(p, y.src) : y \in A}
      /\ \A i \in Slots : (\A y \in A : Slot(p, y.src) # i) =>
             view'[p][i] = IF \E y \in W : Slot(p, y.src) = i THEN None ELSE view[p][i]
      /\ \A y \in A : Slot(p, y.src) \in Slots
                      /\ (\A z \in A : Slot(p, z.src) = Slot(p, y.src) => z = y) =>
             view'[p][Slot(p, y.src)] = y.attr
  <2>1. Send(p, A, W)
    BY Zenon
  <2> HIDE DEF A, W
  <2>2. QED
    BY <2>1, SendEffect
<1>2. sent'[p] = sent[p] \cup {x.src}
  BY <1>1, ZenonT(30)
<1>3. view'[p][x.src] = x.attr
  BY <1>1, Zenon
<1>4. \A t \in Slots \ {x.src} : view'[p][t] = view[p][t]
  BY <1>1
<1>5. QED
  BY <1>2, <1>3, <1>4, Zenon

LEMMA SendWithdrawal ==
    ASSUME OutInv, NEW p \in Peers, \A t : Slot(p, t) = t, NEW y,
           NEW A, NEW W, A = {}, W = {y}, Send(p, A, W)
    PROVE  /\ sent'[p] = sent[p] \ {y.src}
           /\ \A t \in Slots \ {y.src} : view'[p][t] = view[p][t]
<1>1. /\ sent'[p] = (sent[p] \ {Slot(p, z.src) : z \in W}) \cup {Slot(p, z.src) : z \in A}
      /\ \A i \in Slots : (\A z \in A : Slot(p, z.src) # i) =>
             view'[p][i] = IF \E z \in W : Slot(p, z.src) = i THEN None ELSE view[p][i]
  BY SendEffect
<1>2. sent'[p] = sent[p] \ {y.src}
  BY <1>1
<1>3. \A t \in Slots \ {y.src} : view'[p][t] = view[p][t]
  BY <1>1
<1>4. QED
  BY <1>2, <1>3, ZenonT(30)

LEMMA SendSwap ==
    ASSUME OutInv, NEW p \in Peers, \A t : Slot(p, t) = t, NEW x, x.src \in Slots, NEW y,
           NEW A, NEW W, A = {x}, W = {y}, Send(p, A, W)
    PROVE  /\ sent'[p] = (sent[p] \ {y.src}) \cup {x.src}
           /\ view'[p][x.src] = x.attr
           /\ \A t \in Slots \ {y.src, x.src} : view'[p][t] = view[p][t]
<1>1. /\ sent'[p] = (sent[p] \ {Slot(p, z.src) : z \in W}) \cup {Slot(p, z.src) : z \in A}
      /\ \A i \in Slots : (\A z \in A : Slot(p, z.src) # i) =>
             view'[p][i] = IF \E z \in W : Slot(p, z.src) = i THEN None ELSE view[p][i]
      /\ \A v \in A : Slot(p, v.src) \in Slots
                      /\ (\A z \in A : Slot(p, z.src) = Slot(p, v.src) => z = v) =>
             view'[p][Slot(p, v.src)] = v.attr
  BY SendEffect
<1>2. sent'[p] = (sent[p] \ {y.src}) \cup {x.src}
  BY <1>1
<1>3. view'[p][x.src] = x.attr
  BY <1>1, Zenon
<1>4. \A t \in Slots \ {y.src, x.src} : view'[p][t] = view[p][t]
  BY <1>1
<1>5. QED
  BY <1>2, <1>3, <1>4, Zenon

LEMMA SentIsFinite ==
    ASSUME OutInv, NEW p \in Peers
    PROVE  IsFiniteSet(sent[p]) /\ Cardinality(sent[p]) \in Nat
<1>1. IsFiniteSet(Slots)
  BY PropagationAssumption, FS_AddElement, Zenon DEF Slots, Sources
<1>2. QED
  BY <1>1, FS_Subset, FS_CardinalityType DEF OutInv

LEMMA VisitAnnounceSyncs ==
    ASSUME KnownInv, KnownInv', OutInv, OutInv', WalkInv, NEW p \in AddPath, Pending(p), ~Pending(p)',
           ~walk.new.withdraw, Active(p), AddInv(p), VisitAnnounce(p), UNCHANGED <<known, rejects>>,
           gap[p] \subseteq gap'[p],
           gap'[p] \subseteq {"policy"} => held'[p] \cap sent'[p] = {} /\ ~Outdated(p) /\ ~Misplaced(p)
    PROVE  AddInv(p)'
<1> DEFINE s == walk.by
           x == filterpath(p, walk.new, NoPath)
<1>0. p \in Peers /\ \A t : Slot(p, t) = t
  BY SourceSlot, Zenon
<1>1. /\ s \in Sources /\ walk.new.src = s /\ walk.new # NoPath
      /\ walk.new.attr = known[s] /\ known[s] # None
      /\ IF s \in Exports(p) THEN x = walk.new ELSE x \in {NoPath, Withdraw(walk.new)}
  <2>1. walk.new.attr = known[s] /\ walk.new.attr # None
    BY Zenon DEF WalkInv, Pending
  <2>2. QED
    BY <1>0, <2>1, NewPath, ExportsAre, Zenon DEF ExportsOf
<1>2. \A t : ~Waits(p, t)' /\ (Waits(p, t) <=> t = s)
  BY Zenon DEF Waits
<1>3. Exports(p)' = Exports(p)
  BY <1>0, ExportsAre, ExportsAreNext, Zenon
<1>4. \A t \in Exports(p) : Passes(p, t, known[t])
  BY <1>0, ExportsAre, Zenon DEF ExportsOf
<1>5. CASE s \notin Exports(p)
  <2>1. Withdraw(walk.new).withdraw /\ Withdraw(walk.new).src = s /\ s \in Slots
    <3>1. walk.new \in Paths
      BY Zenon DEF KnownInv, Pending
    <3>2. QED
      BY <1>1, <3>1, WithdrawFacts, SourceSlot
  <2>2. /\ sent' = sent
        /\ held' \in {held, [held EXCEPT ![p] = @ \cup {s}]}
        /\ view' \in {view, [view EXCEPT ![p][s] = None]}
    BY <1>1, <1>5, <2>1, Zenon DEF VisitAnnounce, SendNew, outVars
  <2>3. held[p] \subseteq held'[p]
    BY <1>0, <2>2 DEF OutInv
  <2>4. \A t \in Slots \ {s} : view'[p][t] = view[p][t]
    BY <1>0, <2>2 DEF OutInv
  <2>5. gap'[p] \subseteq {"policy"} => s \notin sent[p]
    BY <1>1, <1>5, ZenonT(30) DEF Outdated, Misplaced
  <2>6. sent[p] \subseteq Slots
    BY <1>0 DEF OutInv
  <2>7. QED
    BY <1>2, <1>3, <1>5, <2>2, <2>3, <2>4, <2>5, <2>6, Zenon DEF AddInv
<1>6. CASE s \in Exports(p) /\ (s \in sent[p] \/ Cardinality(sent[p]) < SendMax)
  <2>1. Send(p, {walk.new}, {}) /\ held' = held
    BY <1>1, <1>6, Zenon DEF VisitAnnounce, SendNew
  <2>2. s \in Slots
    BY <1>1, SourceSlot, ZenonT(30)
  <2>3. /\ sent'[p] = sent[p] \cup {s}
        /\ view'[p][s] = known[s]
        /\ \A t \in Slots \ {s} : view'[p][t] = view[p][t]
    BY <1>0, <1>1, <2>1, <2>2, SendPath, SMTT(30)
  <2>4. Cardinality(sent'[p]) < SendMax => Cardinality(sent[p]) < SendMax
    <3>1. IsFiniteSet(sent[p]) /\ Cardinality(sent[p]) \in Nat
      BY <1>0, SentIsFinite, Zenon
    <3>2. Cardinality(sent[p] \cup {s}) = IF s \in sent[p] THEN Cardinality(sent[p])
                                          ELSE Cardinality(sent[p]) + 1
      BY <3>1, FS_AddElement, Zenon
    <3>3. QED
      BY <2>3, <3>1, <3>2, PropagationAssumption
  <2>5. sent[p] \subseteq Slots
    BY <1>0 DEF OutInv
  <2>6. QED
    BY <1>1, <1>2, <1>3, <1>4, <1>6, <2>1, <2>3, <2>4, <2>5, ZenonT(30) DEF AddInv
<1>7. CASE s \in Exports(p) /\ ~(s \in sent[p] \/ Cardinality(sent[p]) < SendMax)
  <2>1. held' = [held EXCEPT ![p] = @ \cup {s}] /\ UNCHANGED <<sent, view>>
    BY <1>1, <1>7, Zenon DEF VisitAnnounce
  <2>2. held'[p] = held[p] \cup {s}
    BY <1>0, <2>1, Zenon DEF OutInv
  <2>3. QED
    BY <1>2, <1>3, <1>7, <2>1, <2>2, Zenon DEF AddInv
<1>8. QED
  BY <1>5, <1>6, <1>7, Zenon

LEMMA VisitWithdrawSyncs ==
    ASSUME KnownInv, KnownInv', OutInv, OutInv', WalkInv, NEW p \in AddPath, Pending(p), ~Pending(p)',
           walk.new.withdraw, Active(p), AddInv(p), VisitWithdraw(p), UNCHANGED <<known, rejects>>,
           gap[p] \subseteq gap'[p],
           gap'[p] \subseteq {"policy"} => held'[p] \cap sent'[p] = {} /\ ~Misplaced(p)
    PROVE  AddInv(p)'
<1>a. SUFFICES ASSUME gap'[p] \subseteq {"policy"} PROVE AddInv(p)'
  BY Zenon DEF AddInv
<1> DEFINE s == walk.by
           x == filterpath(p, walk.new, NoPath)
           waiting == Waiting(p)
           next == Promoted(p)
<1>0. p \in Peers /\ (\A t : Slot(p, t) = t) /\ sent[p] \subseteq Slots
  BY SourceSlot, Zenon DEF OutInv
<1>1. /\ s \in Sources /\ s \in Slots /\ walk.new.src = s /\ walk.new # NoPath
      /\ known[s] = None
      /\ x = IF Passes(p, s, walk.new.attr) THEN walk.new ELSE NoPath
  BY NewPath, SourceSlot, Zenon DEF WalkInv, Pending
<1>2. \A t : ~Waits(p, t)' /\ (Waits(p, t) <=> t = s)
  BY Zenon DEF Waits
<1>3. Exports(p)' = Exports(p) /\ s \notin Exports(p)
  BY <1>0, <1>1, ExportsAre, ExportsAreNext, ZenonT(30) DEF ExportsOf
<1>4. \A t \in Exports(p) : t \in Sources /\ Passes(p, t, known[t])
  BY <1>0, ExportsAre DEF ExportsOf
<1>5. Exports(p) \cap held[p] \subseteq waiting
  BY <1>0, NoPathFacts, Zenon DEF Exports, Exportable, Waiting
<1>6. waiting # {} => /\ next.src \in Exports(p) /\ next.src \in held[p] /\ next.attr = known[next.src]
                      /\ {next} \ {Withdraw(next)} = {next}
                      /\ {walk.new} \cup ({next} \cap {Withdraw(next)}) = {walk.new}
  <2> SUFFICES ASSUME waiting # {}
               PROVE  /\ next.src \in Exports(p) /\ next.src \in held[p] /\ next.attr = known[next.src]
                      /\ next # Withdraw(next)
    BY Zenon
  <2> DEFINE f == First(known, waiting)
             u == CHOOSE u \in waiting : \A t \in waiting : Better(known, u, t)
  <2>1. waiting \in SUBSET Has(known) /\ known \in [Sources -> Attrs \cup {None}]
        /\ waiting \subseteq held[p]
    BY Zenon DEF KnownInv, Waiting
  <2>2. f = Path(u, known[u], FALSE)
    BY DEF First
  <2>3. f \in Paths /\ f.src \in waiting /\ ~f.withdraw
    <3> HIDE DEF waiting
    <3>1. QED
      BY <2>1, FirstIsPath, Zenon
  <2>4. ~next.withdraw
    BY <1>a, Zenon DEF Misplaced
  <2>5. next = filterpath(p, f, NoPath)
    BY DEF Promoted
  <2> HIDE DEF u, waiting, next
  <2>6. f.src = u /\ f.attr = known[u]
    BY <2>2 DEF Path
  <2> HIDE DEF f
  <2>7. next \in {f, Withdraw(f), NoPath}
    BY <1>0, <2>3, <2>5, FilterOutcome, NoPathIsPath, NoPathFacts
  <2>8. next = f
    BY <2>3, <2>4, <2>7, WithdrawFacts, NoPathFacts
  <2>9. Withdraw(next).withdraw
    BY <2>3, <2>8, WithdrawFacts
  <2>10. f.src \in Exports(p)
    BY <1>0, <2>1, <2>2, <2>3, <2>4, <2>5, <2>6, PathsOfKnown, Zenon
  <2>11. QED
    BY <2>1, <2>3, <2>4, <2>6, <2>8, <2>9, <2>10, Zenon
<1>7. \/ ~Passes(p, s, walk.new.attr) /\ UNCHANGED <<sent, held, view>>
      \/ s \in held[p] /\ held' = [held EXCEPT ![p] = @ \ {s}] /\ UNCHANGED <<sent, view>>
      \/ waiting = {} /\ Send(p, {}, {walk.new}) /\ held' = held
      \/ /\ waiting # {} /\ Send(p, {next}, {walk.new})
         /\ held' = [held EXCEPT ![p] = @ \ {next.src}]
  <2>1. x \in {NoPath, walk.new}
    BY <1>1, Zenon
  <2>2. \/ x = NoPath /\ UNCHANGED <<sent, held, view>>
        \/ x.src \in held[p] /\ held' = [held EXCEPT ![p] = @ \ {x.src}] /\ UNCHANGED <<sent, view>>
        \/ waiting = {} /\ x # NoPath /\ Send(p, {}, {x}) /\ held' = held
        \/ /\ waiting # {} /\ x # NoPath
           /\ Send(p, {next} \ {Withdraw(next)}, {x} \cup ({next} \cap {Withdraw(next)}))
           /\ held' = [held EXCEPT ![p] = @ \ {next.src}]
    BY Zenon DEF VisitWithdraw, outVars
  <2>3. x = NoPath => ~Passes(p, s, walk.new.attr) /\ UNCHANGED <<sent, held, view>>
    BY <1>1, Zenon DEF VisitWithdraw, outVars
  <2> HIDE DEF waiting, next, x
  <2>4. QED
    BY <1>1, <1>6, <2>1, <2>2, <2>3, Zenon
<1> HIDE DEF waiting, next, x
<1>8. CASE ~Passes(p, s, walk.new.attr) /\ UNCHANGED <<sent, held, view>>
  <2>1. gap'[p] \subseteq {"policy"} => s \notin sent[p]
    BY <1>2, <1>8, Zenon DEF AddInv
  <2>2. QED
    BY <1>2, <1>3, <1>8, <2>1, Zenon DEF AddInv
<1>9. CASE s \in held[p] /\ held' = [held EXCEPT ![p] = @ \ {s}] /\ UNCHANGED <<sent, view>>
  <2>1. gap'[p] \subseteq {"policy"} => s \notin sent[p]
    BY <1>9, Zenon DEF AddInv
  <2>2. held'[p] = held[p] \ {s}
    BY <1>0, <1>9, Zenon DEF OutInv
  <2>3. QED
    BY <1>2, <1>3, <1>9, <2>1, <2>2, Zenon DEF AddInv
<1>10. CASE waiting = {} /\ Send(p, {}, {walk.new}) /\ held' = held
  <2>1. /\ sent'[p] = sent[p] \ {s}
        /\ \A t \in Slots \ {s} : view'[p][t] = view[p][t]
    <3>1. PICK y, A, W : y = walk.new /\ A = {} /\ W = {y}
      BY Zenon
    <3>2. Send(p, A, W) /\ A = {} /\ W = {y} /\ y.src = s
      BY <1>1, <1>10, <3>1, Zenon
    <3>3. /\ sent'[p] = sent[p] \ {y.src}
          /\ \A t \in Slots \ {y.src} : view'[p][t] = view[p][t]
      BY <1>0, <3>2, SendWithdrawal, Zenon
    <3>4. QED
      BY <3>2, <3>3, Zenon
  <2>2. gap'[p] = {} => Exports(p) \subseteq sent'[p]
    BY <1>2, <1>3, <1>5, <1>10, <2>1, Zenon DEF AddInv
  <2>3. QED
    BY <1>0, <1>2, <1>3, <1>10, <2>1, <2>2, Zenon DEF AddInv
<1>11. CASE /\ waiting # {} /\ Send(p, {next}, {walk.new})
            /\ held' = [held EXCEPT ![p] = @ \ {next.src}]
  <2> DEFINE t == next.src
  <2>1. /\ t \in Exports(p) /\ t \in held[p] /\ t # s /\ t \in Slots /\ t \in Sources
        /\ next.attr = known[t]
    BY <1>3, <1>4, <1>6, <1>11, SourceSlot, Zenon
  <2>2. /\ sent'[p] = (sent[p] \ {s}) \cup {t}
        /\ view'[p][t] = known[t]
        /\ \A u \in Slots \ {s, t} : view'[p][u] = view[p][u]
        /\ held'[p] = held[p] \ {t}
    <3>1. /\ sent'[p] = (sent[p] \ {s}) \cup {t}
          /\ view'[p][t] = next.attr
          /\ \A u \in Slots \ {s, t} : view'[p][u] = view[p][u]
      <4>1. PICK y, A, W : y = walk.new /\ A = {next} /\ W = {y}
        BY Zenon
      <4>2. Send(p, A, W) /\ A = {next} /\ W = {y} /\ y.src = s
        BY <1>1, <1>11, <4>1
      <4>3. next.src \in Slots
        BY <2>1, SMTT(30)
      <4>4. /\ sent'[p] = (sent[p] \ {y.src}) \cup {next.src}
            /\ view'[p][next.src] = next.attr
            /\ \A u \in Slots \ {y.src, next.src} : view'[p][u] = view[p][u]
        BY <1>0, <4>2, <4>3, SendSwap
      <4>5. QED
        BY <4>2, <4>4, Zenon
    <3>2. held'[p] = held[p] \ {t}
      BY <1>0, <1>11, Zenon DEF OutInv
    <3>3. QED
      BY <2>1, <3>1, <3>2, Zenon
  <2> HIDE DEF t
  <2>3. gap'[p] = {} => ~(Cardinality(sent'[p]) < SendMax)
    <3> SUFFICES ASSUME gap'[p] = {}, Cardinality(sent'[p]) < SendMax PROVE FALSE
      BY Zenon
    <3>1. gap[p] = {} /\ t \notin sent[p]
      BY <2>1, Zenon DEF AddInv
    <3>2. IsFiniteSet(sent[p]) /\ Cardinality(sent[p]) \in Nat
      BY <1>0, SentIsFinite, Zenon
    <3>3. /\ IsFiniteSet(sent[p] \ {s})
          /\ Cardinality(sent[p] \ {s}) \in {Cardinality(sent[p]) - 1, Cardinality(sent[p])}
      BY <3>2, FS_RemoveElement, Zenon
    <3>4. Cardinality(sent'[p]) = Cardinality(sent[p] \ {s}) + 1
      BY <2>2, <3>1, <3>3, FS_AddElement, ZenonT(30)
    <3>5. Cardinality(sent[p]) < SendMax
      BY <3>2, <3>3, <3>4, PropagationAssumption
    <3>6. QED
      BY <1>2, <2>1, <3>1, <3>5, Zenon DEF AddInv
  <2>4. gap'[p] = {} => \A u \in Exports(p) : u \in sent'[p] \cup held'[p]
    BY <1>2, <1>3, <2>2, Zenon DEF AddInv
  <2>5. ASSUME gap'[p] \subseteq {"policy"}, NEW u \in sent'[p]
        PROVE  u \in Sources /\ view'[p][u] = known[u] /\ Passes(p, u, known[u])
    <3>1. CASE u = t
      BY <1>4, <2>1, <2>2, <3>1, Zenon
    <3>2. CASE u # t
      BY <1>0, <1>2, <2>2, <2>5, <3>2, Zenon DEF AddInv
    <3>3. QED
      BY <3>1, <3>2, Zenon
  <2>6. QED
    BY <1>2, <1>3, <2>3, <2>4, <2>5, Zenon DEF AddInv
<1>12. QED
  BY <1>7, <1>8, <1>9, <1>10, <1>11, Zenon

----------------------------------------------------------------------------
(* One step *)

\* A visit does nothing to the other neighbors.
LEMMA VisitOthers ==
    ASSUME KnownInv, OutInv, NEW p \in Peers, NEW q \in Peers, q # p, Visit(p)
    PROVE  SameWalk(q) /\ Untouched(q)
<1>1. walk # NoWalk /\ p \in walk.todo
      /\ walk \in [by : Sources, new : Paths, best : Paths, old : Paths, todo : SUBSET Peers]
  BY DEF Visit, KnownInv
<1>2. SameWalk(q)
  <2>1. CASE walk.todo = {p}
    <3>1. walk' = NoWalk
      BY <2>1 DEF Visit
    <3>2. QED
      BY <2>1, <3>1 DEF SameWalk, Pending
  <2>2. CASE walk.todo # {p}
    <3>1. walk' = [walk EXCEPT !.todo = @ \ {p}]
      BY <2>2 DEF Visit
    <3>2. /\ walk'.by = walk.by /\ walk'.new = walk.new /\ walk'.old = walk.old
          /\ walk'.todo = walk.todo \ {p}
      BY <1>1, <3>1
    <3>3. walk.by # Zero
      BY <1>1, PropagationAssumption
    <3>4. walk' # NoWalk
      BY <3>2, <3>3 DEF NoWalk
    <3>5. QED
      BY <1>1, <3>2, <3>4 DEF SameWalk, Pending
  <2>3. QED
    BY <2>1, <2>2
<1>3. sent'[q] = sent[q] /\ held'[q] = held[q] /\ view'[q] = view[q]
  <2>1. CASE UNCHANGED <<sent, held, view>>
    BY <2>1
  <2>2. /\ \A A, W : Send(p, A, W) => sent'[q] = sent[q] /\ view'[q] = view[q]
        /\ \A H : held' = [held EXCEPT ![p] = H] => held'[q] = held[q]
        /\ \A i : view' = [view EXCEPT ![p][i] = None] => view'[q] = view[q]
    BY SendEffect DEF OutInv
  <2>3. VisitBest(p) \/ VisitWithdraw(p) \/ VisitAnnounce(p) \/ UNCHANGED <<sent, held, view>>
    BY DEF Visit, outVars
  <2>4. CASE VisitBest(p)
    BY <2>2, <2>4 DEF VisitBest
  <2>5. CASE VisitWithdraw(p)
    BY <2>2, <2>5 DEF VisitWithdraw, outVars
  <2>6. CASE VisitAnnounce(p)
    BY <2>2, <2>6 DEF VisitAnnounce, SendNew, outVars
  <2>7. QED
    BY <2>1, <2>3, <2>4, <2>5, <2>6
<1>4. gap'[q] = gap[q]
  <2>1. \A G : gap' = [gap EXCEPT ![p] = G] => gap'[q] = gap[q]
    BY DEF OutInv
  <2>2. QED
    BY <2>1 DEF Visit, Gap
<1>5. /\ st'[q] = st[q] \/ (st[q] = "dropping" /\ st'[q] = "down")
      /\ UNCHANGED <<rejects, restarting>>
  BY DEF Visit, grVars
<1>6. QED
  BY <1>2, <1>3, <1>4, <1>5 DEF Untouched, Active, Unserved

LEMMA VisitSyncs ==
    ASSUME KnownInv, KnownInv', OutInv, OutInv', WalkInv, NEW p \in Peers, Visit(p), NeighborInv(p)
    PROVE  NeighborInv(p)'
<1>1. Pending(p) /\ ~Pending(p)'
  <2>1. walk # NoWalk /\ p \in walk.todo
        /\ walk \in [by : Sources, new : Paths, best : Paths, old : Paths, todo : SUBSET Peers]
    BY DEF Visit, KnownInv
  <2>2. walk' = NoWalk \/ p \notin walk'.todo
    BY <2>1 DEF Visit
  <2>3. QED
    BY <2>1, <2>2 DEF Pending
<1>2. /\ st'[p] = st[p] \/ (st[p] = "dropping" /\ st'[p] = "down")
      /\ UNCHANGED <<known, rejects, restarting>>
  BY DEF Visit, grVars
<1>3. CASE ~needToAdvertise(p)
  <2>1. /\ UNCHANGED <<sent, held, view>>
        /\ gap'[p] = IF st[p] \in {"syncing", "storing"} THEN gap[p] \cup {"window"} ELSE gap[p]
    BY <1>3 DEF Visit, outVars, OutInv
  <2>2. BlankInv(p)'
    BY <1>2, <2>1 DEF NeighborInv, BlankInv, Unserved
  <2>3. Active(p)' => "window" \in gap'[p]
    BY <1>2, <1>3, <2>1 DEF Active, needToAdvertise
  <2>4. QED
    BY <2>2, <2>3 DEF NeighborInv, AddInv, BestInv
<1>4. CASE needToAdvertise(p)
  <2>1. Active(p) /\ ~Unserved(p)'
    BY <1>2, <1>4 DEF needToAdvertise, Active, Unserved
  <2>2. gap'[p] = gap[p] \cup {g \in {"replaced"} : Outdated(p)}
                  \cup {g \in {"stale"} : Misplaced(p)}
                  \cup {g \in {"flagged"} : held'[p] \cap sent'[p] # {}}
    BY <1>4 DEF Visit, Gap, OutInv
  <2>3. /\ gap[p] \subseteq gap'[p]
        /\ gap'[p] \subseteq {"policy"} => held'[p] \cap sent'[p] = {} /\ ~Outdated(p) /\ ~Misplaced(p)
    BY <2>2
  <2>4. BlankInv(p)'
    BY <2>1 DEF BlankInv
  <2>5. p \in AddPath => AddInv(p)'
    <3>1. p \in AddPath /\ walk.new.withdraw => VisitWithdraw(p)
      BY <1>4 DEF Visit
    <3>2. p \in AddPath /\ ~walk.new.withdraw => VisitAnnounce(p)
      BY <1>4 DEF Visit
    <3>3. p \in AddPath => AddInv(p)
      BY DEF NeighborInv
    <3>4. QED
      BY <1>1, <1>2, <2>1, <2>3, <3>1, <3>2, <3>3, VisitWithdrawSyncs, VisitAnnounceSyncs, SMTT(30)
  <2>6. p \notin AddPath /\ OneKindOfInternal => BestInv(p)'
    <3>1. p \notin AddPath => VisitBest(p)
      BY <1>4 DEF Visit
    <3>2. p \notin AddPath /\ OneKindOfInternal => BestInv(p)
      BY DEF NeighborInv
    <3>3. QED
      BY <1>1, <1>2, <2>1, <2>3, <3>1, <3>2, VisitBestSyncs, SMTT(30)
  <2>7. QED
    BY <2>4, <2>5, <2>6 DEF NeighborInv
<1>5. QED
  BY <1>3, <1>4

----------------------------------------------------------------------------
(* The steps *)

LEMMA EstablishSyncs ==
    ASSUME KnownInv, KnownInv', OutInv, DeferralInv, WalkInv, NEW p \in Peers, NEW bit \in BOOLEAN,
           Establish(p, bit), NEW q \in Peers, NeighborInv(q)
    PROVE  NeighborInv(q)'
<1>1. UNCHANGED <<known, rejects, walk, restarting>> /\ st[p] = "down" /\ SameWalk(q)
      /\ st \in [Peers -> States]
  BY DEF Establish, SameWalk, Pending, DeferralInv
<1>2. CASE q # p
  <2>1. st'[q] = st[q] /\ gap'[q] = gap[q]
    BY <1>1, <1>2 DEF Establish, OutInv
  <2>2. sent'[q] = sent[q] /\ held'[q] = held[q] /\ view'[q] = view[q]
    <3>1. CASE Dump(p)
      BY <1>2, <3>1, SendEffect DEF Dump
    <3>2. CASE UNCHANGED <<sent, held, view>>
      BY <3>2
    <3>3. QED
      BY <3>1, <3>2 DEF Establish, outVars
  <2>3. Untouched(q)
    BY <1>1, <2>1, <2>2, SMTT(30) DEF Untouched, Active, Unserved
  <2>4. QED
    BY <1>1, <2>3, UntouchedKeeps
<1>3. CASE q = p /\ restarting[p]
  <2>1. UNCHANGED <<sent, held, view, gap>>
    BY <1>3 DEF Establish, outVars
  <2>2. Untouched(q)
    BY <1>1, <1>3, <2>1 DEF Untouched, Active, Unserved
  <2>3. QED
    BY <1>1, <2>2, UntouchedKeeps
<1>4. CASE q = p /\ ~restarting[p]
  <2>1. Dump(p) /\ st'[p] = "storing" /\ gap'[p] = gap[p] \ {"policy"}
    BY <1>1, <1>4, SMTT(30) DEF Establish, OutInv
  <2>2. gap'[p] \subseteq {"policy"} => sent[p] = {} /\ held[p] = {}
    BY <1>1, <1>4, <2>1 DEF NeighborInv, BlankInv, Unserved
  <2>3. ~Unserved(p)'
    BY <1>1, <1>4, <2>1 DEF Unserved
  <2>4. QED
    BY <1>1, <1>4, <2>1, <2>2, <2>3, DumpSyncs, SMTT(30)
<1>5. QED
  BY <1>2, <1>3, <1>4

LEMMA SyncNextSyncs ==
    ASSUME KnownInv, KnownInv', OutInv, DeferralInv, SyncInv, NEW p \in Peers, NEW r \in Peers,
           SyncNext(p, r), NEW q \in Peers
    PROVE  NeighborInv(q)'
<1>1. /\ UNCHANGED <<known, rejects, walk>> /\ SameWalk(q) /\ NeighborInv(q) /\ WalkInv
      /\ st \in [Peers -> States] /\ restarting \in [Peers -> BOOLEAN]
      /\ st[p] \in {"syncing", "up"}
      /\ \A t \in Peers : restarting[t] => t \in Graceful
  BY DEF SyncNext, SameWalk, Pending, DeferralInv, SyncInv
<1>2. /\ st'[q] = st[q] \/ (q = p /\ st[p] = "syncing" /\ st'[p] = "storing")
      /\ restarting'[q] = (IF q = r THEN FALSE ELSE restarting[q])
  BY <1>1 DEF SyncNext
<1>3. CASE q # r \/ r \notin Graceful
  <2>1. restarting'[q] = restarting[q]
    <3>1. restarting[q] \in BOOLEAN
      BY <1>1
    <3>2. q = r => ~restarting[q]
      BY <1>1, <1>3
    <3>3. q = r => restarting[q] = FALSE
      BY <3>1, <3>2, Zenon
    <3>4. QED
      BY <1>2, <3>3, Zenon
  <2>2. sent'[q] = sent[q] /\ held'[q] = held[q] /\ view'[q] = view[q] /\ gap'[q] = gap[q]
    <3>1. CASE r \notin Graceful
      BY <3>1 DEF SyncNext, outVars
    <3>2. CASE r \in Graceful
      <4>1. Dump(r) /\ q # r
        BY <1>3, <3>2, SMTT(30) DEF SyncNext
      <4>2. gap'[q] = gap[q]
        BY <3>2, <4>1 DEF SyncNext, Gap, OutInv
      <4>3. QED
        BY <4>1, <4>2, SendEffect DEF Dump
    <3>3. QED
      BY <3>1, <3>2
  <2>3. Untouched(q)
    BY <1>1, <1>2, <2>1, <2>2, Zenon DEF Untouched, Active, Unserved
  <2>4. QED
    BY <1>1, <2>3, UntouchedKeeps
<1>4. CASE q = r /\ r \in Graceful
  <2>1. Dump(q) /\ Gap(q, gap[q] \cup {g \in {"early"} : q # p /\ st[q] # "up"})
    BY <1>4 DEF SyncNext
  <2>2. gap'[q] = gap[q] \cup {g \in {"early"} : q # p /\ st[q] # "up"}
                  \cup {g \in {"flagged"} : held'[q] \cap sent'[q] # {}}
    BY <2>1 DEF Gap, OutInv
  <2>3. held' = held
    BY <2>1 DEF Dump
  <2>4. CASE q # p /\ st[q] # "up"
    <3>1. "early" \in gap'[q]
      BY <2>2, <2>4
    <3>2. QED
      BY <3>1 DEF NeighborInv, BlankInv, AddInv, BestInv
  <2>5. CASE q = p \/ st[q] = "up"
    <3>1. st[q] \in {"syncing", "up"} /\ ~Unserved(q)'
      BY <1>1, <1>2, <1>4, <2>5, Zenon DEF Unserved
    <3>2. ASSUME gap'[q] \subseteq {"policy"}
          PROVE  /\ held[q] \cap sent'[q] = {}
                 /\ \/ sent[q] = {} /\ held[q] = {}
                    \/ Active(q) /\ gap[q] \subseteq gap'[q]
      <4>1. gap[q] \subseteq gap'[q] /\ "flagged" \notin gap'[q] /\ gap[q] \cap {"early", "deferred"} = {}
        BY <2>2, <3>2
      <4>2. held[q] \cap sent'[q] = {}
        BY <2>2, <2>3, <4>1
      <4>3. restarting[q] => sent[q] = {} /\ held[q] = {}
        BY <1>1, <3>1, <4>1 DEF NeighborInv, BlankInv, Unserved
      <4>4. ~restarting[q] => Active(q)
        BY <1>1, <3>1 DEF Active
      <4>5. QED
        BY <4>1, <4>2, <4>3, <4>4
    <3>3. QED
      BY <1>1, <2>1, <3>1, <3>2, DumpSyncs, Zenon
  <2>6. QED
    BY <2>4, <2>5
<1>5. QED
  BY <1>3, <1>4

LEMMA RefreshSyncs ==
    ASSUME KnownInv, KnownInv', OutInv, DeferralInv, WalkInv, NEW p \in Peers,
           handleRouteRefresh(p), NEW q \in Peers, NeighborInv(q)
    PROVE  NeighborInv(q)'
<1>1. /\ UNCHANGED <<known, rejects, walk, st, restarting>> /\ SameWalk(q) /\ st[p] = "up"
      /\ Dump(p) /\ held' = held
      /\ Gap(p, gap[p] \cup {g \in {"deferred"} : restarting[p]})
  BY DEF handleRouteRefresh, grVars, SameWalk, Pending, Dump
<1>2. CASE q # p
  <2>1. gap'[q] = gap[q]
    BY <1>1, <1>2, Zenon DEF Gap, OutInv
  <2>2. sent'[q] = sent[q] /\ view'[q] = view[q]
    BY <1>1, <1>2, SendEffect, Zenon DEF Dump
  <2>3. Untouched(q)
    BY <1>1, <2>1, <2>2 DEF Untouched, Active, Unserved
  <2>4. QED
    BY <1>1, <2>3, UntouchedKeeps, Zenon
<1>3. CASE q = p
  <2>1. gap'[p] = gap[p] \cup {g \in {"deferred"} : restarting[p]}
                  \cup {g \in {"flagged"} : held'[p] \cap sent'[p] # {}}
    BY <1>1, ZenonT(30) DEF Gap, OutInv
  <2>2. CASE restarting[p]
    <3>1. "deferred" \in gap'[p]
      BY <2>1, <2>2, Zenon
    <3>2. QED
      BY <1>3, <3>1, Zenon DEF NeighborInv, BlankInv, AddInv, BestInv
  <2>3. CASE ~restarting[p]
    <3>1. Active(p) /\ ~Unserved(p)'
      BY <1>1, <2>3 DEF Active, Unserved
    <3>2. ASSUME gap'[p] \subseteq {"policy"}
          PROVE  held[p] \cap sent'[p] = {} /\ gap[p] \subseteq gap'[p]
      <4>1. "flagged" \notin gap'[p]
        BY <3>2
      <4>2. QED
        BY <1>1, <2>1, <4>1
    <3>3. QED
      BY <1>1, <1>3, <3>1, <3>2, DumpSyncs, ZenonT(30)
  <2>4. QED
    BY <2>2, <2>3
<1>4. QED
  BY <1>2, <1>3

LEMMA SoftResetSyncs ==
    ASSUME KnownInv, KnownInv', OutInv, NEW p \in Peers, softResetOut(p),
           NEW q \in Peers, NeighborInv(q)
    PROVE  NeighborInv(q)'
<1>1. UNCHANGED <<known, rejects, walk, st, restarting, held>> /\ SameWalk(q)
  BY DEF softResetOut, grVars, SameWalk, Pending
<1>2. CASE q # p
  <2>1. gap'[q] = gap[q]
    BY <1>2, Zenon DEF softResetOut, Gap, OutInv
  <2>2. PICK A, W : Send(p, A, W)
    BY Zenon DEF softResetOut
  <2>3. sent'[q] = sent[q] /\ view'[q] = view[q]
    BY <1>2, <2>2, SendEffect
  <2>4. Untouched(q)
    BY <1>1, <2>1, <2>3 DEF Untouched, Active, Unserved
  <2>5. QED
    BY <1>1, <2>4, UntouchedKeeps, Zenon
<1>3. QED
  BY <1>2, ResetSyncs

LEMMA ExpiredSyncs ==
    ASSUME KnownInv, KnownInv', OutInv, DeferralInv, WalkInv, NEW p \in Peers,
           DeferralExpired(p), NEW q \in Peers, NeighborInv(q)
    PROVE  NeighborInv(q)'
<1>1. /\ UNCHANGED <<known, rejects, walk, st, gap>> /\ SameWalk(q)
      /\ restarting \in [Peers -> BOOLEAN]
  BY DEF DeferralExpired, SameWalk, Pending, DeferralInv
<1>2. CASE ~(st[p] = "up" /\ restarting[p])
  <2>1. UNCHANGED <<restarting, sent, held, view>>
    BY <1>2 DEF DeferralExpired, outVars
  <2>2. Untouched(q)
    BY <1>1, <2>1, Zenon DEF Untouched, Active, Unserved
  <2>3. QED
    BY <1>1, <2>2, UntouchedKeeps
<1>3. CASE st[p] = "up" /\ restarting[p]
  <2>1. PICK W : /\ Send(p, Passed(p), W) /\ restarting' = [restarting EXCEPT ![p] = FALSE]
                 /\ held' = held
    BY <1>3, Zenon DEF DeferralExpired
  <2>2. CASE q # p
    <3>1. sent'[q] = sent[q] /\ view'[q] = view[q] /\ restarting'[q] = restarting[q]
      BY <1>1, <2>1, <2>2, SendEffect, Zenon
    <3>2. Untouched(q)
      BY <1>1, <2>1, <3>1, Zenon DEF Untouched, Active, Unserved
    <3>3. QED
      BY <1>1, <3>2, UntouchedKeeps
  <2>3. CASE q = p
    <3>1. gap'[p] \subseteq {"policy"} => sent[p] = {} /\ held[p] = {}
      BY <1>1, <1>3, <2>3 DEF NeighborInv, BlankInv, Unserved
    <3>2. ~Unserved(p)'
      BY <1>1, <1>3, <2>1 DEF Unserved
    <3>3. QED
      BY <1>1, <2>1, <2>3, <3>1, <3>2, PassedSyncs, SMTT(30)
  <2>4. QED
    BY <2>2, <2>3
<1>4. QED
  BY <1>2, <1>3

\* The neighbors, step by step.
LEMMA NeighborsNext ==
    ASSUME KnownInv, KnownInv', OutInv, OutInv', DeferralInv, SyncInv, [Next]_vars
    PROVE  \A q \in Peers : NeighborInv(q)'
<1> SUFFICES ASSUME NEW q \in Peers PROVE NeighborInv(q)'
  OBVIOUS
<1>0. WalkInv /\ NeighborInv(q) /\ st \in [Peers -> States] /\ restarting \in [Peers -> BOOLEAN]
  BY DEF SyncInv, DeferralInv
<1>s. UNCHANGED walk => SameWalk(q)
  BY DEF SameWalk, Pending
<1>1. CASE UNCHANGED vars
  <2>1. UNCHANGED <<known, rejects, walk, st, restarting, sent, held, view, gap>>
    BY <1>1 DEF vars, outVars, grVars
  <2>2. Untouched(q)
    BY <2>1 DEF Untouched, Active, Unserved
  <2>3. QED
    BY <1>0, <1>s, <2>1, <2>2, UntouchedKeeps, Zenon
<1>2. ASSUME NEW s \in Sources, NEW a \in Attrs \cup {None}, Begin(s, a),
             UNCHANGED <<rejects, st, outVars, grVars, gap>>
      PROVE  NeighborInv(q)'
  <2>1. UNCHANGED <<rejects, sent, held, view, gap, st, restarting>>
    BY <1>2 DEF outVars, grVars
  <2>2. Active(q)' => Active(q)
    BY <2>1 DEF Active
  <2>3. Unserved(q)' => Unserved(q)
    BY <2>1 DEF Unserved
  <2>4. QED
    BY <1>0, <1>2, <2>1, <2>2, <2>3, BeginKeeps, Zenon
<1>3. ASSUME NEW a \in Attrs \cup {None}, LocalPath(a) PROVE NeighborInv(q)'
  BY <1>2, <1>3 DEF LocalPath, Sources
<1>4. ASSUME NEW R \in Policies, SetPolicy(R) PROVE NeighborInv(q)'
  <2>1. /\ UNCHANGED <<known, walk, st, sent, held, view, restarting>>
        /\ st[q] \in {"down", "storing", "up"}
    BY <1>4 DEF SetPolicy, Management, outVars, grVars
  <2>2. gap'[q] = IF st[q] = "down" THEN gap[q] ELSE gap[q] \cup {"policy"}
    BY <1>4 DEF SetPolicy
  <2>3. Untouched(q)
    BY <2>1, <2>2 DEF Untouched, Active, Unserved
  <2>4. QED
    BY <1>0, <1>s, <2>1, <2>3, UntouchedKeeps, Zenon
<1>5. ASSUME NEW p \in Peers, NEW a \in Attrs \cup {None}, HandleUpdate(p, a) PROVE NeighborInv(q)'
  BY <1>2, <1>5 DEF HandleUpdate, Sources
<1>6. ASSUME NEW p \in Peers, NEW a \in Stale \cup {None}, RestartFailed(p, a) PROVE NeighborInv(q)'
  BY <1>2, <1>6, PropagationAssumption DEF RestartFailed, Sources
<1>7. ASSUME NEW p \in Peers, Store(p) \/ HandleEOR(p) \/ PeerDown(p) PROVE NeighborInv(q)'
  <2>1. UNCHANGED <<known, rejects, walk, sent, held, view, gap, restarting>>
    BY <1>7 DEF Store, HandleEOR, PeerDown, outVars, grVars
  <2>2. /\ st'[q] = st[q] \/ (st[q] = "storing" /\ st'[q] = "up") \/ st'[q] = "closing"
    BY <1>0, <1>7, Zenon DEF Store, HandleEOR, PeerDown
  <2>3. Untouched(q)
    BY <2>1, <2>2 DEF Untouched, Active, Unserved
  <2>4. QED
    BY <1>0, <1>s, <2>1, <2>3, UntouchedKeeps, ZenonT(30)
<1>8. ASSUME NEW p \in Peers, resetAdvertisedRoutes(p) PROVE NeighborInv(q)'
  <2>1. UNCHANGED <<known, rejects, walk, restarting>>
    BY <1>8, Zenon DEF resetAdvertisedRoutes, grVars
  <2>2. CASE q = p
    <3>1. sent'[q] = {} /\ held'[q] = {} /\ st'[q] = "dropping"
      BY <1>0, <1>8, <2>2 DEF resetAdvertisedRoutes, OutInv
    <3>2. QED
      BY <3>1, Zenon DEF NeighborInv, BlankInv, AddInv, BestInv, Active
  <2>3. CASE q # p
    <3>1. /\ sent'[q] = sent[q] /\ held'[q] = held[q] /\ view'[q] = view[q]
          /\ gap'[q] = gap[q] /\ st'[q] = st[q]
      BY <1>0, <1>8, <2>3, Zenon DEF resetAdvertisedRoutes, OutInv
    <3>2. Untouched(q)
      BY <2>1, <3>1, Zenon DEF Untouched, Active, Unserved
    <3>3. QED
      BY <1>0, <1>s, <2>1, <3>2, UntouchedKeeps, Zenon
  <2>4. QED
    BY <2>2, <2>3
<1>9. ASSUME NEW p \in Peers, dropAdjRIBIn(p) PROVE NeighborInv(q)'
  <2>1. CASE Begin(p, None) /\ UNCHANGED st
    BY <1>2, <1>9, <2>1 DEF dropAdjRIBIn, Sources
  <2>2. CASE st' = [st EXCEPT ![p] = "down"] /\ UNCHANGED <<known, walk>>
    <3>1. UNCHANGED <<rejects, sent, held, view, gap, restarting>> /\ st[p] = "dropping"
      BY <1>9 DEF dropAdjRIBIn, outVars, grVars
    <3>2. st'[q] = st[q] \/ (st[q] = "dropping" /\ st'[q] = "down")
      BY <1>0, <2>2, <3>1, Zenon
    <3>3. Untouched(q)
      BY <3>1, <3>2 DEF Untouched, Active, Unserved
    <3>4. QED
      BY <1>0, <1>s, <2>2, <3>3, UntouchedKeeps, ZenonT(30)
  <2>3. QED
    BY <1>9, <2>1, <2>2, Zenon DEF dropAdjRIBIn
<1>10. ASSUME NEW p \in Peers, Visit(p) PROVE NeighborInv(q)'
  <2>1. known' = known
    BY <1>10 DEF Visit
  <2>2. CASE q = p
    BY <1>0, <1>10, <2>2, VisitSyncs
  <2>3. CASE q # p
    BY <1>0, <1>10, <2>1, <2>3, VisitOthers, UntouchedKeeps, Zenon
  <2>4. QED
    BY <2>2, <2>3
<1>11. ASSUME NEW p \in Peers, Neighbor(p) PROVE NeighborInv(q)'
  BY <1>0, <1>5, <1>6, <1>7, <1>8, <1>9, <1>10, <1>11, EstablishSyncs, SyncNextSyncs, RefreshSyncs,
     SoftResetSyncs, ExpiredSyncs, SMTT(30) DEF Neighbor
<1>12. QED
  BY <1>1, <1>3, <1>4, <1>11 DEF Next, Operator

LEMMA WalkNext ==
    ASSUME KnownInv, KnownInv', WalkInv, [Next]_vars
    PROVE  WalkInv'
<1>1. UNCHANGED <<known, walk>> => WalkInv'
  BY DEF WalkInv
<1>2. ASSUME NEW a \in Attrs \cup {None}, LocalPath(a) PROVE WalkInv'
  BY <1>2, BeginWalk DEF LocalPath, Sources
<1>3. ASSUME NEW p \in Peers, NEW a \in Attrs \cup {None}, HandleUpdate(p, a) PROVE WalkInv'
  BY <1>3, BeginWalk DEF HandleUpdate, Sources
<1>r. ASSUME NEW p \in Peers, NEW a \in Stale \cup {None}, RestartFailed(p, a) PROVE WalkInv'
  BY <1>r, BeginWalk, PropagationAssumption DEF RestartFailed, Sources
<1>4. ASSUME NEW p \in Peers, dropAdjRIBIn(p) PROVE WalkInv'
  BY <1>1, <1>4, BeginWalk DEF dropAdjRIBIn, Sources
<1>5. ASSUME NEW p \in Peers, Visit(p) PROVE WalkInv'
  <2>1. /\ walk # NoWalk /\ known' = known
        /\ walk \in [by : Sources, new : Paths, best : Paths, old : Paths, todo : SUBSET Peers]
        /\ walk' = NoWalk \/ walk' = [walk EXCEPT !.todo = @ \ {p}]
    BY <1>5 DEF Visit, KnownInv
  <2>2. walk' = NoWalk \/ (/\ walk'.by = walk.by /\ walk'.new = walk.new
                           /\ walk'.best = walk.best /\ walk'.old = walk.old)
    BY <2>1, Zenon
  <2>3. QED
    BY <2>1, <2>2 DEF WalkInv
<1>6. ASSUME NEW p \in Peers, Neighbor(p) PROVE WalkInv'
  BY <1>1, <1>3, <1>r, <1>4, <1>5, <1>6, Zenon DEF Neighbor, Establish, Store, HandleEOR, handleRouteRefresh,
     SyncNext, PeerDown, resetAdvertisedRoutes, softResetOut, DeferralExpired
<1>7. QED
  BY <1>1, <1>2, <1>6, Zenon DEF Next, Operator, SetPolicy, vars

\* Deferral and dumps of all neighbors are for graceful and live neighbors.
LEMMA ServiceNext ==
    ASSUME KnownInv, DeferralInv, SyncInv, [Next]_vars, NEW q \in Peers
    PROVE  /\ restarting'[q] => q \in Graceful
           /\ sync'[q] # {} => st'[q] \in {"syncing", "up"}
<1>1. /\ restarting[q] => q \in Graceful
      /\ sync[q] # {} => st[q] \in {"syncing", "up"}
      /\ st \in [Peers -> States] /\ restarting \in [Peers -> BOOLEAN]
      /\ sync \in [Peers -> SUBSET Peers]
  BY DEF SyncInv, DeferralInv
<1>2. restarting'[q] => q \in Graceful
  <2>1. restarting'[q] => restarting[q]
    BY <1>1, ZenonT(30) DEF Next, Operator, Neighbor, LocalPath, SetPolicy, HandleUpdate, Establish, Store,
       HandleEOR, handleRouteRefresh, SyncNext, PeerDown, resetAdvertisedRoutes, dropAdjRIBIn,
       RestartFailed, softResetOut, DeferralExpired, Visit, grVars, vars
  <2>2. QED
    BY <1>1, <2>1, SMTT(30)
<1>3. UNCHANGED <<st, sync>> => (sync'[q] # {} => st'[q] \in {"syncing", "up"})
  BY <1>1
<1>4. ASSUME NEW p \in Peers, NEW bit \in BOOLEAN, Establish(p, bit)
      PROVE  sync'[q] # {} => st'[q] \in {"syncing", "up"}
  BY <1>1, <1>4 DEF Establish, Idle
<1>5. ASSUME NEW p \in Peers, Store(p) \/ HandleEOR(p) \/ PeerDown(p) \/ resetAdvertisedRoutes(p)
      PROVE  sync'[q] # {} => st'[q] \in {"syncing", "up"}
  BY <1>1, <1>5 DEF Store, HandleEOR, PeerDown, resetAdvertisedRoutes, Idle
<1>6. ASSUME NEW p \in Peers, NEW r \in Peers, SyncNext(p, r)
      PROVE  sync'[q] # {} => st'[q] \in {"syncing", "up"}
  BY <1>1, <1>6 DEF SyncNext
<1>7. ASSUME NEW p \in Peers, dropAdjRIBIn(p) \/ Visit(p)
      PROVE  sync'[q] # {} => st'[q] \in {"syncing", "up"}
  BY <1>1, <1>7 DEF dropAdjRIBIn, Visit
<1>8. ASSUME NEW p \in Peers, Neighbor(p) PROVE sync'[q] # {} => st'[q] \in {"syncing", "up"}
  BY <1>3, <1>4, <1>5, <1>6, <1>7, <1>8, Zenon DEF Neighbor, HandleUpdate, handleRouteRefresh,
     RestartFailed, softResetOut, DeferralExpired
<1>9. QED
  BY <1>2, <1>3, <1>8 DEF Next, Operator, LocalPath, SetPolicy, vars

LEMMA SyncInit == Init => SyncInv
<1> SUFFICES ASSUME Init PROVE SyncInv
  OBVIOUS
<1>1. /\ walk = NoWalk
      /\ \A p \in Peers : /\ restarting[p] => p \in Graceful
                          /\ sync[p] = {} /\ sent[p] = {} /\ held[p] = {} /\ gap[p] = {}
                          /\ view[p][Zero] = None
  <2>1. Zero \in Slots
    BY DEF Slots
  <2>2. QED
    BY <2>1, Zenon DEF Init
<1>2. Has(known) = {} /\ GetBestPath(known) = NoPath
  BY DEF Init, Has, GetBestPath
<1>3. ASSUME NEW p \in Peers PROVE NeighborInv(p)
  <2>1. Exports(p) = {}
    BY <1>2 DEF Exports
  <2>2. DueOf(p, GetBestPath(known)) = None
    BY <1>2, Zenon DEF DueOf, May
  <2>3. QED
    BY <1>1, <2>1, <2>2, Zenon DEF NeighborInv, BlankInv, AddInv, BestInv
<1>4. QED
  BY <1>1, <1>3 DEF SyncInv, WalkInv

LEMMA SyncNextStep ==
    KnownInv /\ KnownInv' /\ OutInv /\ OutInv' /\ DeferralInv /\ SyncInv /\ [Next]_vars => SyncInv'
<1> SUFFICES ASSUME KnownInv, KnownInv', OutInv, OutInv', DeferralInv, SyncInv, [Next]_vars PROVE SyncInv'
  OBVIOUS
<1>1. WalkInv'
  BY WalkNext DEF SyncInv
<1>2. \A p \in Peers : NeighborInv(p)'
  BY NeighborsNext
<1>3. QED
  BY <1>1, <1>2, ServiceNext, Zenon DEF SyncInv

----------------------------------------------------------------------------
(* What the neighbors hold *)

\* InSync for every set of neighbors, table and policy: the changes of the best
\* path that the walks send (GetChanges, filterpath and propagateUpdateToNeighbors,
\* server.go:1531) leave each established neighbor without ADD-PATH with the
\* best path it may have, provided the internal neighbors are all reflector
\* clients or none is.
THEOREM InSyncCorrect ==
    ASSUME OneKindOfInternal
    PROVE  Spec => []InSync
<1>1. KnownInv /\ SyncInv => InSync
  <2> SUFFICES ASSUME KnownInv, SyncInv, NEW p \in Peers \ AddPath, Settled(p)
               PROVE  view[p][Zero] = Due(p)
    BY DEF InSync
  <2>1. Active(p) /\ gap[p] = {} /\ ~Pending(p)
    BY Zenon DEF Settled, Active, Pending
  <2>2. view[p][Zero] = DueOf(p, GetBestPath(known))
    BY <2>1 DEF SyncInv, NeighborInv, BestInv
  <2>3. QED
    BY <2>2, DueIs
<1>2. QED
  BY <1>1, OutInit, OutNext, KnownNext, DeferralInit, DeferralNext, SyncInit, SyncNextStep, PTL DEF Spec

\* AddPathInSync for every set of neighbors, table, policy and send-max: no path
\* due to an ADD-PATH neighbor is forgotten or held back while there is room,
\* and none outlives its withdrawal or its replacement, but for the gaps that
\* Propagation names: a walk or a policy missed, a path both sent and held back,
\* a new version that was filtered, and a long-lived stale path withdrawn without
\* the record or given the place of another (server.go:1574-1651).
THEOREM AddPathInSyncCorrect == Spec => []AddPathInSync
<1>1. KnownInv /\ OutInv /\ SyncInv => AddPathInSync
  <2> SUFFICES ASSUME KnownInv, OutInv, SyncInv, NEW p \in AddPath, Settled(p)
               PROVE  /\ Exports(p) \subseteq Holds(p) \cup held[p]
                      /\ Cardinality(Holds(p)) < SendMax => Exports(p) \subseteq Holds(p)
                      /\ \A s \in Holds(p) : view[p][s] = known[s]
    BY DEF AddPathInSync, NothingForgotten, NoIdleRoom, NoGhostPath
  <2>1. Active(p) /\ gap[p] = {} /\ \A s : ~Waits(p, s)
    BY DEF Settled, Active, Pending, Waits
  <2>2. p \in Peers
    BY SourceSlot
  <2>3. sent[p] = Holds(p)
    BY <2>1, <2>2 DEF OutInv
  <2>4. AddInv(p)
    BY <2>2 DEF SyncInv, NeighborInv
  <2>5. QED
    BY <2>1, <2>3, <2>4, Zenon DEF AddInv
<1>2. QED
  BY <1>1, OutInit, OutNext, KnownNext, DeferralInit, DeferralNext, SyncInit, SyncNextStep, PTL DEF Spec

\* All that a neighbor without ADD-PATH is sent has one path identifier.
OneSlot == \A p \in Peers \ AddPath : sent[p] \subseteq {Zero}

LEMMA OneSlotNext == OutInv /\ OneSlot /\ [Next]_vars => OneSlot'
<1> SUFFICES ASSUME OutInv, OneSlot, [Next]_vars PROVE OneSlot'
  OBVIOUS
<1>1. UNCHANGED sent => OneSlot'
  BY DEF OneSlot
<1>2. ASSUME NEW p \in Peers, NEW A, NEW W, Send(p, A, W) PROVE OneSlot'
  <2>1. \A q \in Peers \ {p} : sent'[q] = sent[q]
    BY <1>2, SendEffect, Zenon
  <2>2. sent'[p] = (sent[p] \ {Slot(p, x.src) : x \in W}) \cup {Slot(p, x.src) : x \in A}
    BY <1>2, SendEffect, SMTT(60)
  <2>3. p \notin AddPath => \A x \in A : Slot(p, x.src) = Zero
    BY DEF Slot
  <2>4. p \notin AddPath => sent'[p] \subseteq {Zero}
    BY <2>2, <2>3 DEF OneSlot
  <2>5. QED
    BY <2>1, <2>4, Zenon DEF OneSlot
<1>3. ASSUME NEW p \in Peers, Dump(p) PROVE OneSlot'
  BY <1>2, <1>3, Zenon DEF Dump
<1>4. ASSUME NEW p \in Peers, softResetOut(p) PROVE OneSlot'
  BY <1>2, <1>4 DEF softResetOut
<1>5. ASSUME NEW p \in Peers, Visit(p) PROVE OneSlot'
  <2>1. VisitBest(p) \/ VisitWithdraw(p) \/ VisitAnnounce(p) \/ UNCHANGED sent
    BY <1>5 DEF Visit, outVars
  <2>2. CASE VisitBest(p)
    BY <1>1, <1>2, <2>2, Zenon DEF VisitBest
  <2>3. CASE VisitWithdraw(p)
    BY <1>1, <1>2, <2>3, Zenon DEF VisitWithdraw, outVars
  <2>4. CASE VisitAnnounce(p)
    BY <1>1, <1>2, <2>4, Zenon DEF VisitAnnounce, SendNew, outVars
  <2>5. QED
    BY <1>1, <2>1, <2>2, <2>3, <2>4
<1>6. ASSUME NEW p \in Peers, resetAdvertisedRoutes(p) PROVE OneSlot'
  BY <1>6, Zenon DEF resetAdvertisedRoutes, OneSlot, OutInv
<1>e. ASSUME NEW p \in Peers, DeferralExpired(p) PROVE OneSlot'
  BY <1>1, <1>2, <1>e, Zenon DEF DeferralExpired, outVars
<1>7. ASSUME NEW p \in Peers, Neighbor(p) PROVE OneSlot'
  BY <1>1, <1>3, <1>4, <1>5, <1>6, <1>e, <1>7, Zenon DEF Neighbor, HandleUpdate, Establish, Store, HandleEOR,
     handleRouteRefresh, SyncNext, PeerDown, dropAdjRIBIn, RestartFailed, outVars
<1>8. QED
  BY <1>1, <1>7 DEF Next, Operator, LocalPath, SetPolicy, outVars, vars

\* The old best path is not left on a neighbor (server.go:596) wherever the
\* internal neighbors are all reflector clients or none is. The run
\* propagation_reflector shows that it can be where both kinds meet.
THEOREM NoGhostRouteCorrect ==
    ASSUME OneKindOfInternal
    PROVE  Spec => []NoGhostRoute
<1>1. KnownInv /\ OutInv /\ SyncInv /\ OneSlot => NoGhostRoute
  <2> SUFFICES ASSUME KnownInv, OutInv, SyncInv, OneSlot, NEW p \in Peers, Settled(p), Has(known) = {}
               PROVE  Holds(p) = {}
    BY DEF NoGhostRoute
  <2>1. Active(p) /\ gap[p] = {} /\ ~Pending(p) /\ \A s : ~Waits(p, s)
    BY Zenon DEF Settled, Active, Pending, Waits
  <2>2. sent[p] = Holds(p) /\ NeighborInv(p)
    BY <2>1, Zenon DEF OutInv, SyncInv
  <2>3. CASE p \in AddPath
    <3>1. \A s \in sent[p] : s \in Sources /\ view[p][s] = known[s]
      BY <2>1, <2>2, <2>3 DEF NeighborInv, AddInv
    <3>2. \A s \in Sources : known[s] = None
      BY DEF Has
    <3>3. QED
      BY <2>2, <3>1, <3>2, ZenonT(30) DEF Holds
  <2>4. CASE p \notin AddPath
    <3>1. view[p][Zero] = DueOf(p, NoPath)
      BY <2>1, <2>2, <2>4, Zenon DEF NeighborInv, BestInv, GetBestPath
    <3>2. view[p][Zero] = None
      BY <3>1 DEF DueOf, May
    <3>3. QED
      BY <2>2, <2>4, <3>2, Zenon DEF OneSlot, Holds
  <2>5. QED
    BY <2>3, <2>4
<1>2. Init => OneSlot
  BY DEF Init, OneSlot
<1>3. QED
  BY <1>1, <1>2, OutInit, OutNext, KnownNext, DeferralInit, DeferralNext, SyncInit, SyncNextStep,
     OneSlotNext, PTL DEF Spec

=============================================================================
