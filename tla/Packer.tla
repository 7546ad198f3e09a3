------------------------------- MODULE Packer -------------------------------
(***************************************************************************)
(* From the queue of a neighbor to UPDATE messages (message.go and         *)
(* sendMessageloop in fsm.go). Paths that wait are coalesced; the last     *)
(* action for each path is kept; withdrawals go first, then announcements, *)
(* grouped by attributes, in an order that is not fixed, then End-of-RIB.  *)
(* A group is split where a message is full. For a neighbor that does not  *)
(* know 4-byte AS numbers the attributes are converted after that; what    *)
(* cannot be serialized is logged and dropped.                             *)
(*                                                                         *)
(* A path is a prefix, the local path identifier and attributes. The       *)
(* neighbor puts what it receives under the prefix and, with ADD-PATH, the *)
(* identifier. want is what it holds if paths are applied one by one.      *)
(***************************************************************************)
EXTENDS Integers, SequencesExt, FiniteSetsExt

CONSTANTS Nlris, Family,   \* the family of a prefix: "ipv4" or another
          PrefixLen,          \* bytes of an NLRI
          Ids,                \* the local path identifiers of the paths of an NLRI
          Attrs, AttrsLen,    \* bytes of attributes
          Growth,             \* bytes they gain or lose where AS numbers have two bytes
          Nexthop6,           \* attributes with an IPv6 next hop
          MaxLength,          \* maxUpdateMessageLength
          MaxPaths, MaxQueue  \* bounds on what is queued, in all and at a time

BaseLen == 2     \* header and length fields
MpLen == 2       \* the fixed part of MP_REACH_NLRI and MP_UNREACH_NLRI
ExtLen == 1      \* the longer attribute header of a long attribute
ShortAttr == 3   \* longest content of the short attribute header
PathIdLen == 1

VARIABLES addPath,  \* whether ADD-PATH is on for the neighbor
          twoByteAsTrans, \* whether it does not know 4-byte AS numbers
          queue,    \* outgoing: paths and End-of-RIB
          wire,     \* messages that are packed
          view,     \* what the neighbor holds
          want,     \* what it is to hold
          eor,      \* families whose End-of-RIB it has
          mixed,    \* history: NLRIs last packed with two identifiers in a pass
          lost,     \* history: slots whose last message could not be serialized
          paths     \* number of paths queued

config == <<addPath, twoByteAsTrans>>
vars == <<config, queue, wire, view, want, eor, mixed, lost, paths>>

None == "none"
Families == {Family[p] : p \in Nlris}
Slots == UNION {{p} \X (Ids[p] \cup {0}) : p \in Nlris}
Slot(p, i) == <<p, IF addPath THEN i ELSE 0>>

\* before: queued before the End-of-RIB of its family.
Path(p, i, a, b) == [prefix |-> p, id |-> i, attrs |-> a, before |-> b]
EOR(f) == [eor |-> f]
IsEOR(x) == "eor" \in DOMAIN x
IsWithdraw(x) == x.attrs = None
FamilyOf(x) == IF IsEOR(x) THEN x.eor ELSE Family[x.prefix]

Init ==
    /\ addPath \in BOOLEAN /\ twoByteAsTrans \in BOOLEAN
    /\ queue = <<>> /\ wire = <<>>
    /\ view = [s \in Slots |-> None] /\ want = [s \in Slots |-> None]
    /\ eor = {} /\ mixed = {} /\ lost = {} /\ paths = 0

----------------------------------------------------------------------------
(* createUpdateMsgFromPaths *)

Key(x) == <<x.prefix, x.id>>

\* Mutant: the first action for a path is kept.
IsLast_First(l, i) ==
    IsEOR(l[i]) \/ \A j \in 1..(i - 1) : IsEOR(l[j]) \/ Key(l[j]) # Key(l[i])
\* The paths of a pass that are not followed by another action for the path.
IsLast(l, i) ==
    IsEOR(l[i]) \/ \A j \in (i + 1)..Len(l) : IsEOR(l[j]) \/ Key(l[j]) # Key(l[i])
Kept(l) == LET idx == SetToSortSeq({i \in DOMAIN l : IsLast(l, i)}, LAMBDA i, j : i < j)
           IN [n \in DOMAIN idx |-> l[idx[n]]]

NlriLen(x) == PrefixLen[x.prefix] + (IF addPath THEN PathIdLen ELSE 0)
SumLen(l) == FoldSeq(LAMBDA x, n : NlriLen(x) + n, 0, l)

\* How many NLRIs a message takes: one, and more while they fit.
Fill(l, budget) ==
    IF Len(l) = 0 THEN 0
    ELSE Max({1} \cup {n \in 1..Len(l) : SumLen(SubSeq(l, 1, n)) <= budget})

\* split, as the lists of NLRIs of the messages.
split(baseLen, l) ==
    LET s[i \in 0..Len(l)] ==   \* the lists for what follows the first i
            IF i = Len(l) THEN <<>>
            ELSE LET n == Fill(SubSeq(l, i + 1, Len(l)), IF MaxLength > baseLen THEN MaxLength - baseLen ELSE 0)
                 IN << SubSeq(l, i + 1, i + n) >> \o s[i + n]
    IN s[0]

Message(f, w, a, l) == [family |-> f, withdraw |-> w, attrs |-> a, nlri |-> l, eor |-> FALSE]

\* The NLRI field is for IPv4 with an IPv4 next hop, and for the withdrawals of
\* IPv4. Anything else goes in an attribute.
useNLRIField(f, a) == f = "ipv4" /\ a \notin Nexthop6

\* Mutant: no room for the longer attribute header.
BaseOf_Short(f, a) == IF useNLRIField(f, a) THEN BaseLen ELSE BaseLen + MpLen
BaseOf(f, a) == IF useNLRIField(f, a) THEN BaseLen ELSE BaseLen + MpLen + ExtLen

Withdrawals(f, l) ==
    LET parts == split(BaseOf(f, None), l)
    IN [n \in DOMAIN parts |-> Message(f, TRUE, None, parts[n])]

\* announce: the messages of a group of paths with the same attributes.
announce(f, a, l) ==
    LET parts == split(BaseOf(f, a) + AttrsLen[a], l)
    IN [n \in DOMAIN parts |-> Message(f, FALSE, a, parts[n])]

\* pack, for one family; order is the order the map of groups is walked in.
pack(f, l, order) ==
    LET s == SelectSeq(l, LAMBDA x : FamilyOf(x) = f)
        w == SelectSeq(s, LAMBDA x : ~IsEOR(x) /\ IsWithdraw(x))
        e == SelectSeq(s, LAMBDA x : IsEOR(x))
        group(a) == SelectSeq(s, LAMBDA x : ~IsEOR(x) /\ x.attrs = a)
    IN Withdrawals(f, w)
       \o FlattenSeq([n \in DOMAIN order |-> announce(f, order[n], group(order[n]))])
       \o (IF e = <<>> THEN <<>> ELSE << [family |-> f, nlri |-> <<>>, eor |-> TRUE] >>)

----------------------------------------------------------------------------
(* Steps *)

Room == Len(queue) < MaxQueue /\ paths < MaxPaths

HasEOR(f) == f \in eor \/ (\E i \in DOMAIN queue : queue[i] = EOR(f))
                       \/ (\E i \in DOMAIN wire : wire[i].eor /\ wire[i].family = f)

\* A path is queued, and applied to what the neighbor is to hold.
sendfsmOutgoingMsg(p, i, a) ==
    /\ Room
    /\ queue' = Append(queue, Path(p, i, a, ~HasEOR(Family[p])))
    /\ want' = [want EXCEPT ![Slot(p, i)] = a]
    /\ paths' = paths + 1
    /\ UNCHANGED <<config, wire, view, eor, mixed, lost>>

SendEOR(f) ==
    /\ Room /\ ~HasEOR(f)
    /\ queue' = Append(queue, EOR(f))
    /\ paths' = paths + 1
    /\ UNCHANGED <<config, wire, view, want, eor, mixed, lost>>

\* The orders the groups of each family may be walked in.
Groups(l, f) == {l[i].attrs : i \in {j \in DOMAIN l : FamilyOf(l[j]) = f /\ ~IsEOR(l[j]) /\ ~IsWithdraw(l[j])}}
Orders(l) == {o \in [Families -> UNION {SetToSeqs(Groups(l, f)) : f \in Families}] :
                \A f \in Families : o[f] \in SetToSeqs(Groups(l, f))}

\* The message loop takes what waits and packs it: one path or more, as the
\* channel yields them. The maps of families and of groups are walked in any
\* order.
sendMessageloop(n, l, fams, orders) ==
    LET ids(p) == {l[i].id : i \in {j \in DOMAIN l : ~IsEOR(l[j]) /\ l[j].prefix = p}}
    IN /\ wire = <<>>
       /\ wire' = FlattenSeq([i \in DOMAIN fams |-> pack(fams[i], l, orders[fams[i]])])
       /\ mixed' = {p \in Nlris : ~addPath /\ (Cardinality(ids(p)) > 1 \/ (ids(p) = {} /\ p \in mixed))}
       /\ queue' = SubSeq(queue, n + 1, Len(queue))
       /\ UNCHANGED <<config, view, want, eor, lost, paths>>

\* The bytes AS4_PATH and AS4_AGGREGATOR add, less those that AS_PATH and
\* AGGREGATOR lose: the conversion comes after the packing.
As4Growth(m) == IF twoByteAsTrans /\ ~m.withdraw THEN Growth[m.attrs] ELSE 0

\* The length of a message as it is serialized.
Length(m) ==
    LET n == SumLen(m.nlri)
        a == IF m.withdraw THEN 0 ELSE AttrsLen[m.attrs]
    IN BaseLen + a + As4Growth(m) + n
       + (IF useNLRIField(m.family, m.attrs) THEN 0 ELSE MpLen + (IF n > ShortAttr THEN ExtLen ELSE 0))
Serializes(m) == m.eor \/ Length(m) <= MaxLength

\* send: the neighbor is sent the next message and applies it, or the message is
\* dropped and the loop goes on.
send ==
    /\ wire # <<>>
    /\ LET m == Head(wire)
           slots == {Slot(m.nlri[i].prefix, m.nlri[i].id) : i \in DOMAIN m.nlri}
       IN IF Serializes(m)
          THEN /\ view' = [s \in Slots |-> IF s \in slots THEN m.attrs ELSE view[s]]
               /\ eor' = IF m.eor THEN eor \cup {m.family} ELSE eor
               /\ lost' = lost \ slots
          ELSE lost' = lost \cup slots /\ UNCHANGED <<view, eor>>
    /\ wire' = Tail(wire)
    /\ UNCHANGED <<config, queue, want, mixed, paths>>

Next ==
    \/ \E p \in Nlris, a \in Attrs \cup {None} : \E i \in Ids[p] : sendfsmOutgoingMsg(p, i, a)
    \/ \E f \in Families : SendEOR(f)
    \/ \E n \in 1..Len(queue) :
          LET l == Kept(SubSeq(queue, 1, n))
          IN \E fams \in SetToSeqs({FamilyOf(l[i]) : i \in DOMAIN l}), orders \in Orders(l) :
                sendMessageloop(n, l, fams, orders)
    \/ send

Spec == Init /\ [][Next]_vars

----------------------------------------------------------------------------
(* Properties *)

\* The queue is bounded, and only a neighbor with ADD-PATH holds anything under
\* a path identifier.
TypeOK ==
    /\ Len(queue) <= MaxQueue
    /\ \A s \in Slots : view[s] \in Attrs \cup {None} /\ (s[2] = 0 \/ addPath \/ view[s] = None)

\* Coalescing and grouping are not seen: when everything is sent, the neighbor
\* holds what it would hold if each path had its own message, in order, with two
\* exceptions. For a neighbor without ADD-PATH it holds of an NLRI that was last
\* packed with one identifier only; and it does not hold of a path whose last
\* message could not be serialized (fsm.go:1828).
Coalesced ==
    queue = <<>> /\ wire = <<>> =>
        \A s \in Slots \ lost : s[1] \in mixed \/ view[s] = want[s]

\* The neighbor holds what it is to hold of what could be sent, ADD-PATH or not.
InOrder == queue = <<>> /\ wire = <<>> => \A s \in Slots \ lost : view[s] = want[s]

\* End-of-RIB comes after everything queued before it, also when it is packed
\* together with it.
EorLast ==
    \A f \in eor :
        /\ \A i \in DOMAIN queue : IsEOR(queue[i]) \/ Family[queue[i].prefix] # f \/ ~queue[i].before
        /\ \A i \in DOMAIN wire : wire[i].family # f \/
              \A j \in DOMAIN wire[i].nlri : ~wire[i].nlri[j].before

\* A message is not longer than the neighbor accepts, so none is lost that could
\* have been split, with two exceptions: a message with a single NLRI, and one
\* for a neighbor without 4-byte AS numbers, which may be too long by what the
\* conversion adds after it was packed (fsm.go:1820).
Fits ==
    \A i \in DOMAIN wire :
        wire[i].eor \/ Len(wire[i].nlri) = 1 \/ Length(wire[i]) - As4Growth(wire[i]) <= MaxLength

=============================================================================
