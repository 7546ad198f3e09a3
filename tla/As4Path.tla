---- MODULE As4Path ----
(***************************************************************************)
(* The AS_PATH of one route on its way through speakers with 4-byte AS     *)
(* numbers (NEW, this code) and speakers that only know 2-byte ones (OLD,  *)
(* not this code): internal/pkg/table/path.go prepends, strips and         *)
(* replaces AS numbers, internal/pkg/table/message.go turns the path into  *)
(* AS_PATH and AS4_PATH for an OLD neighbor (sendMessageloop) and puts the *)
(* two together again when an OLD neighbor sends them (recvMessageloop).   *)
(* The AGGREGATOR attribute travels the same way.                          *)
(*                                                                         *)
(* AS numbers are members of Small (2 bytes are enough) and Large (they    *)
(* are not); a segment holds at most MaxSegment of them (255 in the code). *)
(* truth is what the path should be: the list of its elements, an AS of a  *)
(* sequence or a whole set, without regard to how they are cut into        *)
(* segments.                                                               *)
(*                                                                         *)
(* An OLD speaker passes AS4_PATH on as an attribute it does not know and  *)
(* prepends its number to AS_PATH; that it aggregates routes is left out.  *)
(* It never takes AGGREGATOR away from under AS4_AGGREGATOR, so the error  *)
(* UpdatePathAggregator4ByteAs returns then does not come up.              *)
(***************************************************************************)
EXTENDS Integers, Sequences, SequencesExt

CONSTANTS
    Small,          \* AS numbers below 2^16
    Large,          \* the others
    Private,        \* isPrivateAS
    Starts,         \* routes to start with: [path, a sequence of segments;
                    \* aggregator, an AS number or None]
    MaxSegment,     \* AS numbers in a segment: 255
    Settings,       \* what neighbors' settings do to a path sent: [replace, the
                    \* AS of replace-peer-as; private, remove-private-as;
                    \* prepend, the export policy's as-path-prepend]
    MaxElements     \* bound on the elements of a path

VARIABLES
    segments,       \* AS_PATH: sequence of [type, as]
    as4,            \* AS4_PATH; <<>> where there is none, which has the same effect
    aggregator,     \* AS of AGGREGATOR
    as4aggregator,  \* AS of AS4_AGGREGATOR, or None
    at,             \* "new" or "old": the speaker that holds the route
    mixed,          \* a policy put a sequence before a confederation's segment
    truth,          \* the elements the path should have
    aggregatedBy    \* the AS that aggregated the route

vars == <<segments, as4, aggregator, as4aggregator, at, mixed, truth,
          aggregatedBy>>

None == "none"

AS_TRANS == "trans"

Segment(type, as) == [type |-> type, as |-> as]

Confed(s) == s.type \in {"CONFED_SEQ", "CONFED_SET"}

Ordered(s) == s.type \in {"SEQ", "CONFED_SEQ"}

\* ASLen, with what UpdatePathAttrs4ByteAs counts for a confederation: a
\* sequence counts its numbers, a set 1
Len4(s) == IF Ordered(s) THEN Len(s.as) ELSE 1

Total(path) == FoldSeq(LAMBDA s, n : Len4(s) + n, 0, path)

-----------------------------------------------------------------------------
(* Changing an AS path: path.go *)

\* Mutant: a full segment is extended all the same.
PrependAsn_Overfull(path, asn, repeat, type) ==
    IF path # <<>> /\ path[1].type = type
    THEN <<Segment(type, [i \in 1 .. repeat |-> asn] \o path[1].as)>> \o Tail(path)
    ELSE <<Segment(type, [i \in 1 .. repeat |-> asn])>> \o path

PrependAsn(path, asn, repeat, type) ==
    LET asns(n) == [i \in 1 .. n |-> asn]
        fits    == IF path # <<>> /\ path[1].type = type
                   THEN IF repeat + Len(path[1].as) > MaxSegment
                        THEN MaxSegment - Len(path[1].as)
                        ELSE repeat
                   ELSE 0
        first   == IF path # <<>> /\ path[1].type = type
                   THEN <<Segment(type, asns(fits) \o path[1].as)>> \o Tail(path)
                   ELSE path
    IN  IF repeat > fits
        THEN <<Segment(type, asns(repeat - fits))>> \o first
        ELSE first

removeConfedAs(path) == SelectSeq(path, LAMBDA s : ~Confed(s))

\* The path with the numbers in drop left out and those in from replaced
MapNumbers(path, drop, from, to) ==
    LET kept(s) == SelectSeq(s.as, LAMBDA a : a \notin drop)
        mapped(as) == [i \in 1 .. Len(as) |-> IF as[i] \in from THEN to ELSE as[i]]
    IN  [i \in 1 .. Len(path) |-> Segment(path[i].type, mapped(kept(path[i])))]

RemovePrivateAS(path, localAS, option) ==
    SelectSeq(MapNumbers(path, IF option = "all" THEN Private ELSE {},
                         IF option = "replace" THEN Private ELSE {}, localAS),
              LAMBDA s : s.as # <<>>)

ReplaceAS(path, localAS, peerAS) == MapNumbers(path, {}, {peerAS}, localAS)

\* The part of UpdatePathAttrs about AS_PATH, for a neighbor of this kind
UpdatePathAttrs(path, localAS, kind, private) ==
    LET public == IF private = "keep" THEN path ELSE RemovePrivateAS(path, localAS, private)
    IN  CASE kind = "external" -> removeConfedAs(PrependAsn(public, localAS, 1, "SEQ"))
          [] kind = "confed"   -> PrependAsn(public, localAS, 1, "CONFED_SEQ")
          [] kind = "internal" -> path

\* AsPathPrependAction.Apply; GetAsSeqList has no first number where the path
\* does not start with a sequence
LeftMost(path) == IF path # <<>> /\ path[1].type = "SEQ" THEN path[1].as[1] ELSE None

AsPathPrependAction(path, prepend, confed) ==
    LET asn == IF prepend.asn = "last-as" THEN LeftMost(path) ELSE prepend.asn
    IN  IF asn = None \/ prepend.repeat = 0
        THEN path
        ELSE PrependAsn(path, asn, prepend.repeat, IF confed THEN "CONFED_SEQ" ELSE "SEQ")

\* filterpath: replace-peer-as, UpdatePathAttrs, then the export policy
filterpath(path, localAS, kind, set) ==
    LET own == IF set.replace = None THEN path ELSE ReplaceAS(path, localAS, set.replace)
    IN  AsPathPrependAction(UpdatePathAttrs(own, localAS, kind, set.private),
                            set.prepend, kind = "confed")

-----------------------------------------------------------------------------
(* AS_PATH and AS4_PATH: message.go *)

TwoByte(a) == IF a \in Large THEN AS_TRANS ELSE a

\* UpdatePathAttrs2ByteAs: [as, as4]
UpdatePathAttrs2ByteAs(path) ==
    [as  |-> MapNumbers(path, {}, Large, AS_TRANS),
     as4 |-> IF \E i \in 1 .. Len(path) : \E j \in 1 .. Len(path[i].as) : path[i].as[j] \in Large
             THEN removeConfedAs(path)
             ELSE <<>>]

\* The leading elements of AS_PATH that AS4_PATH does not have
Keep(path, n) ==
    LET Step(s, acc) ==
            IF acc.left <= 0
            THEN acc
            ELSE IF Len4(s) <= acc.left
            THEN [path |-> Append(acc.path, s), left |-> acc.left - Len4(s)]
            ELSE [path |-> Append(acc.path, Segment(s.type, SubSeq(s.as, 1, acc.left))), left |-> 0]
    IN  FoldLeft(LAMBDA acc, s : Step(s, acc), [path |-> <<>>, left |-> n], path).path

\* Mutant: numbers that do not fit into the last segment are dropped.
Merge_Truncates(path, rest) ==
    LET Step(acc, s) ==
            IF acc # <<>> /\ Last(acc).type = s.type /\ s.type = "SEQ"
            THEN LET room == MaxSegment - Len(Last(acc).as)
                 IN  Append(Front(acc), Segment("SEQ", Last(acc).as \o
                         (IF Len(s.as) > room THEN SubSeq(s.as, 1, room) ELSE s.as)))
            ELSE Append(acc, s)
    IN  FoldLeft(Step, path, rest)

\* The segments of AS4_PATH added to what is kept of AS_PATH
Merge(path, rest) ==
    LET Step(acc, s) ==
            IF acc # <<>> /\ Last(acc).type = s.type /\ s.type = "SEQ"
            THEN LET last == Last(acc).as
                     room == MaxSegment - Len(last)
                 IN  IF Len(s.as) > room
                     THEN Front(acc) \o <<Segment("SEQ", last \o SubSeq(s.as, 1, room)),
                                          Segment("SEQ", SubSeq(s.as, room + 1, Len(s.as)))>>
                     ELSE Append(Front(acc), Segment("SEQ", last \o s.as))
            ELSE Append(acc, s)
    IN  FoldLeft(Step, path, rest)

UpdatePathAttrs4ByteAs(path, rest) ==
    IF Total(path) < Total(removeConfedAs(rest))
    THEN path
    ELSE Merge(Keep(path, Total(path) - Total(removeConfedAs(rest))), removeConfedAs(rest))

\* AGGREGATOR and AS4_AGGREGATOR; None where nobody aggregated the route
UpdatePathAggregator2ByteAs(a) ==
    [as |-> TwoByte(a), as4 |-> IF a \in Large THEN a ELSE None]

UpdatePathAggregator4ByteAs(a, a4) == IF a4 # None THEN a4 ELSE a

-----------------------------------------------------------------------------
(* What a path says, whatever its segments *)

Elements(path) ==
    LET Of(s) == IF Ordered(s)
                 THEN [i \in 1 .. Len(s.as) |-> [confed |-> Confed(s), as |-> {s.as[i]}, set |-> FALSE]]
                 ELSE <<[confed |-> Confed(s), as |-> ToSet(s.as), set |-> TRUE]>>
    IN  FoldLeft(LAMBDA acc, s : acc \o Of(s), <<>>, path)

Element(asn, kind) == [confed |-> kind = "confed", as |-> {asn}, set |-> FALSE]

Mapped(elements, f(_)) ==
    [i \in 1 .. Len(elements) |-> [elements[i] EXCEPT !.as = {f(a) : a \in @}]]

Prepended(elements, asn, kind) ==
    CASE kind = "external" -> <<Element(asn, kind)>> \o SelectSeq(elements, LAMBDA e : ~e.confed)
      [] kind = "confed"   -> <<Element(asn, kind)>> \o elements
      [] kind = "internal" -> elements

Public(elements, asn, private) ==
    CASE private = "keep"    -> elements
      [] private = "replace" -> Mapped(elements, LAMBDA a : IF a \in Private THEN asn ELSE a)
      [] private = "all"     ->
             SelectSeq([i \in 1 .. Len(elements) |-> [elements[i] EXCEPT !.as = @ \ Private]],
                       LAMBDA e : e.as # {})

\* What filterpath is to make of a path
Sent(elements, asn, kind, set) ==
    LET own   == Mapped(elements, LAMBDA a : IF a = set.replace THEN asn ELSE a)
        sent  == Prepended(IF kind = "internal" THEN own ELSE Public(own, asn, set.private), asn, kind)
        extra == IF set.prepend.asn # "last-as"
                 THEN [i \in 1 .. set.prepend.repeat |-> Element(set.prepend.asn, kind)]
                 ELSE IF sent # <<>> /\ ~sent[1].set /\ ~sent[1].confed
                 THEN [i \in 1 .. set.prepend.repeat |-> [sent[1] EXCEPT !.confed = (kind = "confed")]]
                 ELSE <<>>
    IN  extra \o sent

\* A confederation's elements come first
Leading(elements) ==
    \A i, j \in 1 .. Len(elements) : i < j /\ elements[j].confed => elements[i].confed

\* AS4_PATH has no place for the numbers of a confederation
ThroughOld(elements) ==
    [i \in 1 .. Len(elements) |->
        IF elements[i].confed
        THEN [elements[i] EXCEPT !.as = {TwoByte(a) : a \in @}]
        ELSE elements[i]]

-----------------------------------------------------------------------------

Init ==
    /\ \E start \in Starts : segments = start.path /\ aggregatedBy = start.aggregator
    /\ as4 = <<>>
    /\ aggregator = aggregatedBy
    /\ as4aggregator = None
    /\ at = "new"
    /\ truth = Elements(segments)
    /\ mixed = FALSE

\* The bound
Within == Len(truth') <= MaxElements /\ Total(segments') <= MaxElements

\* A NEW speaker sends the route to a NEW neighbor
SendNew(localAS, kind, set) ==
    /\ at = "new"
    /\ segments' = filterpath(segments, localAS, kind, set)
    /\ truth' = Sent(truth, localAS, kind, set)
    /\ Within
    /\ mixed' = (mixed \/ ~Leading(truth'))
    /\ UNCHANGED <<as4, aggregator, as4aggregator, at, aggregatedBy>>

\* A NEW speaker sends the route to an OLD neighbor: filterpath, and the send
\* of sendMessageloop with twoByteAsTrans
SendOld(localAS, kind, set) ==
    /\ at = "new"
    /\ LET two == UpdatePathAttrs2ByteAs(filterpath(segments, localAS, kind, set))
           agg == UpdatePathAggregator2ByteAs(aggregator)
       IN  /\ segments' = two.as
           /\ as4' = two.as4
           /\ aggregator' = agg.as
           /\ as4aggregator' = agg.as4
    /\ at' = "old"
    /\ truth' = ThroughOld(Sent(truth, localAS, kind, set))
    /\ Within
    /\ mixed' = (mixed \/ ~Leading(truth'))
    /\ UNCHANGED aggregatedBy

\* An OLD speaker passes the route on to another
OldHop(asn, kind) ==
    /\ at = "old"
    /\ segments' = UpdatePathAttrs(segments, asn, kind, "keep")
    /\ truth' = Prepended(truth, asn, kind)
    /\ Within
    /\ UNCHANGED <<as4, aggregator, as4aggregator, at, mixed, aggregatedBy>>

\* A NEW speaker receives the route from an OLD one: recvMessageloop
Receive ==
    /\ at = "old"
    /\ segments' = UpdatePathAttrs4ByteAs(segments, as4)
    /\ as4' = <<>>
    /\ aggregator' = UpdatePathAggregator4ByteAs(aggregator, as4aggregator)
    /\ as4aggregator' = None
    /\ at' = "new"
    /\ UNCHANGED <<truth, mixed, aggregatedBy>>

Kinds == {"external", "confed", "internal"}

Next ==
    \/ \E asn \in Small \cup Large, kind \in Kinds, set \in Settings : SendNew(asn, kind, set)
    \/ \E asn \in Small \cup Large, kind \in Kinds, set \in Settings : SendOld(asn, kind, set)
    \/ \E asn \in Small, kind \in Kinds : OldHop(asn, kind)
    \/ Receive

Spec == Init /\ [][Next]_vars

-----------------------------------------------------------------------------

\* The path a NEW speaker holds says what it should, wherever OLD speakers
\* were on the way and however the numbers were cut into segments: nothing is
\* lost, repeated or moved, and 4-byte numbers are back
\* (UpdatePathAttrs4ByteAs, Merge at the 255 limit).
PathRestored == at = "new" /\ ~mixed => Elements(segments) = truth

\* No attribute ever has a segment that is empty or has more numbers than its
\* length octet can say (PrependAsn, the split of UpdatePathAttrs4ByteAs,
\* RemovePrivateAS).
SegmentsFit ==
    \A path \in {segments, as4} :
        \A i \in 1 .. Len(path) : Len(path[i].as) \in 1 .. MaxSegment

\* An OLD neighbor never sees a 4-byte number, and counts as many ASes as a
\* NEW one would: the AS_PATH length that best path selection compares is the
\* same on both sides (UpdatePathAttrs2ByteAs).
OldSeesLength ==
    at = "old" /\ ~mixed =>
                  /\ Total(segments) = Len(truth)
                  /\ \A i \in 1 .. Len(segments) : \A j \in 1 .. Len(segments[i].as) :
                         segments[i].as[j] \notin Large

\* The AS that aggregated a route is known again behind an OLD speaker.
AggregatorRestored == at = "new" => aggregator = aggregatedBy
====
