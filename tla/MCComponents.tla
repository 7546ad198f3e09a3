---------------------------- MODULE MCComponents ----------------------------
(***************************************************************************)
(* Small instances of the components that work on one thing at a time: the *)
(* best path of a destination, the packing of UPDATE messages, AS numbers  *)
(* of two and four bytes, the client of an RPKI cache, the policy tables,  *)
(* and RibIn in four settings.  The initial state picks the component, in  *)
(* which, and only its variables change from then on; those of the others  *)
(* are 0.  So each behaviour is one of a component's specification, and    *)
(* the properties are those of the component picked.                       *)
(***************************************************************************)
EXTENDS Integers, Sequences

CONSTANTS n1, a1, a2, r1, r2, p1, NoPath, NoPeer, Local

VARIABLES which,
          setup, list, told, fib,
          addPath, twoByteAsTrans, queue, messages, view, want, eor, twoIds, lost, paths,
          segments, as4, aggregator, as4aggregator, at, mixed, truth, aggregatedBy,
          configured, conn, goroutine, inflight, wire, queries, eof, sessionID,
          oldSessionID, serialNumber, endOfData, pendingROAs, timer, orphans,
          fired, table, cache, budget, late, reused,
          sets, statements, policies, definedSet, statementMap, policyMap,
          assignment, failed, ops, cut, loose,
          adj, total, accepted, loc, idMap, withdraws, announces, mgmt, policy,
          loops, live, established, rid, restarting, longLived, llgrRunning,
          llgrFired, llgrExpired, dirty

-----------------------------------------------------------------------------
(* Best path: an external neighbor each in two ASes or in one, and an      *)
(* internal neighbor with two path identifiers; one or two of them may be  *)
(* local sources instead.  A setup has two attribute lists that differ     *)
(* where the setup's options matter, and three paths that may be announced *)
(* with either, or one list and all four paths.                            *)

Base == [stale |-> FALSE, pref |-> 100, len |-> 1, origin |-> 0, med |-> 0]
Opt(m, x, e) == [alwaysMed |-> m, ignoreLen |-> x, external |-> e]
Kinds == [a |-> "ebgp", b |-> "ebgp", i |-> "ibgp"]
Confed == [a |-> "confed", b |-> "confed", i |-> "ibgp"]
OneAS == [a |-> 1, b |-> 1, i |-> 1]
ManyAS == [a |-> 1, b |-> 2, i |-> 1]
Setup(o, k, s, n, v) == [opts |-> o, kind |-> k, as |-> s, keys |-> n, attrs |-> {Base, v}]
Default == Opt(FALSE, FALSE, FALSE)
Med == [Base EXCEPT !.med = 5]
Every == {"a", "b", "i", "j"}
Three == {"a", "b", "i"}

BestPathSetups ==
    { Setup(Default, Kinds, OneAS, Every, Base),
      Setup(Default, Kinds, OneAS, Three, Med),
      Setup(Default, Kinds, ManyAS, Three, Med),
      Setup(Opt(TRUE, FALSE, TRUE), Confed, ManyAS, Three, Med),
      Setup(Default, Kinds, OneAS, {"a", "i", "j"}, [Base EXCEPT !.pref = 200]),
      Setup(Default, Kinds, OneAS, Three, [Base EXCEPT !.stale = TRUE]),
      Setup(Default, Confed, OneAS, Three, [Base EXCEPT !.len = 2]),
      Setup(Opt(FALSE, TRUE, FALSE), Kinds, OneAS, Three, [Base EXCEPT !.len = 2]),
      Setup(Default, [Kinds EXCEPT !.b = "local"], OneAS, Three, [Base EXCEPT !.origin = 2]),
      Setup(Default, [Kinds EXCEPT !.i = "local", !.b = "local"], OneAS, Three,
            [Base EXCEPT !.pref = 200]) }

BestPath == INSTANCE BestPath WITH
    Keys <- Every,
    Src <- [a |-> "a", b |-> "b", i |-> "i", j |-> "i"],
    RouterID <- [a |-> 1, b |-> 3, i |-> 2],
    Address <- [a |-> 3, b |-> 1, i |-> 2],
    Setups <- BestPathSetups

ASSUME BestPath!Constants

bestPathVars == <<setup, list, told, fib>>
bestPathIdle == setup = 0 /\ list = 0 /\ told = 0 /\ fib = 0

-----------------------------------------------------------------------------
(* Packing: an IPv4 prefix, and an IPv6 prefix with two local identifiers; *)
(* a message has room for two of them with the short attributes, unless AS *)
(* numbers of two bytes make those longer.  The long attributes have an    *)
(* IPv6 next hop.                                                          *)

Packer == INSTANCE Packer WITH
    Nlris <- {"p", "r"},
    Family <- [p |-> "ipv4", r |-> "ipv6"],
    PrefixLen <- [p |-> 1, r |-> 1],
    Ids <- [p |-> {1}, r |-> {1, 2}],
    Attrs <- {"x", "y"},
    AttrsLen <- [x |-> 1, y |-> 4], Growth <- [x |-> 3, y |-> -1], Nexthop6 <- {"y"},
    MaxLength <- 9, MaxPaths <- 4, MaxQueue <- 3,
    wire <- messages, mixed <- twoIds

packerVars == <<addPath, twoByteAsTrans, queue, messages, view, want, eor, twoIds, lost, paths>>
packerIdle ==
    /\ addPath = 0 /\ twoByteAsTrans = 0 /\ queue = 0 /\ messages = 0 /\ view = 0
    /\ want = 0 /\ eor = 0 /\ twoIds = 0 /\ lost = 0 /\ paths = 0

-----------------------------------------------------------------------------
(* AS paths: "s" fits in two bytes, "L" does not and is private.  Segments *)
(* hold two AS numbers, so that they fill up.                              *)

Segment(type, as) == [type |-> type, as |-> as]
Start(path, by) == [path |-> path, aggregator |-> by]
Starts ==
    { Start(<<>>, "none"),
      Start(<<Segment("SEQ", <<"L">>)>>, "L"),
      Start(<<Segment("SEQ", <<"s">>), Segment("SET", <<"L", "s">>)>>, "s"),
      Start(<<Segment("CONFED_SEQ", <<"L">>), Segment("SEQ", <<"s", "L">>)>>, "none"),
      Start(<<Segment("CONFED_SEQ", <<"s">>), Segment("CONFED_SET", <<"s", "L">>),
              Segment("SEQ", <<"L">>)>>, "none") }
Plain == [replace |-> "none", private |-> "keep",
          prepend |-> [asn |-> "last-as", repeat |-> 0]]
Settings ==
    { Plain,
      [Plain EXCEPT !.replace = "L"],
      [Plain EXCEPT !.private = "all"],
      [Plain EXCEPT !.private = "replace", !.prepend.repeat = 1],
      [Plain EXCEPT !.prepend = [asn |-> "L", repeat |-> 2]] }

As4Path == INSTANCE As4Path WITH
    Small <- {"s"}, Large <- {"L"}, Private <- {"L"}, MaxSegment <- 2, MaxElements <- 5

as4PathVars == <<segments, as4, aggregator, as4aggregator, at, mixed, truth, aggregatedBy>>
as4PathIdle ==
    /\ segments = 0 /\ as4 = 0 /\ aggregator = 0 /\ as4aggregator = 0
    /\ at = 0 /\ mixed = 0 /\ truth = 0 /\ aggregatedBy = 0

-----------------------------------------------------------------------------
(* RPKI: two ROAs that both cover some route, one of them for AS 0; serial *)
(* numbers wrap around at once.                                            *)

Rpki == INSTANCE Rpki WITH
    Roas <- {[len |-> 1, maxLen |-> 2, as |-> 1], [len |-> 2, maxLen |-> 2, as |-> 0]},
    Routes <- [len : 0 .. 3, as : 0 .. 2],
    SerialMod <- 4, FirstSerial <- 3, Forgetful <- TRUE,
    MaxUpdates <- 2, MaxCloses <- 1, MaxApi <- 1

ASSUME Rpki!Constants

rpkiVars == <<configured, conn, goroutine, inflight, wire, queries, eof, sessionID,
              oldSessionID, serialNumber, endOfData, pendingROAs, timer, orphans,
              fired, table, cache, budget, late, reused>>
rpkiIdle ==
    /\ configured = 0 /\ conn = 0 /\ goroutine = 0 /\ inflight = 0 /\ wire = 0
    /\ queries = 0 /\ eof = 0 /\ sessionID = 0 /\ oldSessionID = 0
    /\ serialNumber = 0 /\ endOfData = 0 /\ pendingROAs = 0 /\ timer = 0
    /\ orphans = 0 /\ fired = 0 /\ table = 0 /\ cache = 0 /\ budget = 0
    /\ late = 0 /\ reused = 0

-----------------------------------------------------------------------------
(* Policies: two policies and two statements by name, the global table and *)
(* one route server client, routes of two families, and configurations to  *)
(* reload: one of them lacks the policy that is assigned at the start,     *)
(* another has a statement twice, the last a condition on a set it does    *)
(* not have.                                                               *)

Def(name, cond, route) == [name |-> name, cond |-> cond, route |-> route]
Definitions ==
    { <<Def("s", TRUE, "reject")>>,
      <<Def("t", FALSE, "accept")>>,
      <<Def("t", TRUE, "none"), Def("s", FALSE, "reject")>> }
Policy(name, statement) == [name |-> name, statements |-> <<statement>>]
Config(setsOf, defs) == [sets |-> setsOf, policies |-> defs]
Configs ==
    { Config(<<{"x"}>>, <<Policy("p", Def("s", TRUE, "reject"))>>),
      Config(<<>>, <<Policy("q", Def("t", FALSE, "accept"))>>),
      Config(<<>>, <<Policy("p", Def("s", FALSE, "reject")), Policy("q", Def("s", FALSE, "none"))>>),
      Config(<<>>, <<Policy("p", Def("s", TRUE, "reject"))>>) }
Assigned == [g |-> [import |-> <<>>, export |-> <<"p">>],
             c |-> [import |-> <<>>, export |-> <<>>]]

PolicyTable == INSTANCE PolicyTable WITH
    StatementNames <- {"s", "t"}, PolicyNames <- {"p", "q"},
    Ids <- {"g", "c"}, Global <- "g",
    Routes <- {"x", "z"}, Family <- [x |-> "ipv4", z |-> "ipv6"], MaxOps <- 4

policyVars == <<sets, statements, policies, definedSet, statementMap, policyMap,
                assignment, failed, ops, cut, loose>>
policyIdle ==
    /\ sets = 0 /\ statements = 0 /\ policies = 0 /\ definedSet = 0
    /\ statementMap = 0 /\ policyMap = 0 /\ assignment = 0 /\ failed = 0
    /\ ops = 0 /\ cut = 0 /\ loose = 0

-----------------------------------------------------------------------------
(* RibIn with one neighbor.  Paths: two path identifiers and long-lived    *)
(* graceful restart, which one of the attribute lists declines, and a      *)
(* policy that comes to reject everything.  Loops: the same where the loop *)
(* checks, not the policy, come to reject paths.  Faults: a prefix limit   *)
(* of one, a neighbor that can be deleted and come back with another BGP   *)
(* identifier, and a path of the operator for the same prefix.  LongLived: *)
(* the limit, the deletion and the operator's path with long-lived graceful*)
(* restart.                                                                *)

Paths == INSTANCE RibIn WITH
    Nlri <- {n1}, PathIds <- {1, 2}, Attrs <- {a1, a2}, NoLlgr <- {a2},
    RouterIds <- {r1}, Peers <- {p1}, LlgrPeers <- {p1}, Deletable <- {},
    LocalNlri <- {}, MaxPrefixes <- 0, MaxLocalId <- 3,
    Policies <- {[a \in {a1, a2} |-> v] : v \in {"accept", "reject"}},
    LoopSets <- {{}}

Loops == INSTANCE RibIn WITH
    Nlri <- {n1}, PathIds <- {1, 2}, Attrs <- {a1, a2}, NoLlgr <- {a2},
    RouterIds <- {r1}, Peers <- {p1}, LlgrPeers <- {p1}, Deletable <- {},
    LocalNlri <- {}, MaxPrefixes <- 0, MaxLocalId <- 3,
    Policies <- {[a \in {a1, a2} |-> "accept"]},
    LoopSets <- SUBSET {a1, a2}

Faults == INSTANCE RibIn WITH
    Nlri <- {n1}, PathIds <- {1, 2}, Attrs <- {a1}, NoLlgr <- {},
    RouterIds <- {r1, r2}, Peers <- {p1}, LlgrPeers <- {}, Deletable <- {p1},
    LocalNlri <- {n1}, MaxPrefixes <- 1, MaxLocalId <- 3,
    Policies <- {[a \in {a1} |-> "accept"]},
    LoopSets <- SUBSET {a1}

LongLived == INSTANCE RibIn WITH
    Nlri <- {n1}, PathIds <- {1, 2}, Attrs <- {a1}, NoLlgr <- {},
    RouterIds <- {r1}, Peers <- {p1}, LlgrPeers <- {p1}, Deletable <- {p1},
    LocalNlri <- {n1}, MaxPrefixes <- 1, MaxLocalId <- 3,
    Policies <- {[a \in {a1} |-> "accept"]},
    LoopSets <- {{}}

ribInVars == <<adj, total, accepted, loc, idMap, withdraws, announces, mgmt, policy,
               loops, live, established, rid, restarting, longLived, llgrRunning,
               llgrFired, llgrExpired, dirty>>
ribInIdle ==
    /\ adj = 0 /\ total = 0 /\ accepted = 0 /\ loc = 0 /\ idMap = 0
    /\ withdraws = 0 /\ announces = 0 /\ mgmt = 0 /\ policy = 0 /\ loops = 0
    /\ live = 0 /\ established = 0 /\ rid = 0 /\ restarting = 0
    /\ longLived = 0 /\ llgrRunning = 0 /\ llgrFired = 0 /\ llgrExpired = 0
    /\ dirty = 0

-----------------------------------------------------------------------------
vars == <<which, bestPathVars, packerVars, as4PathVars, rpkiVars, policyVars, ribInVars>>

Init ==
    \/ /\ which = "best path" /\ BestPath!Init
       /\ packerIdle /\ as4PathIdle /\ rpkiIdle /\ policyIdle /\ ribInIdle
    \/ /\ which = "packer" /\ Packer!Init
       /\ bestPathIdle /\ as4PathIdle /\ rpkiIdle /\ policyIdle /\ ribInIdle
    \/ /\ which = "as path" /\ As4Path!Init
       /\ bestPathIdle /\ packerIdle /\ rpkiIdle /\ policyIdle /\ ribInIdle
    \/ /\ which = "rpki" /\ Rpki!Init
       /\ bestPathIdle /\ packerIdle /\ as4PathIdle /\ policyIdle /\ ribInIdle
    \/ /\ which = "policy" /\ PolicyTable!Init
       /\ bestPathIdle /\ packerIdle /\ as4PathIdle /\ rpkiIdle /\ ribInIdle
    \/ /\ which = "paths" /\ Paths!Init
       /\ bestPathIdle /\ packerIdle /\ as4PathIdle /\ rpkiIdle /\ policyIdle
    \/ /\ which = "loops" /\ Loops!Init
       /\ bestPathIdle /\ packerIdle /\ as4PathIdle /\ rpkiIdle /\ policyIdle
    \/ /\ which = "faults" /\ Faults!Init
       /\ bestPathIdle /\ packerIdle /\ as4PathIdle /\ rpkiIdle /\ policyIdle
    \/ /\ which = "long-lived" /\ LongLived!Init
       /\ bestPathIdle /\ packerIdle /\ as4PathIdle /\ rpkiIdle /\ policyIdle

Next ==
    \/ /\ which = "best path" /\ BestPath!Next
       /\ UNCHANGED <<which, packerVars, as4PathVars, rpkiVars, policyVars, ribInVars>>
    \/ /\ which = "packer" /\ Packer!Next
       /\ UNCHANGED <<which, bestPathVars, as4PathVars, rpkiVars, policyVars, ribInVars>>
    \/ /\ which = "as path" /\ As4Path!Next
       /\ UNCHANGED <<which, bestPathVars, packerVars, rpkiVars, policyVars, ribInVars>>
    \/ /\ which = "rpki" /\ Rpki!Next
       /\ UNCHANGED <<which, bestPathVars, packerVars, as4PathVars, policyVars, ribInVars>>
    \/ /\ which = "policy" /\ PolicyTable!Next
       /\ UNCHANGED <<which, bestPathVars, packerVars, as4PathVars, rpkiVars, ribInVars>>
    \/ /\ \/ which = "paths" /\ Paths!Next
          \/ which = "loops" /\ Loops!Next
          \/ which = "faults" /\ Faults!Next
          \/ which = "long-lived" /\ LongLived!Next
       /\ UNCHANGED <<which, bestPathVars, packerVars, as4PathVars, rpkiVars, policyVars>>

Spec == Init /\ [][Next]_vars

-----------------------------------------------------------------------------
(* The properties of the component picked; its module says more of each.   *)

\* The list of a destination has one path per source and identifier, and the
\* binary search of insertSort keeps it sorted, where MED is not comparable by
\* all that comes before MED.
Sorted ==
    which = "best path" => BestPath!TypeOK /\ BestPath!Sorted /\ BestPath!SortedByPlain

\* getMultiBestPath finds all the paths as good as the best one.
MultipathExact == which = "best path" => BestPath!MultipathExact

\* Neighbors that are told of changes know the best path (GetChanges), and
\* watchers that are told of differences know the multipath
\* (GetMultiBestPathDiff).
WatchersKnow == which = "best path" => BestPath!WatchersKnow

\* Coalescing and grouping leave a neighbor with what it should hold of all
\* that could be serialized, and End-of-RIB comes after all that was queued
\* before it (createUpdateMsgFromPaths).
Coalesced ==
    which = "packer" => Packer!TypeOK /\ Packer!Coalesced /\ Packer!EorLast

\* No message that could be split is too long as it is packed, that is before
\* the attributes are converted for a neighbor with AS numbers of two bytes.
Fits == which = "packer" => Packer!Fits

\* AS paths and aggregators come through speakers without 4-byte AS numbers as
\* they should be, and those speakers count as many ASes as the others do
\* (UpdatePathAttrs2ByteAs, UpdatePathAttrs4ByteAs).
PathRestored ==
    which = "as path" =>
        As4Path!PathRestored /\ As4Path!OldSeesLength /\ As4Path!AggregatorRestored

\* No segment of an AS path is empty or too long (PrependAsn).
SegmentsFit == which = "as path" => As4Path!SegmentsFit

\* A client of an RPKI cache with nothing more to read is up to date with it
\* (handleRTRMsg), has every ROA of the cache, and routes are validated by what
\* the cache says (ROATable.Validate).
CaughtUp ==
    which = "rpki" => Rpki!CaughtUp /\ Rpki!NothingMissing /\ Rpki!ValidationFollows

\* ROAs of a cache that is away do not stay for ever (lifetimeout), and nothing
\* of a deleted cache stays or comes back (DeleteServer).
RoasEnd == which = "rpki" => Rpki!AwayOnTimer /\ Rpki!DeletedGone

\* What is in use is in the maps: assigned policies in the policy map, their
\* statements in the statement map, the sets of their conditions among the
\* defined sets (DeletePolicy, AddPolicy, DeleteDefinedSet, reload).
ObjectsLive ==
    which = "policy" => /\ PolicyTable!AssignedLive
                        /\ PolicyTable!StatementsLive
                        /\ PolicyTable!ConditionsLive

\* An operation on policies that fails changes the fate of no route.
FailedChangesNoRoute ==
    [][which = "policy" /\ failed' =>
          \A id \in {"g", "c"}, dir \in {"import", "export"}, route \in {"x", "z"} :
              PolicyTable!ApplyPolicy(id, dir, route)' = PolicyTable!ApplyPolicy(id, dir, route)]_vars

\* With ADD-PATH, long-lived restart, prefix limits and deletions the counters
\* of an Adj-RIB-In count its paths, a path identifier has one holder, the
\* table follows (but for the limit, which loses withdrawals), and stale paths
\* exist only during a restart.
RibInv ==
    /\ which = "paths" => /\ Paths!CountersExact
                          /\ Paths!IdInv
                          /\ Paths!LocFollows
                          /\ Paths!StaleOnlyWhileRestarting
    /\ which = "loops" => /\ Loops!CountersExact
                          /\ Loops!IdInv
                          /\ Loops!LocFollows
                          /\ Loops!StaleOnlyWhileRestarting
    /\ which = "faults" => /\ Faults!CountersExact
                           /\ Faults!IdInv
                           /\ Faults!StaleOnlyWhileRestarting
    /\ which = "long-lived" => /\ LongLived!CountersExact
                               /\ LongLived!IdInv
                               /\ LongLived!StaleOnlyWhileRestarting

=============================================================================
