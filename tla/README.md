# A TLA+ verification of GoBGP

GoBGP is a BGP daemon written in Go.  This directory holds TLA+ modules that
model parts of it, TLC configurations that check the models on small
instances, and theorems that the TLAPS proof system checks for every value of
the constants.  `PROJECT.json` lists the runs, the mutants that show each
property can fail, the theorems, the hazards the properties are aimed at, and
for every definition the source lines it models.

## The system and its parts

A daemon (`BgpServer`, `src/pkg/server/server.go`) owns one `peer` per
neighbor, a global table (Loc-RIB), an optional route-server table, and the
servers for BFD, RPKI, BMP, MRT and Zebra.

| part | state | operations | source | module |
|---|---|---|---|---|
| session FSM | FSM state, admin state, timers, the accepted and the dialled connection, queued notifications | idle, active, opensent, openconfirm, established; enable, disable, reset | `fsm.go` | `PeerFsm`, `PeerSession` |
| Adj-RIB-In | cached paths before import policy, counters | Update, SetRejected, Drop, DropStale, StaleAll, MarkLLGRStaleOrDrop | `adj.go` | `AdjRib` |
| from an UPDATE to the Loc-RIB | walks over path lists, per-prefix locks, local path identifiers, restarting flags and timers of neighbors | handleUpdate, propagateUpdate, soft reset in, PeerDown, End-of-RIB, LLGR timers | `peer.go`, `server.go`, `table.go`, `destination.go` | `RibIn` |
| best path | known paths in order of preference | insertSort, getMultiBestPath, GetChanges | `destination.go` | `BestPath` |
| from the Loc-RIB to neighbors | sentPaths, sendMaxPathFiltered, LocalRestarting | propagateUpdateToNeighbors, filterpath, dumps, soft reset out, deferral | `server.go`, `peer.go` | `Propagation` |
| UPDATE packing | the neighbor's queue | createUpdateMsgFromPaths, sendMessageloop | `message.go`, `fsm.go` | `Packer` |
| AS paths | AS_PATH, AS4_PATH, AGGREGATOR | prepend, remove and replace, conversion to and from 2 bytes | `path.go`, `message.go` | `As4Path` |
| policy | defined sets, statements, policies, assignments | Apply, add, delete, replace, reload | `policy.go` | `PolicyTable` |
| RPKI | ROA table, a client per cache | HandleROAEvent, handleRTRMsg, Validate | `rpki.go`, `roa.go` | `Rpki` |
| BFD | one session per neighbor, a server loop | addPeer, DeletePeer, packets, detection timer, resetPeer | `bfd_server.go`, `bfd_peer.go` | `BfdControl`, `BfdSession` |
| management | the write side of `shared.mu` | add, update and delete neighbors, policies, paths | `server.go` | in the modules it acts on |
| VRF, RTC, watchers, BMP, MRT, Zebra, TCP-AO | | | | see "Not modelled" |

How they run: each neighbor's FSM is a set of goroutines that call
`handleFSMMessage` one message after the other.  Callbacks hold the read side
of `shared.mu`, so the callbacks of two neighbors run at the same time; a
management operation holds the write side and runs alone.  `propagateUpdate`
takes a lock per prefix bucket, so two walks over path lists interleave prefix
by prefix.

How the parts meet:

* FSM to server: `fsmHandler.callback` is `handleFSMMessage`, for a change of
  state and for an UPDATE.  The state is stored after the callback returns
  (`Callback` of `PeerFsm`; stages "syncing" and "storing" of `Propagation`).
* Server to FSM: channels of capacity one (`adminStateCh`, `notification`,
  `deconfiguredNotification`, `connCh`), most of them written without waiting,
  so that a request may be dropped.
* Loc-RIB to neighbors: `RibIn` shows that local path identifiers are unique and
  stable, `BestPath` that changes of the best path are reported, `Propagation`
  starts from both and ends with what is queued for a neighbor, `Packer` takes
  the queue to the wire.
* BFD to server: a session that fails calls `ResetPeer` like an API client
  does; the server reaches BFD through a channel of capacity one.
* Timers (restart, LLGR, deferral, hold, detection, ROA lifetime) run in
  goroutines of their own and come back as callbacks or as management
  operations.

## What is hard in it

* A handler changes the Adj-RIB-In first and the Loc-RIB later, path by path,
  while other neighbors do the same for the same prefixes.
* The table writes the local path identifier into the path object, which the
  Adj-RIB-In may share or may not, depending on what the import policy did.
* Neighbors are sent differences only: each rule that sends a path needs a rule
  that withdraws it, whatever the best paths in between.
* The dump to a new neighbor, walks of others, soft resets and the end of a
  restart work on the same records of what was sent.
* Two connections to a neighbor collide while four goroutines and an operator
  act on the state machine through channels of capacity one.
* Graceful restart keeps the routes of a session that no longer exists; timers
  and a returning neighbor race to decide their fate.
* The dispatcher, the BFD server and a BFD session wait for each other.
* BFD packets are late, repeated or lost, and either system may start again
  with a new discriminator while the other still believes in the old session.
* A list kept by binary insertion with a comparison that is not transitive.
* Objects of the policy engine point to each other while the API names them.

`PROJECT.json` has the full list under "hazards", each with its source line
and the properties that would catch it.

## Modules

| module | models | proofs |
|---|---|---|
| `AdjRib` | an Adj-RIB-In as operators on a table | `RibInProofs` (lemmas) |
| `RibIn` | Adj-RIB-Ins, import policy, Loc-RIB, helper side of graceful restart | `RibInProofs`, `RibInIdProofs` |
| `Propagation` | what neighbors are sent; restarting side of graceful restart | `PropagationProofs`, `PropagationSyncProofs` |
| `PeerSession` | the abstract session the server relies on | |
| `PeerFsm` | the state machine of a neighbor, with its goroutines | `PeerFsmProofs` |
| `BfdControl` | management operations, BFD server and the life of sessions | `BfdRpkiProofs` |
| `BfdSession` | two BFD systems, the network and time | `BfdSessionProofs` |
| `BestPath` | the known path list of a destination and what is told of it | `BestPathProofs` |
| `Rpki` | the client of an RPKI cache and the ROA table | `BfdRpkiProofs` |
| `Packer`, `As4Path`, `PolicyTable` | see above | |
| `MCRibIn`, `MCPropagation`, `MCPeerFsm`, `MCBfdControl`, `MCBfdSession`, `MCPacker`, `MCRpki` | an instance each for TLC | |
| `MCComponents` | nine small instances, of which a behavior picks one | |

### AdjRib, RibIn: from an UPDATE to the Loc-RIB

A table maps a key (prefix, path identifier) to a path or to `NoPath`.  A path
keeps what the operations tell apart: an attribute list (a model value), the
router identifier of the session it came in, whether it is rejected, stale or
LLGR-stale, and its local path identifier.  `Update`, `SetRejected`, `StaleAll`,
`LlgrMarks` and the others are the methods of `AdjRib`; `TotalAfter` and
`AcceptedAfter` are its counters, computed by increments as the code does.

State of `RibIn`: `adj`, `total`, `accepted` are the Adj-RIB-Ins; `loc` and
`idMap` are the known paths and the identifier bitmap of each destination;
`withdraws` and `announces` are the path lists that running handlers still have
to propagate; `mgmt` says whose list the holder of the write lock works on; the
rest is configuration, sessions and the graceful-restart flags of a neighbor.

Actions: the callbacks of `handleFSMMessage` (`Establish`, `HandleUpdate`,
`PeerDown`, `PeerRestart`, `RestartFailed`, `StartLongLived`, `HandleEOR`,
`FsmExit`), the management operations (`SoftResetIn`, `SetPolicies`, `SetLoops`,
`AddPath`, `DeletePath`, `DeletePeer`, `AddPeer`, `LlgrRestartTimerExpired`), a
timer (`LlgrTimeout`), and one iteration of `propagateUpdate` under the lock of
the prefix's bucket (`PropagateWithdraw`, `PropagateAnnounce`).  A callback of a
neighbor starts when its previous one has finished its list and nobody holds the
write lock; a management operation starts when no list is being worked on.

An import policy is a function from attribute lists to accept, modify or reject.
"Modify" matters because a modified path is a copy, so the Adj-RIB-In does not
see the identifier the table gives it.

### Propagation: from the Loc-RIB to the neighbors

One destination: destinations share only the sessions.  A path is a source and
an attribute with a rank; some attributes carry the community LLGR_STALE, which
`postFilterpath` withdraws from a neighbor without long-lived graceful restart.
`Router` gives sources their router identifier, by which `filterPathFromSourcePeer`
goes: the theorems hold for any, the runs have one session per router.

`known` is the Loc-RIB, `walk` the progress of the one holder of the
destination's bucket over the neighbors, `sent` and `held` are
`sentPaths` and `sendMaxPathFiltered`, `view` is what the neighbor will hold once
its queue is sent, `restarting`, `eor`, `timer` and `sync` are the deferral.

Actions: a source announces or withdraws (`Begin` of a walk), the walk reaches a
neighbor (`filterpath`, then the records and the queue), a session comes up in
the stages of its callback (barrier, dump, store), a route refresh or an
outbound soft reset, a change of the export policy, the end of a session in its
stages, the end of a neighbor's restart, with or without a long-lived one to
follow, End-of-RIB, the deferral timer.

`SameAs` leaves out the check of CLUSTER_LIST (`server.go:571-584`), which drops a
path without a withdrawal of the old one.  It is mostly covered by the same check
on the way in (`peer.go:778`).

`gap` is history: it names why a neighbor may be behind what it is due, so that
`InSync` and `AddPathInSync` say that there is no other reason.  The reasons are
a walk between the dump and the store of the state ("window", `fsm.go:2246`), a
policy change without a reset ("policy"), a refresh while the server defers
("deferred"), a dump to a neighbor that has just gone down ("early",
`server.go:1982`), a path that was sent and also flagged as held back
("flagged", `server.go:1588`), a path sent to an ADD-PATH neighbor whose new
version is filtered ("replaced", `server.go:1632`), and a long-lived stale path that
is withdrawn from an ADD-PATH neighbor and keeps its place in the record, or gets the
place of another that is withdrawn ("stale", `server.go:1634`, `1610`).

### PeerSession, PeerFsm: a session's life

`PeerSession` says what the rest of the server relies on, in three variables:
the states in order, no session started while administratively down, none
established without an OPEN received on its own connection.

`PeerFsm` has one action per case of the select in each state's function, the
loop's part between two states (`Leave`, `MgrStopped`, `Callback`), the outgoing
connection managers (`MgrConnect`, `MgrRecv`, `MgrHoldTimer`, `MgrDeliver`,
`MgrCancelled`), the receiver and sender of an established session, the server's
operations on a neighbor (`passConnToPeer`, `sendNotification`, `setAdminState`,
`deleteNeighbor`, which leaves a notification for the peer or, called by `StopBgp` for
a graceful neighbor, none, `stopNeighbor`) and the peer at the other end.  Channels keep
their capacity, and a send that the code does not wait for is lost when they are
full.  Connections are identities, so that it is seen on which one an OPEN was
written or read.  The mapping to `PeerSession`: `state`, `adminState`, and
"opened" is `conn # NoConn /\ recvOpen = conn`.

### BfdControl: who creates and ends a BFD session

State: the neighbor map (`nbr`), callbacks of dynamic neighbors between their
two locks (`leaving`), what the holder of `shared.mu` has still to send to the
BFD server (`section`), the channel (`chan`), the BFD server's map (`peers`), the
session it waits for in `Stop` (`joining`), the sessions left to stop at shutdown
(`rest`), the session objects (`sess`), and the listener with its ticker.

Actions are named after the functions: `addNeighbor`, `updateNeighbor`,
`deleteNeighbor`, `StopBgp`, `stopNeighbor` fill `section`; `Send` is a channel
send and waits for room; `PeerUpdate`, `Config`, `StartStop`, `Shutdown` are the
cases of `bfdServer.loop`; `SessionFails` is a session that calls `ResetPeer` and
stays there until the dispatcher is free.

### BfdSession: what a session sends and believes

Two systems run the code of `bfdPeer` against each other in discrete time.  An
action is a case of the select in `bfdPeer.loop` (`Start`, `TxTimer`, `RxPacket`,
`Expiry`), a new start of a system (`Restart`), or a step of the network
(`Deliver`, `Lose`, `Repeat`).  `Tick` lets time pass when no timer has fired and
no packet is overdue, so handlers run at the instant of their event.
`ResetPeer` returns at once here; `BfdControl` is about what happens when it does
not.  The remote state AdminDown, which this code never sends, is left out.  The
code draws a discriminator of 32 random bits per session; the model numbers the
sessions of a system, so it leaves out that two of them draw the same.

### BestPath, Packer, As4Path, Rpki, PolicyTable

* `BestPath`: the known path list as a sequence, `insertSort` by binary search
  with each comparison of `destination.go`, removal, next-hop changes (a next hop
  becomes unreachable, or its metric becomes the MED of the path), LLGR marking.
  Ages are in seconds, so paths may be equally old.  `told` and `fib` are what
  somebody knows who only hears of differences.
* `Packer`: the queue, its coalescing, the last action per path, grouping by
  attributes in any order (a Go map), the split at the length of a message, and
  `send`: the conversion for a neighbor without 4-byte AS numbers, which comes after
  the split and makes attributes longer or shorter, and the serialization, which
  drops a message that is too long.  IPv4 prefixes with an IPv6 next hop go in
  MP_REACH_NLRI.  `want` is what the neighbor would hold if each path had its own
  message, `lost` are the paths whose last message was dropped.
* `As4Path`: one route travels through speakers with and without 4-byte AS
  numbers; `truth` is the list of elements the path should have.  A 2-byte speaker
  passes AGGREGATOR and AS4_AGGREGATOR on together, so that the error for the second
  without the first (`message.go:286`) does not come up.
* `Rpki`: the client's goroutine, the dispatcher, the timers (also those that
  `client.timer` no longer points to) and the cache, which changes, forgets,
  closes, restarts and answers a query with an Error Report.  Serial numbers wrap.
* `PolicyTable`: maps from names to objects that point to each other, every API
  operation with its reference checks and its error returns (a set of another
  family, names that are not there or there twice), `SetPolicies`, which keeps the
  assignments by name over a reload, and the evaluation of policies.

## Runs

Run one with `tlc -config <cfg> <module>`.

| run | module, cfg | what is checked |
|---|---|---|
| `rib_in_two_peers` | `MCRibIn`, `RibInTwoPeers` | `CountersExact`, `IdInv`, `LocFollows`, `StableLocalId`; `StaleRoutesGo` (liveness) |
| `propagation` | `MCPropagation`, `Propagation` | `Bookkeeping`, `InSync`, `AddPathInSync`, `DeferralHonoured`, `DeferralEnds` |
| `peer_fsm` | `MCPeerFsm`, `PeerFsm` | `OpenOnConn`, `Channels`; `Implements` (refinement); `StopEnds`, `ShutdownEnds`, `ComesUp` (liveness) |
| `bfd_control` | `MCBfdControl`, `BfdControl` | `SessionInv`, `StaticFollowConfig`; `ResetOrWait`, `ListenerFollows`, `StopEnds` (liveness) |
| `bfd_session` | `MCBfdSession`, `BfdSession` | `UpOnly`, `UpWasHeard`, `SilenceDetected`, `NoFalseAlarm`, `TxOnTime`; `ComesUp`, `PollEnds` (liveness) |
| `components` | `MCComponents`, `Components` | `Sorted`, `MultipathExact`, `WatchersKnow` (`BestPath`); `Coalesced`, `Fits` (`Packer`); `PathRestored`, `SegmentsFit` (`As4Path`); `CaughtUp`, `RoasEnd` (`Rpki`); `ObjectsLive`, `FailedChangesNoRoute` (`PolicyTable`); `RibInv` (`RibIn`, four settings) |
| `rib_in_prefix_limit` | `MCRibIn`, `RibInPrefixLimit` | `LocBacked` is violated |
| `rib_in_llgr_timer` | `MCRibIn`, `RibInLlgrTimer` | `RestartEnds` is violated |
| `bfd_control_deadlock` | `MCBfdControl`, `BfdControlDeadlock` | `ResetHappens` is violated |
| `propagation_reflector` | `MCPropagation`, `PropagationReflector` | `NoGhostRoute` is violated |
| `packer_order` | `MCPacker`, `PackerInOrder` | `InOrder` is violated |
| `rpki_stale` | `MCRpki`, `RpkiStale` | `NoStaleRoa` is violated |

What the passing runs show:

* However the walks of two neighbors and the operator interleave on a prefix,
  the Loc-RIB holds nothing that its neighbor's Adj-RIB-In does not accept,
  except where the withdrawal is on the way, and once a handler is done it holds
  exactly what the policy lets in (`LocFollows`, which is `LocBacked` and
  `LocExact`).
* No two paths of a destination are advertised under one identifier, and a
  replaced path keeps its own, so a neighbor sees an update and not a second
  path (`IdInv`, `StableLocalId`).  The former holds even where routes are left
  behind by a prefix limit or a deleted neighbor (`RibInv`).
* Whatever ends a restart removes the stale paths (`StaleOnlyWhileRestarting`,
  in `RibInv`), and without LLGR the routes of a neighbor that stays away go
  (`StaleRoutesGo`).
* Through every order of walks, dumps, resets and session ends the record of what
  was sent lacks nothing a neighbor holds, and has more than that only after the
  gaps "early" and "stale" (`Bookkeeping`); between walks a neighbor holds what it
  is due (`InSync`), and with ADD-PATH it holds all paths or they wait for room
  that is not there (`AddPathInSync`: `NothingForgotten`, `NoIdleRoom`,
  `NoGhostPath`), but for the named gaps.
* A restarted server keeps quiet towards a graceful neighbor until all graceful
  neighbors have been heard or a timer expires, and never keeps quiet without
  something that will end it (`DeferralHonoured`, `DeferralEnds`).
* The state machine implements `PeerSession`; from OPENCONFIRM on everything was
  exchanged on the connection in use; nothing left in a channel from before
  touches a new session, and one that is cancelled finds a notification for the peer
  exactly if there is to be one (`Channels`: `FreshNotification`, `SenderLives`,
  `GoodbyeReady` and the types).  Whatever the peer does, a cancelled neighbor ends
  and an accepted shutdown takes effect, but for the two hangs named `Wedged` and
  `Abandoned`; with a peer that answers, an enabled neighbor comes up, but for
  `Wedged`.
* An address never has two BFD sessions at work, none is forgotten, and the
  sessions of static neighbors are those of the configuration.  Resets, the
  listener and the stop of the server end well unless the circular wait of
  `bfd_control_deadlock` has come about.
* A BFD session that is Up was heard by the other side, notices silence within
  the detection time, does not notice any where there is none, and sends on time
  however many packets arrive.  After a restart both sides come up again.
* The known path list is sorted where preference is transitive (`Transitive` of
  `BestPath` says where), and where MED makes it not so, it is still sorted by what
  comes before MED, or before local origin where two sources are local (`Sorted`);
  multipath by binary search finds all equal paths
  where its comparison agrees with the sort (`MultipathExact`); who hears of
  differences knows the whole (`WatchersKnow`).
* Packing is not seen by the neighbor and End-of-RIB is last (`Coalesced`), but for
  a neighbor without ADD-PATH and two identifiers of a prefix in one pass
  (`packer_order`), and for paths whose last message was dropped because it was too
  long.  The split is right where the length is the one it counts with: a message
  with several NLRIs fits, apart from what the conversion adds afterwards for a
  neighbor without 4-byte AS numbers (`Fits`).  A message that is too long by that
  is dropped as a whole, though smaller ones would have passed.
* AS paths come back as they were from behind 2-byte speakers, however they are
  cut into segments (`PathRestored`, `SegmentsFit`).
* An RPKI client with nothing more to read is where the cache is, unless its last
  query was answered with an Error Report, and its ROAs end when the cache stays
  away or is deleted (`CaughtUp`, `RoasEnd`).
* What policies in use point to is what the API would change, and an operation
  that returns an error changes the fate of no route (`ObjectsLive`,
  `FailedChangesNoRoute`).

### Bounds

* `RibIn`: one prefix.  Destinations do not share state and the handlers of
  `propagateUpdate` work on one prefix at a time; a second one adds only
  interleavings of independent steps.  Two neighbors, or one with two path
  identifiers, are what the identifier bitmap and the source comparison tell
  apart.  `MaxLocalId` bounds the identifiers of a destination at three; since
  identifiers can leak (`IdsAccounted`, below), it cuts off behaviors that go on
  leaking, after at least one leak.  `StaleRoutesGo` excepts a walk stopped by
  this bound (`OutOfIds`).
* `Propagation`: an external neighbor, an internal one and an internal ADD-PATH
  neighbor with a send-max of one; two of them graceful, one of these long-lived; two
  attributes, the better one with the external neighbor's AS in its path, the other
  LLGR_STALE; three events of neighbors and operator after the sessions' own.  Every
  rule of `filterpath` between these kinds applies, send-max is full with the first
  path, and three events are one more than the two best paths a difference is made
  from. `propagation_reflector` has a reflector's client and two internal neighbors.
* `PeerFsm`: four connections (the loop's, one of each of two managers, one
  accepted), one failure, two operations, one accepted connection at a time.
* `BfdControl`: a static and a dynamic address, two session objects (the code
  waits for an old session before it makes the next, so a third is never
  alive), two identities of neighbors, two configurations, three operations:
  the circular wait needs three.
* `BfdSession`: intervals of a few ticks, a delay of at most one tick, one fault
  (a packet lost, repeated, overtaken or dropped because the queue is full) and
  one restart.  A detection multiplier of three leaves room for one lost packet
  and the delay; with two, `NoFalseAlarm` is false by design of the protocol.
  `ComesUp` needs a transmit interval before Up (`Slow`, one second in the code)
  that is long against the delay: with replies that take as long as the interval
  the two systems can go on answering each other's old state.
* `components`: `BestPath` has ten setups that differ in the options, in the one
  attribute that varies and in which sources are local, with three keys, or four
  that all have the same attributes; one source has two identifiers (the theorems
  are for any number of paths); `Packer` a prefix of IPv4 and one of IPv6 with
  two identifiers, four paths, three waiting at a time, room for two prefixes in a
  message unless two-byte AS numbers take it; `As4Path` segments of two numbers and
  paths of up to five elements, so segments fill and are split; `Rpki` two ROAs,
  serial numbers modulo 4 that start at 3 and wrap with the first change, two
  changes, one lost connection, one API request; `PolicyTable` two statements and
  policies, routes of two families, four configurations of which reload refuses two,
  four operations.
* The theorems hold without any of these bounds.

### Fairness

* `RibIn`: a walk goes on, the restart timer of a neighbor that stays down
  fires and its callback gets the lock in the end (strong fairness, because
  others may take the bucket or `shared.mu` in between; neither `sync.Mutex` nor
  `sync.RWMutex` starves a waiter).  The LLGR timer fires (weak).  Nothing is
  assumed of neighbors or operators.
* `PeerFsm`: the loop, the managers (but for dialing and their timer), the goroutine that reads,
  the receiver and the sender go on when they can, `deleteNeighbor` goes on to
  `stopNeighbor` (weak fairness, one condition per goroutine; the cases of a select
  are not told apart, and the loop's timers are among them).  Nothing is assumed of
  the peer, so `StopEnds` and `ShutdownEnds` hold with a silent one.  `ComesUp` has
  its assumption in its statement (`PeerAnswers`): dialing succeeds in the end and the
  peer sends its OPEN and KEEPALIVE; failures and operations end because they are
  bounded.
* `BfdControl`: goroutines that can go on do so; a `select` chooses among ready
  cases at random, so the shutdown of a session that is ready again and again is
  taken (strong fairness); opening the UDP socket succeeds in the end.  Sessions
  need not fail and operators need not act.
* `BfdSession`: time goes on and events are served; the socket of a system can
  be opened in the end.
* `Propagation` and `components` check safety only.

Every property of a passing run has a mutant in `PROJECT.json`: a variant of one
definition, as a plausible bug would make it, under which TLC finds the property
violated.  The variants stand before the definitions they change and are marked
"Mutant".

## Theorems

All constants are arbitrary, subject to the named assumptions of the modules:
`NoPathAssumption`, `NoLlgrAssumption`, `FiniteAssumption` of `AdjRib` (finite
keys, `NoPath` is not a path), `PeersAssumption`, `LimitAssumption`,
`LocalAssumption`, `PolicyAssumption`, `InstalledAssumption` of `RibIn`,
`PropagationAssumption`, `PeerFsmAssumption`, `ConfAssumption`,
`DynamicAssumption`, `NoneAssumption` of `BfdControl`, `NodesAssumption` (two
systems) and `TimeAssumption` of `BfdSession`.  `BestPath` and `Rpki`, of which `MCComponents`
has instances and which it does not extend, have their assumptions as the
definition `Constants` (`BestPath`: every key has a source, router identifiers and
addresses are numbers, setups have the shape the comparisons expect; `Rpki`: the
ROAs are finitely many, serial numbers start below the modulus); their theorems
have it as their hypothesis.  TLC evaluates all of them in the runs.
Three theorems have a hypothesis on the configuration besides, given in the table
and explained below; each excludes a setting in which the property is known to be
false, and the configurations of the passing runs satisfy it.

| theorem | states |
|---|---|
| `RibInProofs!TypeCorrect` | `Spec => []TypeOK` |
| `RibInProofs!CountersCorrect` | `Spec => []CountersExact` |
| `RibInProofs!StaleCorrect` | `Spec => []StaleOnlyWhileRestarting` |
| `RibInIdProofs!IdsCorrect` | `Spec => []IdInv` |
| `RibInIdProofs!LocalIdsUniqueCorrect` | `Spec => []LocalIdsUnique` |
| `RibInIdProofs!RejectedCorrect` | `Spec => []RejectedHoldsNoId` |
| `RibInIdProofs!StableCorrect` | `Spec => StableLocalId` |
| `RibInIdProofs!LocFollowsCorrect` | `Spec => []LocFollows`, assuming `Steady` |
| `PropagationProofs!DeferralHonouredCorrect` | `Spec => []DeferralHonoured` |
| `PropagationProofs!DeferralEndsCorrect` | `Spec => []DeferralEnds` |
| `PropagationProofs!BookkeepingCorrect` | `Spec => []Bookkeeping` |
| `PropagationSyncProofs!InSyncCorrect` | `Spec => []InSync`, assuming `OneKindOfInternal` |
| `PropagationSyncProofs!AddPathInSyncCorrect` | `Spec => []AddPathInSync` |
| `PropagationSyncProofs!NoGhostRouteCorrect` | `Spec => []NoGhostRoute`, assuming `OneKindOfInternal` |
| `PeerFsmProofs!ImplementsSession` | `Spec => Implements` |
| `PeerFsmProofs!OpenOnConnCorrect` | `Spec => []OpenOnConn` |
| `PeerFsmProofs!ChannelsCorrect` | `Spec => []Channels` |
| `BfdRpkiProofs!SessionsCorrect` | `Spec => [](TypeOK /\ SessionInv)` |
| `BfdRpkiProofs!OneSessionCorrect` | `Spec => []OneSession` |
| `BfdRpkiProofs!NoOrphanCorrect` | `Spec => []NoOrphan` |
| `BfdRpkiProofs!StaticFollowConfigCorrect` | `Spec => []StaticFollowConfig` |
| `BfdRpkiProofs!CaughtUpCorrect` | `Rpki!Spec => []Rpki!CaughtUp` |
| `BfdRpkiProofs!RoasEndCorrect` | `Rpki!Spec => [](Rpki!AwayOnTimer /\ Rpki!DeletedGone)` |
| `BfdSessionProofs!UpOnlyCorrect` | `Spec => []UpOnly` |
| `BfdSessionProofs!TxOnTimeCorrect` | `Spec => []TxOnTime` |
| `BfdSessionProofs!SilenceDetectedCorrect` | `Spec => []SilenceDetected` |
| `BfdSessionProofs!UpWasHeardCorrect` | `Spec => []UpWasHeard` |
| `BestPathProofs!OnePathPerKey` | `Spec => []TypeOK` |
| `BestPathProofs!BestFirst` | `Spec => []Sorted` |
| `BestPathProofs!BestByPlain` | `Spec => []SortedByPlain` |
| `BestPathProofs!AllAsGood` | `Spec => []MultipathExact` |
| `BestPathProofs!ChangesSuffice` | `Spec => []WatchersKnow` |

**Counters.**  The counters are naturals only because they are exact: a
decrement stays at or above zero because what it counts is there.  So types and
exactness are proved together, as `TypeInv`, with `AnnouncedAccepted` (a key
still to be announced is accepted; a step that installs it writes into that very
entry).  `RibInProofs` begins with what one message does to a table: which entries
change (`UpdateFacts`), how the numbers of cached and of accepted entries change
(`UpdateCounters`, from `SizeChange` on the cardinality of a set that loses some
members and gains others), and the same for the bulk operations.

**Identifiers.**  `LocalIdsUnique` is not inductive.  A cached path may carry an
identifier from an earlier installation, and announcing it again installs it
with that identifier.  `IdInv` therefore says of every identifier that a cached
path carries that it is flagged, that nobody but the path's own source is
installed with it, that this source is installed with no other, and that no
other cached path of the prefix carries it.  It needs `RejectedHoldsNoId` (or a
rejected path could come back with an identifier that was given away) and
`WithdrawnNotAccepted` (a withdrawal on the way releases the identifier, so the
path it is for must not count on it any more).  The case that matters is
`Install`: `LocalIdHolder` says that the identifier it chooses is the one of the
path replaced, or the path's own and installed nowhere else, or fresh; `FreshId`
is the proof that the bitmap search finds a clear bit.

**Stale paths.**  `StaleOnlyWhileRestarting` is inductive together with the types.
The step to look at is an announcement: it replaces a stale entry by one that is
not stale and marks none; all other marks are set by `StaleAll`, in the step that
begins the restart, and every step that ends a restart drops the marked entries or
the table.

**The Loc-RIB follows.**  `LocFollows` speaks of a neighbor whose handler is done.
`FollowInv` says what has to hold in the middle of a walk: nothing is installed
that is not accepted or on the list of withdrawals (`LocBacked`), and what is
accepted and no longer on the list of announcements is installed as the policy
wants it.  A step of one neighbor's walk leaves the paths of other sources alone
(`RibInstall`), so interleaving does no harm; a change of policy makes neighbors
`dirty` until their soft reset.  `Steady` excludes the three settings that leave a
path behind: a prefix limit (run `rib_in_prefix_limit`), a BGP identifier that
changes (the source of a path includes it), and a deleted neighbor (its last
UPDATE may be handled after its table was dropped).

**Deferral.**  `DeferralInv` adds to the two properties that the dump of all
neighbors that ends a restart is under way only when all graceful neighbors have
been heard, that a recorded End-of-RIB was heard, and that a callback in its
barrier has itself still on its list while its neighbor is deferred to.  The
second property needs the last: it is what remains when the timer was stopped.

**What was sent.**  `BookkeepingCorrect` rests on `KnownInv` (the types of the
Loc-RIB and of the walk, so that everything `filterpath` returns is a path:
`FilterOutcome`) and `OutInv`, with lemmas on each of the ways a neighbor's record
changes: one path sent or withdrawn, with and without ADD-PATH, a dump, a reset.
In each the record and what the neighbor holds change by the same slots, but for the
two gaps the property names; there the record keeps more than the neighbor holds, and
never less.

**What neighbors end up with.**  `InSync` and `AddPathInSync` speak of settled
neighbors; `SyncInv` speaks of all that walks and dumps keep up to date.  A walk
carries the difference between an old best path and the present one (`WalkInv`),
so a neighbor it has yet to reach holds what the old best path made due to it
(`BestInv`).  An ADD-PATH neighbor was sent each path it is due, or it is flagged,
or the walk with it has yet to come (`AddInv`).  A neighbor before its dump, or
deferred to, holds nothing (`BlankInv`), so the dump starts from nothing.  A policy
change breaks what a neighbor is due until its reset, but a weaker half has to
survive it: what a neighbor holds would still pass every filter but the policy, so
that its withdrawal is not filtered.  Without that half a withdrawal between the
policy change and the reset would leave a path behind.  `OneKindOfInternal` says
that not both kinds of internal neighbor, clients and others, are there: with
both, `filterpath` filters the new best path where it sent the old one, which is
the violation of `propagation_reflector`, and `NoGhostRouteCorrect` says that it
takes both.  The end of `PropagationProofs` has the lemmas on `filterpath`, on
sending and on dumps, `PropagationSyncProofs` those on visits of a walk and one per
action.

**The session's refinement.**  `FsmInv` has four parts: the types; `Owned`, each
connection is held by one of the loop, the two channels and the managers, so that
what one closes another is not using; `Dialed`, our OPEN is written on whatever a
manager holds or has delivered; and `LoopInv`.  The state the server sees changes
in `Callback`, some steps after a state's function has returned, while the
managers and the operator go on.  `LoopInv` therefore says of the state that was
returned what `PeerSession` asks of the step into it (`Promises`): for ACTIVE,
still administratively up; for OPENCONFIRM and ESTABLISHED, OPEN received and OPEN
and KEEPALIVE written on the loop's connection.  It holds because only the loop
carries out administrative requests and only the loop closes its connection.
Each action's lemma proves the invariant and the abstract step together.

**Channels.**  What `Channels` says of an established session that runs has to hold
also while the loop, after its hold timer, waits to report the failure to itself
(`Serving`), because it comes back from there.  With this, and with the bound on
the reasons that wait, it is inductive (`ChannelInv`).  The callback into
ESTABLISHED establishes it: it empties what earlier sessions have left before the
loop runs again.

**BFD sessions.**  `OneSession` and `NoOrphan` speak of sessions whose goroutine
runs.  The invariant behind them, `SessionInv`, speaks of session objects: each
is in the server's map under its own address, or is the one waited for, or is on
the list of the shutdown, and no two are for one address.  It is preserved
because `addBfdPeer` leaves an address with a session alone, and because the loop
takes no event while it waits in `Stop`.

`StaticFollowConfig` is about the moment when all events have been handled.  Its
invariant, `ConfigInv`, is about every moment: the event in the channel and those
the dispatcher has still to send, handled in order, turn the session a static
address has into the one its neighbor asks for (`After`).  An update is a deletion
and an addition, and since an addition leaves an existing session alone, the order
is what the proof turns on.

**The client of an RPKI cache.**  `CaughtUp` speaks of the moment when nothing is on
its way.  `CatchInv` speaks of every moment at which no query is: what is on its
way to the client will leave it up to date.  It has two halves.  The last message
on the wire, or the one in the client's hand, or the client itself has the cache's
serial number, where a Cache Reset also counts, because the client answers it with
a query; and the client has a complete answer of the cache's session, or there is
an End of Data or a Cache Reset to come.  Both are for a cache that did not refuse
the last query: after an Error Report nothing is to come (`cache.refused`).  The
second half would break with the first prefix of an answer if the rest of it could
be missing.  So `StreamInv` says that an answer which has begun ends on the wire and
that all ends there are of the cache's session; a new session of the cache begins on
a new connection only.  That the handler of a Serial Notify tells three cases apart
is used, but not which serial number is before which: the theorem holds for any
modulus, also where serial numbers wrap round.  `AwayOnTimer` needs that without a
connection `oldSessionID` is the session of the ROAs, or the lifetime would end
without an effect.

**A BFD session.**  `SoundInv` says of a system that the time since its last packet
and the time left on its transmit timer add up to no more than the effective
interval, which gives `TxOnTime`; that the silence and the time left to detection
add up to no more than the detection time, which gives `SilenceDetected`; and of
systems and of all packets on their way that they are slow unless Up and poll only
what is bound, which gives `UpOnly`.  `rxPacket` can change the effective interval
in either direction; the sum survives because it arms the timer again at its end,
after the state machine.  `HeardInv` is the handshake: a packet of the other's
present session that names a discriminator names one it has heard (`Told`), and
packets of its earlier sessions cannot name the present one as their sender.  It
holds through loss, repetition, reordering and restarts, because a system answers
only what it accepted, and it rests on fresh discriminators.

**The known path list.**  What `sort.Search` returns (`SearchEnds`) is proved by
induction on the length of the interval: it is at an end of the interval, or has an
index outside the set on its left and one in the set on its right, whatever the set.
The provers cannot use the library's induction schemes, so `Induction` is derived
from the well-foundedness of the natural numbers for sets of numbers.  That alone
does not make the result of an insertion sorted.  It takes that the comparisons of
three paths fit together (`Ordered`): if the first is no worse than the second and
the second no worse than the third, the first is no worse than the third, and equal
to it only if all three are, and turning two paths round turns the comparison round.
`OrderedElse` puts two such criteria one after the other; `PreferredOrdered` has the
first three, with no condition, `SettledOrdered` and `PlainOrdered` those before MED for
paths that are not of two local sources (between these the first argument of
`compareByLocalOrigin` wins, whichever it is), `DecideOrdered` all of them where
`Transitive` holds.  `SettledFirst` says that what these decide, `Decide` decides.
Each disjunct of `Transitive` is used: MED fits in where it is always compared among
paths that got so far, and the age before the router identifier where no
confederation member competes with an internal neighbor (or where ages do not
count).  The attempt to prove it with a weaker `Transitive`, one that did not ask
for an AS number other than 0, failed, and with reason: two paths without AS
numbers are not compared by MED.

`MultipathExact` follows from `Sorted` by `Between`: a path that is in the list between
the best one and one as good as it is as good, so that the paths to be found are a
prefix of the list, which is what a binary search needs.  Best path selection and
`Path.Compare` put internal neighbors in different places: for the former a
confederation member is one of them, for the latter it is not.  So the property
needs `NoConfederationAmongInternal`; with both kinds the search can stop before a
path that is as good.  `WatchersKnow` is inductive together with these: what is told
is a difference to the list before the step (`NotifyTells`, `DifferenceHolds`), and the
differences are well defined because a key has one path (`OnePathPerKey`).

Only model-checked:

* all liveness properties, which are out of the prover's reach: `StaleRoutesGo`,
  `StopEnds`, `ShutdownEnds`, `ComesUp`, `PollEnds`, `ResetOrWait`,
  `ListenerFollows`;
* `NoFalseAlarm` of `BfdSession`, which is true only where the multiplier, the
  intervals, the delay and the number of faults fit each other;
* `Packer` and `As4Path`, which fold sequences: what they compute for every input
  needs induction over the sequences, which the provers can be led through only
  one recursive function at a time (as for `Search` of `BestPath`);
* `NothingMissing` and `ValidationFollows` of `Rpki`: they need that a serial number
  the client still has names one content of the cache, which is false once more
  changes than the modulus have happened in one session;
* `PolicyTable`.

## Disagreements between code and documentation

Each has a run of its own (expected outcome: a violation) and an entry under
"findings" in `PROJECT.json`, with the quoted text.

* `rib_in_prefix_limit`: an UPDATE that runs over the prefix limit changes the
  Adj-RIB-In, but the withdrawals that result are dropped, so a path stays in
  the Loc-RIB that no later teardown withdraws.
* `rib_in_llgr_timer`: `llgrRestartTimerExpired` tests a copy made before it set
  the flag, so the last LLGR timer does not end the restart.  A consequence: the
  neighbor still counts as restarting long-lived when it goes down again, no new
  LLGR timer is started, and its stale routes stay (`StaleRoutesGo` fails for
  such neighbors; `rib_in_two_peers` therefore has none).
* `bfd_control_deadlock`: dispatcher, BFD server and a failing session wait for
  each other for ever.
* `propagation_reflector`: when the best path moves from a client of a route
  reflector to an internal neighbor, other internal neighbors are not told that
  the client's path, which was reflected to them, is gone.
* `packer_order`: two announcements of a prefix with different local identifiers
  in one pass reach a neighbor without ADD-PATH in the order of a map.
* `rpki_stale`: a full answer after a reconnect in the same session leaves ROAs
  that were removed in the meantime.

More was met that has no run.  Where a property would not hold because of it, the
property names the exception.

* `fsm.go:362`, `378` (`Wedged`): the loop waits for a manager to stop that waits to
  deliver a second connection into a channel only the loop empties.
* `fsm.go:1551`, `1628` (`Abandoned`): OPENSENT, having taken the dialled connection in
  place of the accepted one, sets the read deadline on the former and waits for the
  goroutine that reads from the latter; only the peer ends the wait.
* `fsm.go:1067` (`OneManager`): two outgoing connection managers can run at once.
* `fsm.go:2265`, `2272`: `changeadminState` compares the state with itself and
  toggles `AdminDown`, so a repeated request inverts the flag.  `server.go:4400`: a
  request that finds `adminStateCh` full is dropped with a warning in the log.
* An incoming connection that waits while OPENSENT adopts the dialled one stays
  open until it is collected, as does one whose first write fails in ACTIVE
  (`Collect`).
* `fsm.go:2246`: a route that changes between the dump and the store of ESTABLISHED
  is not sent to the new neighbor until it changes again ("window").
* `server.go:1632`: when the new version of a path is filtered, an ADD-PATH neighbor
  keeps the version before it ("replaced"); and the withdrawal that comes later is
  filtered as well if what blocked the last version was not the policy
  (`server.go:1588`).
* `server.go:1634`: a long-lived stale path that is withdrawn from an ADD-PATH neighbor
  without long-lived graceful restart stays in `sentPaths` and counts against send-max
  ("stale").
* `fsm.go:1820`, `1828`: AS4_PATH and AS4_AGGREGATOR are added after messages were
  split; one that is too long then is dropped as a whole, with paths that would have
  fitted one by one (`lost`).
* `server.go:1701`: the callback of a dynamic neighbor that went down deletes the
  BFD session of a neighbor that has taken its address since; hence
  `StaticFollowConfig` is about addresses no dynamic neighbor can take.
* `IdsAccounted` of `RibIn` fails when a path is installed, the policy comes to
  reject it, and the neighbor sends it again: its identifier stays flagged.
* `OneVersion` of `RibIn` fails with two router identifiers: a neighbor that
  returns from a graceful restart with another one adds a path beside its stale
  one.
* Preference is not transitive where MED is compared within an AS only, or where
  confederation members compete with internal neighbors; the best path then
  depends on the order of arrival.  The LLGR-stale comparison comes before the one
  for reachability, and multipath by binary search misses paths where AS path
  length is ignored or where confederation members compete with internal neighbors.
* `destination.go:724`: of two local paths of different sources the one compared first
  wins, so the last to arrive goes before the others of its local preference whatever
  comes after in the selection (`OneLocalSource` of `Transitive`).
* `As4Path` excepts paths where as-path-prepend put a sequence before a
  confederation's segment (`mixed`).
* `rpki.go:290`: an Error Report is counted, and nothing asks again; the client stays
  where it is until the next Serial Notify or reconnect (`refused`).
* `rpki.go:179`: a second loss of the connection leaves an earlier timer running
  that empties the table of a client in sync (`late`).  `server.go:4937`: the API deletes,
  enables and disables by address without the port the server was added with.
* `policy.go:4426`: statements keep a defined set that was replaced or, outside
  policies, deleted (`cut`); a policy that refers to a missing statement gets a bare
  one (`loose`).
* `policy.go:4774`: on a reload a direction with a policy that is gone is passed over;
  a route server client is then left without its other policies and without a
  default, and its routes are rejected, while the call succeeds.
* `bfd.md` (87-90) gives the local detection time as the product of the local
  receive interval and the local multiplier, while the code uses the remote
  multiplier and the larger of the two intervals.

## Not modelled

* Message formats (BGP, BMP, MRT, RTR, Zebra), the conversion between API and
  internal types, configuration files, logging, metrics, the command line client
  and the gRPC front end: data transformation or I/O without protocol state.
  They are most of the repository's lines.
* Route target constraint and VRFs: filters and translations of paths on the way
  into the tables and out of them.  The order of events is the one of `RibIn` and
  `Propagation`.
* Watchers, BMP and MRT: consumers of an unbounded queue filled under the locks
  that order the events; what best-path events say is in `BestPath`.
* Zebra: registration and installation through another daemon; the effect of a
  next-hop update is in `BestPath`.
* TCP-AO: reference counts of keychains on sockets of the operating system.
* In modelled parts: route server clients, secondary routes and ADD-PATH of VPN
  families on the way out; the content of OPEN beyond the router identifier;
  conditions of policies other than one kind of defined set; several RPKI caches.

`PROJECT.json` gives the reason for each part under "components".
