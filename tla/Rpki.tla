---- MODULE Rpki ----
(***************************************************************************)
(* Origin validation: a client of one RPKI cache, pkg/server/rpki.go, and  *)
(* the table of ROAs it keeps, internal/pkg/table/roa.go.                  *)
(*                                                                         *)
(* The client's goroutine dials, sends a Reset Query and reads messages;   *)
(* each message, the connection's begin and end and the lifetime timers    *)
(* are events that wait on an unbuffered channel for the server's          *)
(* goroutine, which handles one at a time (HandleROAEvent) and also does   *)
(* what the API asks for.  The cache on the other side is not this code:   *)
(* it changes its content, tells so, answers queries or refuses to, closes *)
(* connections and restarts with another session.                          *)
(*                                                                         *)
(* Serial numbers are taken modulo SerialMod (2^32 in the code).  Prefixes *)
(* are the ones that contain one address, so that a length says which.     *)
(* The server is configured once; that it is added again after it was      *)
(* deleted, while goroutines of the old client run, is left out.           *)
(***************************************************************************)
EXTENDS Integers, Sequences, FiniteSets, Functions

CONSTANTS
    Roas,           \* ROAs of the cache: records [len, maxLen, as]
    Routes,         \* routes to validate: records [len, as], as 0 for an AS_SET
    SerialMod,
    Forgetful,      \* the cache may not know what changed since a serial number
    FirstSerial,    \* the serial number a session of the cache starts with
    MaxUpdates,     \* bound on changes of the content
    MaxCloses,      \* bound on connections lost
    MaxApi          \* bound on requests of the API

VARIABLES
    configured,     \* the client is in clientMap
    conn,           \* client.conn: "none", "up" or "closed"
    goroutine,      \* where tryConnect and established are
    inflight,       \* the message read, which waits for the server's goroutine
    wire,           \* messages from the cache
    queries,        \* messages to the cache
    eof,            \* the cache closed the connection
    sessionID, oldSessionID, serialNumber, endOfData, pendingROAs,
    timer,          \* client.timer: "none", "armed" or "spent"
    orphans,        \* armed timers client.timer no longer points to
    fired,          \* lifetimeout events that wait
    table,          \* the ROAs of this server in the ROATable
    cache,          \* [session, serial, history: content by serial number,
                    \* refused: a query was answered by an Error Report, and
                    \* none since with all the content]
    budget,         \* what is left of the bounds
    late,           \* a lifetime ended on a connection, and no full answer since
    reused          \* a full answer of the same session left ROAs the cache
                    \* no longer has

client == <<configured, conn, sessionID, oldSessionID, serialNumber, endOfData, pendingROAs>>
net == <<goroutine, inflight, wire, queries, eof>>
timers == <<timer, orphans, fired>>
ghosts == <<late, reused>>
vars == <<client, net, timers, table, cache, budget, ghosts>>

content == cache.history[cache.serial]

\* The cache's ROAs are finitely many, its serial numbers are numbers below
\* SerialMod.
Constants ==
    /\ IsFiniteSet(Roas)
    /\ SerialMod \in Nat \ {0}
    /\ FirstSerial \in 0 .. SerialMod - 1

-----------------------------------------------------------------------------
(* roa.go *)

\* The entries of the buckets on the way to the route's prefix: WalkMatch
Covering(roas, route) == {r \in roas : r.len <= route.len}

Validate(roas, route) ==
    LET fit             == {r \in Covering(roas, route) : route.len <= r.maxLen}
        Matched         == {r \in fit : r.as # 0 /\ r.as = route.as}
        UnmatchedAs     == fit \ Matched
        UnmatchedLength == Covering(roas, route) \ fit
    IN  IF Matched # {} THEN "valid"
        ELSE IF UnmatchedAs # {} \/ UnmatchedLength # {} THEN "invalid"
        ELSE "not-found"

-----------------------------------------------------------------------------

before(a, b) == (a - b) % SerialMod >= SerialMod \div 2

Init ==
    /\ configured = TRUE
    /\ conn = "none"
    /\ goroutine = "dial"
    /\ inflight = <<>> /\ wire = <<>> /\ queries = <<>> /\ eof = TRUE
    /\ sessionID = 0 /\ oldSessionID = 0 /\ serialNumber = 0
    /\ endOfData = FALSE
    /\ pendingROAs = {}
    /\ timer = "none" /\ orphans = 0 /\ fired = 0
    /\ table = {}
    /\ cache = [session |-> 1, serial |-> FirstSerial, history |-> [n \in {FirstSerial} |-> Roas],
                refused |-> FALSE]
    /\ budget = [updates |-> MaxUpdates, closes |-> MaxCloses, api |-> MaxApi]
    /\ late = FALSE
    /\ reused = FALSE

-----------------------------------------------------------------------------
(* The client's goroutine: tryConnect, established *)

\* net.Dial succeeds, and the event waits
Dial ==
    /\ goroutine = "dial"
    /\ goroutine' = "connected"
    /\ wire' = <<>> /\ queries' = <<>> /\ eof' = FALSE
    /\ UNCHANGED <<inflight, client, timers, table, cache, budget, ghosts>>

\* tryConnect finds its context done
GiveUp ==
    /\ goroutine = "dial"
    /\ ~configured
    /\ goroutine' = "gone"
    /\ UNCHANGED <<inflight, wire, queries, eof, client, timers, table, cache, budget, ghosts>>

\* established: the Reset Query, whose write fails on a connection the server's
\* goroutine closed and may fail on one the cache closed
Established ==
    /\ goroutine = "start"
    /\ \/ /\ conn = "up"
          /\ queries' = Append(queries, [type |-> "reset"])
          /\ endOfData' = FALSE
          /\ pendingROAs' = {}
          /\ goroutine' = "read"
       \/ /\ conn = "closed" \/ eof
          /\ goroutine' = "ended"
          /\ UNCHANGED <<queries, endOfData, pendingROAs>>
    /\ UNCHANGED <<configured, conn, sessionID, oldSessionID, serialNumber,
                   inflight, wire, eof, timers, table, cache, budget, ghosts>>

\* established: readRTRMessage returns a message
Read ==
    /\ goroutine = "read"
    /\ conn = "up"
    /\ wire # <<>>
    /\ inflight' = <<Head(wire)>>
    /\ wire' = Tail(wire)
    /\ goroutine' = "event"
    /\ UNCHANGED <<queries, eof, client, timers, table, cache, budget, ghosts>>

\* established: the read fails, and the event of its end waits
ReadFails ==
    /\ goroutine = "read"
    /\ conn = "closed" \/ (eof /\ wire = <<>>)
    /\ goroutine' = "ended"
    /\ UNCHANGED <<inflight, wire, queries, eof, client, timers, table, cache, budget, ghosts>>

\* time.AfterFunc: the event of lifetimeout waits
TimerFires ==
    /\ \/ timer = "armed" /\ timer' = "spent" /\ UNCHANGED orphans
       \/ orphans > 0 /\ orphans' = orphans - 1 /\ UNCHANGED timer
    /\ fired' = fired + 1
    /\ UNCHANGED <<net, client, table, cache, budget, ghosts>>

-----------------------------------------------------------------------------
(* The server's goroutine: HandleROAEvent *)

HandleConnected ==
    /\ goroutine = "connected"
    /\ IF configured
       THEN conn' = "up" /\ goroutine' = "start"
       ELSE UNCHANGED conn /\ goroutine' = "gone"
    /\ UNCHANGED <<configured, sessionID, oldSessionID, serialNumber, endOfData, pendingROAs,
                   inflight, wire, queries, eof, timers, table, cache, budget, ghosts>>

\* Mutant: no timer is started.
HandleDisconnected_NoTimer ==
    /\ goroutine = "ended"
    /\ endOfData' = FALSE /\ pendingROAs' = {} /\ conn' = "none"
    /\ goroutine' = "dial"
    /\ oldSessionID' = sessionID
    /\ UNCHANGED <<configured, sessionID, serialNumber, timers, inflight, wire, queries, eof,
                   table, cache, budget, ghosts>>

HandleDisconnected ==
    /\ goroutine = "ended"
    /\ IF configured
       THEN /\ endOfData' = FALSE
            /\ pendingROAs' = {}
            /\ conn' = "none"
            /\ goroutine' = "dial"
            /\ timer' = "armed"
            /\ orphans' = IF timer = "armed" THEN orphans + 1 ELSE orphans
            /\ oldSessionID' = sessionID
       ELSE /\ goroutine' = "gone"
            /\ UNCHANGED <<endOfData, pendingROAs, conn, timer, orphans, oldSessionID>>
    /\ UNCHANGED <<configured, sessionID, serialNumber, fired, inflight, wire, queries, eof,
                   table, cache, budget, ghosts>>

HandleLifetimeout ==
    /\ fired > 0
    /\ fired' = fired - 1
    /\ IF configured /\ oldSessionID = sessionID
       THEN table' = {} /\ late' = (conn # "none") /\ reused' = FALSE
       ELSE UNCHANGED <<table, late, reused>>
    /\ UNCHANGED <<net, client, timer, orphans, cache, budget>>

\* client.enable, client.softReset: what they write
enable == IF conn = "up"
          THEN Append(queries, [type |-> "serial", session |-> sessionID, serial |-> serialNumber])
          ELSE queries

softReset ==
    IF conn = "up"
    THEN queries' = Append(queries, [type |-> "reset"]) /\ endOfData' = FALSE /\ pendingROAs' = {}
    ELSE UNCHANGED <<queries, endOfData, pendingROAs>>

SerialNotify(msg) ==
    /\ \/ /\ before(serialNumber, msg.serial)
          /\ queries' = enable
          /\ UNCHANGED <<endOfData, pendingROAs>>
       \/ /\ serialNumber = msg.serial
          /\ UNCHANGED <<queries, endOfData, pendingROAs>>
       \/ /\ ~before(serialNumber, msg.serial) /\ serialNumber # msg.serial
          /\ softReset
    /\ UNCHANGED <<sessionID, serialNumber, timer, table, ghosts>>

CacheResponse ==
    /\ endOfData' = FALSE
    /\ UNCHANGED <<queries, pendingROAs, sessionID, serialNumber, timer, table, ghosts>>

\* Mutant: ROAs go to the table as they come.
IPPrefix_Direct(msg) ==
    /\ table' = IF msg.announce THEN table \cup {msg.roa} ELSE table \ {msg.roa}
    /\ UNCHANGED <<pendingROAs, queries, endOfData, sessionID, serialNumber, timer, ghosts>>

IPPrefix(msg) ==
    /\ IF msg.announce
       THEN IF endOfData
            THEN table' = table \cup {msg.roa} /\ UNCHANGED pendingROAs
            ELSE pendingROAs' = pendingROAs \cup {msg.roa} /\ UNCHANGED table
       ELSE table' = table \ {msg.roa} /\ UNCHANGED pendingROAs
    /\ UNCHANGED <<queries, endOfData, sessionID, serialNumber, timer, ghosts>>

EndOfData(msg) ==
    LET kept == IF sessionID # msg.session THEN {} ELSE table
    IN  /\ table' = kept \cup pendingROAs
        /\ pendingROAs' = {}
        /\ sessionID' = msg.session
        /\ serialNumber' = msg.serial
        /\ endOfData' = TRUE
        /\ timer' = "none"
        /\ late' = (late /\ ~msg.full)
        /\ reused' = (IF kept = {} THEN FALSE ELSE reused \/ (msg.full /\ ~(kept \subseteq pendingROAs)))
        /\ UNCHANGED queries

CacheReset ==
    /\ softReset
    /\ UNCHANGED <<sessionID, serialNumber, timer, table, ghosts>>

\* An Error Report is counted, and a message that cannot be parsed is logged.
ErrorReport ==
    UNCHANGED <<queries, endOfData, pendingROAs, sessionID, serialNumber, timer, table, ghosts>>

\* handleRTRMsg
HandleRTR ==
    /\ goroutine = "event"
    /\ goroutine' = "read"
    /\ inflight' = <<>>
    /\ LET msg == inflight[1]
       IN  IF configured
           THEN CASE msg.type = "notify"   -> SerialNotify(msg)
                  [] msg.type = "response" -> CacheResponse
                  [] msg.type = "prefix"   -> IPPrefix(msg)
                  [] msg.type = "eod"      -> EndOfData(msg)
                  [] msg.type = "reset"    -> CacheReset
                  [] msg.type = "error"    -> ErrorReport
           ELSE UNCHANGED <<queries, endOfData, pendingROAs, sessionID, serialNumber, timer,
                            table, ghosts>>
    /\ UNCHANGED <<configured, conn, oldSessionID, wire, eof, orphans, fired, cache, budget>>

-----------------------------------------------------------------------------
(* The API: EnableRpki, DisableRpki, ResetRpki, DeleteRpki *)

Api ==
    /\ configured
    /\ budget.api > 0
    /\ budget' = [budget EXCEPT !.api = @ - 1]

Close == conn' = IF conn = "up" THEN "closed" ELSE conn

Enable ==
    /\ Api
    /\ queries' = enable
    /\ UNCHANGED <<goroutine, inflight, wire, eof, client, timers, table, cache, ghosts>>

\* Disable and Reset
Disable ==
    /\ Api
    /\ Close
    /\ table' = {}
    /\ reused' = FALSE
    /\ UNCHANGED <<configured, sessionID, oldSessionID, serialNumber, endOfData, pendingROAs,
                   net, timers, cache, late>>

SoftReset ==
    /\ Api
    /\ table' = {}
    /\ reused' = FALSE
    /\ softReset
    /\ UNCHANGED <<configured, conn, sessionID, oldSessionID, serialNumber,
                   goroutine, inflight, wire, eof, timers, cache, late>>

DeleteServer ==
    /\ Api
    /\ Close
    /\ configured' = FALSE
    /\ table' = {}
    /\ reused' = FALSE
    /\ UNCHANGED <<sessionID, oldSessionID, serialNumber, endOfData, pendingROAs,
                   net, timers, cache, late>>

-----------------------------------------------------------------------------
(* The cache *)

\* The connection is open on the cache's side
Open == ~eof /\ conn # "closed" /\ goroutine \in {"connected", "start", "read", "event"}

\* The prefixes of ROAs, in some order
Announce(roas, yes) ==
    LET msgs == {[type |-> "prefix", announce |-> yes, roa |-> r] : r \in roas}
    IN  CHOOSE s \in Bijection(1 .. Cardinality(msgs), msgs) : TRUE

Answer(prefixes, full) ==
    <<[type |-> "response"]>> \o prefixes
    \o <<[type |-> "eod", session |-> cache.session, serial |-> cache.serial, full |-> full]>>

\* The cache answers a query, a Serial Query with what changed since, or with
\* a Cache Reset where it does not know, or refuses to
CacheAnswers ==
    /\ Open
    /\ queries # <<>>
    /\ queries' = Tail(queries)
    /\ LET q == Head(queries)
       IN  \/ /\ q.type = "reset"
              /\ wire' = wire \o Answer(Announce(content, TRUE), TRUE)
              /\ cache' = [cache EXCEPT !.refused = FALSE]
           \/ /\ q.type = "serial"
              /\ q.session = cache.session
              /\ q.serial \in DOMAIN cache.history
              /\ LET old == cache.history[q.serial]
                 IN  wire' = wire \o Answer(Announce(old \ content, FALSE)
                                            \o Announce(content \ old, TRUE), FALSE)
              /\ UNCHANGED cache
           \/ /\ q.type = "serial"
              /\ \/ Forgetful
                 \/ q.session # cache.session
                 \/ q.serial \notin DOMAIN cache.history
              /\ wire' = Append(wire, [type |-> "reset"])
              /\ UNCHANGED cache
           \/ /\ wire' = Append(wire, [type |-> "error"])
              /\ cache' = [cache EXCEPT !.refused = TRUE]
    /\ UNCHANGED <<goroutine, inflight, eof, client, timers, table, budget, ghosts>>

\* The content changes, and a client that is connected is told
CacheUpdates(roas) ==
    /\ budget.updates > 0
    /\ roas # content
    /\ budget' = [budget EXCEPT !.updates = @ - 1]
    /\ LET n == (cache.serial + 1) % SerialMod
       IN  /\ cache' = [cache EXCEPT !.serial = n, !.history = [m \in DOMAIN @ \cup {n} |->
                                                        IF m = n THEN roas ELSE @[m]]]
           /\ wire' = IF Open THEN Append(wire, [type |-> "notify", serial |-> n]) ELSE wire
    /\ UNCHANGED <<goroutine, inflight, queries, eof, client, timers, table, ghosts>>

\* The connection is lost, perhaps because the cache restarts
CacheCloses ==
    /\ Open
    /\ budget.closes > 0
    /\ budget' = [budget EXCEPT !.closes = @ - 1]
    /\ eof' = TRUE
    /\ \/ UNCHANGED cache
       \/ cache' = [cache EXCEPT !.session = @ + 1, !.serial = FirstSerial,
                                 !.history = [n \in {FirstSerial} |-> content]]
    /\ UNCHANGED <<goroutine, inflight, wire, queries, client, timers, table, ghosts>>

-----------------------------------------------------------------------------

Next ==
    \/ Dial \/ GiveUp \/ Established \/ Read \/ ReadFails \/ TimerFires
    \/ HandleConnected \/ HandleDisconnected \/ HandleLifetimeout \/ HandleRTR
    \/ Enable \/ Disable \/ SoftReset \/ DeleteServer
    \/ CacheAnswers
    \/ \E roas \in SUBSET Roas : CacheUpdates(roas)
    \/ CacheCloses

Spec == Init /\ [][Next]_vars

-----------------------------------------------------------------------------

\* Nothing is on its way between the client and the cache, which answered
Settled ==
    /\ configured
    /\ goroutine = "read" /\ conn = "up" /\ ~eof
    /\ wire = <<>> /\ queries = <<>>
    /\ ~cache.refused

\* Whatever was interrupted by lost connections, resets and changes, a client
\* that has nothing more to read is at the cache's session and serial number
\* and keeps no ROA back: no change of the cache goes by unasked for, also
\* when the serial number wraps round (handleRTRMsg, before).
CaughtUp ==
    Settled => /\ endOfData
               /\ pendingROAs = {}
               /\ sessionID = cache.session
               /\ serialNumber = cache.serial

\* Then every ROA of the cache is in the table, unless the timer of an earlier
\* loss of the connection emptied it.
NothingMissing == Settled /\ ~late => content \subseteq table

\* And the validation of every route is what the cache's content says (RFC
\* 6811), unless a ROA the cache no longer has was left by a full answer.
ValidationFollows ==
    Settled /\ ~late /\ ~reused =>
        \A route \in Routes :
            LET cover == {r \in content : r.len <= route.len}
            IN  Validate(table, route) =
                    IF cover = {} THEN "not-found"
                    ELSE IF \E r \in cover : /\ route.len <= r.maxLen
                                             /\ r.as = route.as /\ r.as # 0
                    THEN "valid" ELSE "invalid"

\* ROAs of a server that is away are on a timer: without a connection there
\* is one armed, or its event waits, as long as the table has any.
AwayOnTimer ==
    configured /\ conn = "none" /\ table # {} => timer = "armed" \/ orphans > 0 \/ fired > 0

\* After DeleteServer nothing of the server is or comes back in the table,
\* whatever was on its way.
DeletedGone == ~configured => table = {}

\* "already reconnected and received EndOfData so all stale ROAs were deleted"
\* (HandleROAEvent, case c): the table has no ROA the cache does not have.
NoStaleRoa == Settled => table \subseteq content
====
