------------------------------ MODULE Directory ------------------------------
(***************************************************************************)
(* The directory server (directory-server/main.go): the in-memory registry *)
(* of nodes behind one RWMutex, the HTTP handlers, and the health monitor  *)
(* driven by a ticker.                                                     *)
(*                                                                         *)
(* The registry operations are atomic (they hold the mutex), but a handler *)
(* is not: POST /register and POST /heartbeat read the clock first and     *)
(* take the mutex afterwards, so each is two steps and any number of them  *)
(* interleave.  The ticker's channel holds one tick and the monitor        *)
(* compares records with the time IN the tick, which may be behind the     *)
(* clock.                                                                  *)
(***************************************************************************)
EXTENDS Integers, Sequences

CONSTANTS
    Registration,     \* the bodies POST /register is called with
    HeartbeatTimeout, \* HEARTBEAT_TIMEOUT
    CleanupInterval,  \* HEARTBEAT_CLEANUP_INTERVAL
    HandlerDelay,     \* longest time from a handler's s.now() to its turn
                      \* at the mutex
    MonitorDelay,     \* longest time a tick waits in the ticker's channel
    MaxTime           \* bound on the clock

ASSUME TimingAssumption ==
    /\ HeartbeatTimeout \in Nat
    /\ CleanupInterval \in Nat \ {0}
    /\ HandlerDelay \in Nat /\ HandlerDelay <= HeartbeatTimeout
    /\ MonitorDelay \in Nat /\ MonitorDelay < CleanupInterval
    /\ MaxTime \in Nat

VARIABLES
    now,        \* the wall clock
    nodes,      \* NodeRegistry.nodes: [known id -> NodeRecord]
    upserts,    \* register handlers that have read the clock
    beats,      \* heartbeat handlers that have read the clock
    ticks,      \* the ticker's channel
    nextTick,   \* when the ticker fires next
    heard       \* history, not in the code: [known id -> newest clock reading
                \* of a sign of life that took effect since it is known]

vars == <<now, nodes, upserts, beats, ticks, nextTick, heard>>

NodeType == {"guard", "relay", "exit"}
MaxPort == 65535
Id == {reg.nodeId : reg \in Registration}

----------------------------------------------------------------------------
(* Operators on a registry, a function from known ids to records.          *)

Empty == [id \in {} |-> 0]

Put(f, id, v) == [i \in DOMAIN f \cup {id} |-> IF i = id THEN v ELSE f[i]]
Drop(f, id) == [i \in DOMAIN f \ {id} |-> f[i]]

Healthy(reg) == {id \in DOMAIN reg : reg[id].status = "HEALTHY"}

\* validateNodeRegistration.  The id of every caller is a UUID it generated
\* itself, so the id is never what is wrong; host and port can be.
Valid(reg) ==
    /\ reg.nodeType \in NodeType
    /\ reg.host # ""
    /\ reg.port \in 1..MaxPort

\* NodeRegistry.List and GroupByType, as sets: the ids a caller is shown.
List(reg, includeUnhealthy) ==
    IF includeUnhealthy THEN DOMAIN reg ELSE Healthy(reg)

GroupByType(reg, includeUnhealthy) ==
    [type \in NodeType |->
        {id \in List(reg, includeUnhealthy) : reg[id].nodeType = type}]

\* Mutant: the candidates are not restricted to HEALTHY ones.
CircuitsOfAll(reg, hops) ==
    LET grouped == GroupByType(reg, TRUE)
        roles == IF hops = 1 THEN {"guard"} ELSE NodeType
    IN  {c \in [roles -> DOMAIN reg] : \A r \in roles : c[r] \in grouped[r]}

\* circuitHandler: every answer GET /circuit?hops=N can give; none is a 503.
Circuits(reg, hops) ==
    LET grouped == GroupByType(reg, FALSE)
        roles == IF hops = 1 THEN {"guard"} ELSE NodeType
    IN  {c \in [roles -> DOMAIN reg] : \A r \in roles : c[r] \in grouped[r]}

\* The NodeRecord a sign of life leaves: Upsert builds it anew, Heartbeat
\* keeps what was registered.
Record(type, time) ==
    [nodeType |-> type, lastSeen |-> time, status |-> "HEALTHY"]

\* Mutant: `age / timeout > 1`, and integer division truncates.
MarkTruncated(reg, time, timeout) ==
    [id \in DOMAIN reg |->
        IF reg[id].status = "HEALTHY" /\ (time - reg[id].lastSeen) \div timeout > 1
        THEN [reg[id] EXCEPT !.status = "UNHEALTHY"]
        ELSE reg[id]]

\* Mutant: `>=` for `>`.
MarkAtTimeout(reg, time, timeout) ==
    [id \in DOMAIN reg |->
        IF reg[id].status = "HEALTHY" /\ time - reg[id].lastSeen >= timeout
        THEN [reg[id] EXCEPT !.status = "UNHEALTHY"]
        ELSE reg[id]]

\* NodeRegistry.MarkUnhealthy
MarkUnhealthy(reg, time, timeout) ==
    [id \in DOMAIN reg |->
        IF reg[id].status = "HEALTHY" /\ time - reg[id].lastSeen > timeout
        THEN [reg[id] EXCEPT !.status = "UNHEALTHY"]
        ELSE reg[id]]

Newest(id, t) ==
    IF id \in DOMAIN heard /\ heard[id] > t THEN heard[id] ELSE t

----------------------------------------------------------------------------
Init ==
    /\ now = 0
    /\ nodes = Empty
    /\ upserts = {}
    /\ beats = {}
    /\ ticks = <<>>
    /\ nextTick = CleanupInterval
    /\ heard = Empty

\* POST /register up to s.now(); a body that does not validate gets a 400.
RegisterHandler(reg) ==
    /\ Valid(reg)
    /\ upserts' = upserts \cup {[reg |-> reg, at |-> now]}
    /\ UNCHANGED <<now, nodes, beats, ticks, nextTick, heard>>

\* The rest of it: the whole record is replaced, whatever it was.
Upsert(u) ==
    /\ u \in upserts
    /\ upserts' = upserts \ {u}
    /\ nodes' = Put(nodes, u.reg.nodeId, Record(u.reg.nodeType, u.at))
    /\ heard' = Put(heard, u.reg.nodeId, Newest(u.reg.nodeId, u.at))
    /\ UNCHANGED <<now, beats, ticks, nextTick>>

\* POST /heartbeat/{nodeId} up to s.now()
HeartbeatHandler(id) ==
    /\ beats' = beats \cup {[id |-> id, at |-> now]}
    /\ UNCHANGED <<now, nodes, upserts, ticks, nextTick, heard>>

\* Mutant: the status is set, lastSeen is not.
HeartbeatKeepsLastSeen(b) ==
    /\ b \in beats
    /\ b.id \in DOMAIN nodes
    /\ beats' = beats \ {b}
    /\ nodes' = [nodes EXCEPT ![b.id].status = "HEALTHY"]
    /\ heard' = Put(heard, b.id, Newest(b.id, b.at))
    /\ UNCHANGED <<now, upserts, ticks, nextTick>>

\* The rest of it, for a known id ...
Heartbeat(b) ==
    /\ b \in beats
    /\ b.id \in DOMAIN nodes
    /\ beats' = beats \ {b}
    /\ nodes' = Put(nodes, b.id, Record(nodes[b.id].nodeType, b.at))
    /\ heard' = Put(heard, b.id, Newest(b.id, b.at))
    /\ UNCHANGED <<now, upserts, ticks, nextTick>>

\* ... and for an unknown one: 404, nothing is recorded.
HeartbeatUnknown(b) ==
    /\ b \in beats
    /\ b.id \notin DOMAIN nodes
    /\ beats' = beats \ {b}
    /\ UNCHANGED <<now, nodes, upserts, ticks, nextTick, heard>>

\* DELETE /deregister/{nodeId}; an unknown id gets a 404.
Deregister(id) ==
    /\ id \in DOMAIN nodes
    /\ nodes' = Drop(nodes, id)
    /\ heard' = Drop(heard, id)
    /\ UNCHANGED <<now, upserts, beats, ticks, nextTick>>

\* Mutant: marks what will have expired by the next tick.
MonitorTickAhead ==
    /\ ticks # <<>>
    /\ nodes' = MarkUnhealthy(nodes, nextTick, HeartbeatTimeout)
    /\ ticks' = Tail(ticks)
    /\ UNCHANGED <<now, upserts, beats, nextTick, heard>>

\* runHealthMonitor takes a tick and marks with the time in it.
MonitorTick ==
    /\ ticks # <<>>
    /\ nodes' = MarkUnhealthy(nodes, Head(ticks), HeartbeatTimeout)
    /\ ticks' = Tail(ticks)
    /\ UNCHANGED <<now, upserts, beats, nextTick, heard>>

\* The process dies and is started again: run() with an empty registry.
\* The handlers in flight die with it.
Restart ==
    /\ nodes' = Empty
    /\ upserts' = {}
    /\ beats' = {}
    /\ ticks' = <<>>
    /\ nextTick' = now + CleanupInterval
    /\ heard' = Empty
    /\ UNCHANGED now

\* Time passes unless a handler or the monitor is due.  The ticker drops a
\* tick that finds its channel full.
Advance ==
    /\ now < MaxTime
    /\ \A c \in upserts \cup beats : now < c.at + HandlerDelay
    /\ ticks # <<>> => now < Head(ticks) + MonitorDelay
    /\ now' = now + 1
    /\ IF now + 1 = nextTick
       THEN /\ ticks' = IF ticks = <<>> THEN <<nextTick>> ELSE ticks
            /\ nextTick' = nextTick + CleanupInterval
       ELSE UNCHANGED <<ticks, nextTick>>
    /\ UNCHANGED <<nodes, upserts, beats, heard>>

Next ==
    \/ \E reg \in Registration : RegisterHandler(reg)
    \/ \E u \in upserts : Upsert(u)
    \/ \E id \in Id : HeartbeatHandler(id)
    \/ \E b \in beats : Heartbeat(b)
    \/ \E b \in beats : HeartbeatUnknown(b)
    \/ \E id \in Id : Deregister(id)
    \/ MonitorTick
    \/ Restart
    \/ Advance

Spec == Init /\ [][Next]_vars

----------------------------------------------------------------------------
(* Properties.                                                             *)

Timestamp == 0..MaxTime

TypeOK ==
    /\ now \in Timestamp
    /\ DOMAIN nodes \subseteq Id
    /\ \A id \in DOMAIN nodes :
          nodes[id] \in [nodeType : NodeType, lastSeen : Timestamp,
                         status : {"HEALTHY", "UNHEALTHY"}]
    /\ upserts \subseteq [reg : {reg \in Registration : Valid(reg)}, at : Timestamp]
    /\ beats \subseteq [id : Id, at : Timestamp]
    /\ ticks = <<>> \/ \E t \in Timestamp : ticks = <<t>>
    /\ nextTick \in Nat
    /\ DOMAIN heard = DOMAIN nodes
    /\ \A id \in DOMAIN heard : heard[id] \in Timestamp

\* The oldest record a caller can be shown as HEALTHY.
StaleBound == HeartbeatTimeout + CleanupInterval + MonitorDelay

\* GET /nodes never shows a node whose last sign of life is older than the
\* timeout, one cleanup interval and the monitor's delay: neither a late tick,
\* nor a handler that stamps a record with an old clock reading, nor a restart
\* of the server makes the health monitor miss one.
ListedAreRecent ==
    \A id \in List(nodes, FALSE) : now - nodes[id].lastSeen <= StaleBound

\* Nor does GET /circuit hand out a circuit with such a node in it, or with a
\* node in the place of another type.
CircuitsAreRecent ==
    \A hops \in {1, 3} : \A c \in Circuits(nodes, hops) : \A r \in DOMAIN c :
        nodes[c[r]].nodeType = r /\ now - nodes[c[r]].lastSeen <= StaleBound

\* Two handlers for one node can take the mutex in the opposite order of
\* their clock readings, and then LastSeen goes BACK (Upsert and Heartbeat
\* do not compare).  By no more than a handler's delay, though: ...
RegressionBound ==
    \A id \in DOMAIN nodes : heard[id] - nodes[id].lastSeen <= HandlerDelay

\* ... so no step of the health monitor suspects a node whose newest sign of
\* life is not older than the timeout less that delay.
EarlySuspicionBound ==
    [][\A id \in DOMAIN nodes \cap DOMAIN nodes' :
          nodes[id].status = "HEALTHY" /\ nodes'[id].status = "UNHEALTHY"
             => now - heard[id] > HeartbeatTimeout - HandlerDelay]_vars

\* What GET /debug/nodes shows of the registry.
View ==
    [id \in DOMAIN nodes |->
        [seen |-> nodes[id].lastSeen, status |-> nodes[id].status]]

\* The directory is a real-time failure detector: seen through
\* GET /debug/nodes, every one of its steps is one of FailureDetector.
Detector == INSTANCE FailureDetector WITH
    Timeout <- HeartbeatTimeout, Lag <- HandlerDelay, Bound <- StaleBound,
    Horizon <- MaxTime, clock <- now, view <- View

ImplementsDetector == Detector!Spec
=============================================================================
