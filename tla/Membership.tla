----------------------------- MODULE Membership -----------------------------
(***************************************************************************)
(* The node agents (shared/node/registration.go, started by the run() of   *)
(* guard-node, relay-node and exit-node) together with the directory.      *)
(*                                                                         *)
(* A node process makes itself an identity, registers with exponential     *)
(* backoff until the directory accepts it, and from then on only sends     *)
(* heartbeats: a failed heartbeat, and a 404 in particular, is logged and  *)
(* forgotten.  Every call can be lost on the way there or back, or outlive *)
(* its caller, on its way to the directory or inside it; a process can die *)
(* at any moment and be started again with a new identity; the directory   *)
(* can be restarted, and loses its registry.                               *)
(*                                                                         *)
(* Every step here is a step of Directory, or leaves it as it is.          *)
(***************************************************************************)
EXTENDS Directory

CONSTANTS
    Process,           \* the node processes
    TypeOf,            \* [Process -> NodeType], NODE_TYPE
    HeartbeatInterval, \* between two heartbeats of a node
    HttpTimeout,       \* http.Client.Timeout of a node
    MaxBackoff,        \* cap on the wait between two registrations
    Linger,            \* longest time a request can still reach its handler
                       \* after its caller has given up, or died
    MaxStarts          \* bound on the starts of a process

ASSUME MembershipAssumption ==
    /\ TypeOf \in [Process -> NodeType]
    /\ HeartbeatInterval \in Nat \ {0}
    /\ HttpTimeout \in Nat /\ HttpTimeout < HeartbeatInterval
    /\ MaxBackoff \in Nat \ {0}
    /\ Linger \in Nat
    /\ MaxStarts \in Nat

\* Mutant: a node keeps its id from start to start.
SameId(p, start) == <<p, 1>>

\* NewIdentity: every start has an id of its own, and the address that
\* ResolveOwnAddress found or, when it found none, the empty host.
NodeId(p, start) == <<p, start>>
Hosts == {"10.0.1.1", ""}
Body(p, start, host) ==
    [nodeId |-> NodeId(p, start), nodeType |-> TypeOf[p], host |-> host, port |-> 8080]
Bodies == {Body(p, start, host) : p \in Process, start \in 1..MaxStarts, host \in Hosts}

ASSUME RegistrationAssumption == Registration = Bodies

VARIABLES
    agent,    \* [Process -> what the process is doing]
    call,     \* [Process -> its HTTP request, at most one at a time]
    adrift,   \* requests on their way to the directory whose callers are gone
    lastSign, \* history: [Process -> when it last started, or failed to register]
    misses,   \* history: [Process -> heartbeats in a row that did not take effect]
    diedAt    \* history: [id -> when its process died]

agents == <<agent, call, adrift, lastSign, misses, diedAt>>
systemVars == <<now, nodes, upserts, beats, ticks, nextTick, heard,
                agent, call, adrift, lastSign, misses, diedAt>>

MyId(p) == NodeId(p, agent[p].start)
MyBody(p) == Body(p, agent[p].start, agent[p].host)

NoCall == [st |-> "none", at |-> 0, deadline |-> 0]
Sent == [st |-> "sent", at |-> 0, deadline |-> now + HttpTimeout]

\* A request of p is being handled since t, has an answer, is over.
Becomes(p, st, t) ==
    call' = [call EXCEPT ![p] = [st |-> st, at |-> t, deadline |-> call[p].deadline]]
Pending(p, t) == call[p].st = "handling" /\ call[p].at = t
Ends(p) == call' = [call EXCEPT ![p] = NoCall]

\* The caller of a request is gone.  If the request had not reached its handler
\* it is lost, or still does, up to Linger later.
Late(p) == [reg |-> MyBody(p), to |-> agent[p].phase, until |-> now + Linger]
Abandons(p) ==
    /\ Ends(p)
    /\ \/ UNCHANGED adrift
       \/ call[p].st = "sent" /\ adrift' = adrift \cup {Late(p)}

Goes(p, phase, timer, backoff) ==
    agent' = [agent EXCEPT ![p] =
                 [phase |-> phase, start |-> agent[p].start, host |-> agent[p].host,
                  timer |-> timer, backoff |-> backoff]]

Smaller(a, b) == IF a < b THEN a ELSE b

----------------------------------------------------------------------------
SystemInit ==
    /\ Init
    /\ agent = [p \in Process |-> [phase |-> "down", start |-> 0, host |-> "",
                                   timer |-> 0, backoff |-> 1]]
    /\ call = [p \in Process |-> NoCall]
    /\ adrift = {}
    /\ lastSign = [p \in Process |-> 0]
    /\ misses = [p \in Process |-> 0]
    /\ diedAt = Empty

----------------------------------------------------------------------------
(* A node process.                                                         *)

\* run(): a new identity, and StartWithBackoff at once.
StartProcess(p) ==
    /\ agent[p].phase = "down"
    /\ agent[p].start < MaxStarts
    /\ \E host \in Hosts :
          agent' = [agent EXCEPT ![p] =
                       [phase |-> "register", start |-> agent[p].start + 1,
                        host |-> host, timer |-> now, backoff |-> 1]]
    /\ lastSign' = [lastSign EXCEPT ![p] = now]
    /\ misses' = [misses EXCEPT ![p] = 0]
    /\ UNCHANGED <<vars, call, adrift, diedAt>>

\* Register, at the top of the loop: POST /register.
SendRegister(p) ==
    /\ agent[p].phase = "register" /\ agent[p].timer = now
    /\ call[p].st = "none"
    /\ call' = [call EXCEPT ![p] = Sent]
    /\ UNCHANGED <<vars, agent, adrift, lastSign, misses, diedAt>>

\* Registered: on to StartHeartbeat, whose first tick is one interval away.
Registered(p) ==
    /\ agent[p].phase = "register" /\ call[p].st = "ok"
    /\ Ends(p)
    /\ Goes(p, "beat", now + HeartbeatInterval, agent[p].backoff)
    /\ UNCHANGED <<vars, adrift, lastSign, misses, diedAt>>

\* Mutant: the backoff is not capped.
RegisterFailsUncapped(p) ==
    /\ agent[p].phase = "register" /\ call[p].st # "none"
    /\ Abandons(p)
    /\ Goes(p, "register", now + agent[p].backoff, 2 * agent[p].backoff)
    /\ lastSign' = [lastSign EXCEPT ![p] = now]
    /\ UNCHANGED <<vars, misses, diedAt>>

\* Refused, lost or timed out: wait, and twice as long the next time.
RegisterFails(p) ==
    /\ agent[p].phase = "register" /\ call[p].st # "none"
    /\ Abandons(p)
    /\ Goes(p, "register", now + agent[p].backoff,
            Smaller(2 * agent[p].backoff, MaxBackoff))
    /\ lastSign' = [lastSign EXCEPT ![p] = now]
    /\ UNCHANGED <<vars, misses, diedAt>>

\* The ticker of StartHeartbeat: POST /heartbeat/{nodeId}.
SendBeat(p) ==
    /\ agent[p].phase = "beat" /\ agent[p].timer = now
    /\ call[p].st = "none"
    /\ call' = [call EXCEPT ![p] = Sent]
    /\ Goes(p, "beat", now + HeartbeatInterval, agent[p].backoff)
    /\ UNCHANGED <<vars, adrift, lastSign, misses, diedAt>>

\* Whatever came of it, it is logged and the loop goes on.
BeatEnds(p) ==
    /\ agent[p].phase = "beat" /\ call[p].st # "none"
    /\ Abandons(p)
    /\ misses' = [misses EXCEPT ![p] = IF call[p].st = "sent" THEN @ + 1 ELSE @]
    /\ UNCHANGED <<vars, agent, lastSign, diedAt>>

\* The process dies, in the middle of whatever it does.
Die(p) ==
    /\ agent[p].phase # "down"
    /\ Goes(p, "down", agent[p].timer, agent[p].backoff)
    /\ Abandons(p)
    /\ diedAt' = Put(diedAt, MyId(p), now)
    /\ UNCHANGED <<vars, lastSign, misses>>

----------------------------------------------------------------------------
(* The directory's side of a call.                                         *)

\* POST /register reaches the handler, which answers 400 or goes on.
RegisterArrives(p) ==
    /\ agent[p].phase = "register" /\ call[p].st = "sent"
    /\ RegisterHandler(MyBody(p))
    /\ Becomes(p, "handling", now)
    /\ UNCHANGED <<agent, adrift, lastSign, misses, diedAt>>

RegisterRefused(p) ==
    /\ agent[p].phase = "register" /\ call[p].st = "sent"
    /\ ~Valid(MyBody(p))
    /\ Becomes(p, "refused", now)
    /\ UNCHANGED <<vars, agent, adrift, lastSign, misses, diedAt>>

\* The registration takes effect, whether or not its caller still waits.
RegisterTakesEffect(p, u) ==
    /\ u.reg.nodeId[1] = p
    /\ Upsert(u)
    /\ IF agent[p].phase = "register" /\ u.reg.nodeId = MyId(p) /\ Pending(p, u.at)
       THEN Becomes(p, "ok", u.at) ELSE UNCHANGED call
    /\ UNCHANGED <<agent, adrift, lastSign, misses, diedAt>>

BeatArrives(p) ==
    /\ agent[p].phase = "beat" /\ call[p].st = "sent"
    /\ HeartbeatHandler(MyId(p))
    /\ Becomes(p, "handling", now)
    /\ UNCHANGED <<agent, adrift, lastSign, misses, diedAt>>

Answered(p, b, st) ==
    IF agent[p].phase = "beat" /\ b.id = MyId(p) /\ Pending(p, b.at)
    THEN Becomes(p, st, b.at) ELSE UNCHANGED call

BeatTakesEffect(p, b) ==
    /\ b.id[1] = p
    /\ Heartbeat(b)
    /\ Answered(p, b, "ok")
    /\ misses' = IF b.id = MyId(p) THEN [misses EXCEPT ![p] = 0] ELSE misses
    /\ UNCHANGED <<agent, adrift, lastSign, diedAt>>

\* Mutant: a heartbeat registers a node the directory does not know.
BeatRegisters(p, b) ==
    /\ b.id[1] = p /\ b \in beats /\ b.id \notin DOMAIN nodes
    /\ beats' = beats \ {b}
    /\ nodes' = Put(nodes, b.id, Record(TypeOf[p], b.at))
    /\ heard' = Put(heard, b.id, b.at)
    /\ Answered(p, b, "ok")
    /\ UNCHANGED <<now, upserts, ticks, nextTick, agent, adrift, lastSign, misses, diedAt>>

BeatUnknown(p, b) ==
    /\ b.id[1] = p
    /\ HeartbeatUnknown(b)
    /\ Answered(p, b, "refused")
    /\ UNCHANGED <<agent, adrift, lastSign, misses, diedAt>>

\* The same handlers for a request whose caller is gone.
LateRegister(p, m) ==
    /\ m.to = "register" /\ m.reg.nodeId[1] = p
    /\ RegisterHandler(m.reg)
    /\ adrift' = adrift \ {m}
    /\ UNCHANGED <<agent, call, lastSign, misses, diedAt>>

LateRegisterRefused(p, m) ==
    /\ m.to = "register" /\ m.reg.nodeId[1] = p
    /\ ~Valid(m.reg)
    /\ adrift' = adrift \ {m}
    /\ UNCHANGED <<vars, agent, call, lastSign, misses, diedAt>>

LateBeat(p, m) ==
    /\ m.to = "beat" /\ m.reg.nodeId[1] = p
    /\ HeartbeatHandler(m.reg.nodeId)
    /\ adrift' = adrift \ {m}
    /\ UNCHANGED <<agent, call, lastSign, misses, diedAt>>

\* The directory dies and is started again: every connection is reset.
DirectoryRestarts ==
    /\ Restart
    /\ adrift' = {}
    /\ call' = [p \in Process |->
                  IF call[p].st = "none" THEN NoCall
                  ELSE [st |-> "refused", at |-> call[p].at, deadline |-> call[p].deadline]]
    /\ UNCHANGED <<agent, lastSign, misses, diedAt>>

SystemMonitorTick == MonitorTick /\ UNCHANGED agents

\* Time passes unless a timer of an agent is due, or a request adrift.
SystemAdvance ==
    /\ \A m \in adrift : now < m.until
    /\ \A p \in Process :
          /\ call[p].st # "none" => now < call[p].deadline
          /\ agent[p].phase # "down" /\ call[p].st = "none" => now < agent[p].timer
    /\ Advance
    /\ UNCHANGED agents

ProcessNext(p) ==
    \/ StartProcess(p)
    \/ SendRegister(p) \/ Registered(p) \/ RegisterFails(p)
    \/ SendBeat(p) \/ BeatEnds(p)
    \/ Die(p)
    \/ RegisterArrives(p) \/ RegisterRefused(p)
    \/ BeatArrives(p)
    \/ \E u \in upserts : RegisterTakesEffect(p, u)
    \/ \E b \in beats : BeatTakesEffect(p, b) \/ BeatUnknown(p, b)
    \/ \E m \in adrift :
          LateRegister(p, m) \/ LateRegisterRefused(p, m) \/ LateBeat(p, m)

SystemNext ==
    \/ \E p \in Process : ProcessNext(p)
    \/ DirectoryRestarts
    \/ SystemMonitorTick
    \/ SystemAdvance

SystemSpec == SystemInit /\ [][SystemNext]_systemVars

----------------------------------------------------------------------------
(* Properties.                                                             *)

Agent == [phase : {"down", "register", "beat"}, start : 0..MaxStarts, host : Hosts,
          timer : Nat, backoff : 1..MaxBackoff]
Call == [st : {"none", "sent", "handling", "ok", "refused"}, at : Timestamp,
         deadline : Nat]

Request == [reg : Registration, to : {"register", "beat"}, until : Nat]

SystemTypeOK ==
    /\ agent \in [Process -> Agent]
    /\ call \in [Process -> Call]
    /\ adrift \subseteq Request
    /\ lastSign \in [Process -> Timestamp]
    /\ misses \in [Process -> Nat]
    /\ \A id \in DOMAIN diedAt : diedAt[id] \in Timestamp

Alive(p) == agent[p].phase # "down"

\* A dead process disappears from GET /nodes and GET /circuit within the
\* timeout and one sweep, counted from the last moment at which a request it
\* left behind can have counted as a sign of life.
DeadAreUnlisted ==
    \A id \in DOMAIN diedAt :
        id \in List(nodes, FALSE) => now - diedAt[id] <= StaleBound + Linger

\* Such a request can make a dead node HEALTHY that had been found UNHEALTHY,
\* or unknown.  Once it has had the time to arrive and to get the mutex, nothing
\* does: a process that is started again is listed under a new id.
DeadDoNotReturn ==
    [][\A id \in DOMAIN diedAt :
          id \in List(nodes', FALSE) \ List(nodes, FALSE)
             => now - diedAt[id] <= Linger + HandlerDelay]_systemVars

\* A live, registered node is suspected only if so many of its heartbeats in a
\* row did not take effect that they, with the time-out of the call before them
\* and of the call after them and three waits for the mutex, fill the timeout.
\* With the defaults (10 s, 5 s, 30 s) and waits of at most 3 s a node that missed
\* none is never suspected, and one miss can be enough.
MissesToSuspect ==
    \A p \in Process :
        /\ agent[p].phase = "beat"
        /\ MyId(p) \in DOMAIN nodes \ List(nodes, FALSE)
        => (misses[p] + 1) * HeartbeatInterval + 2 * HttpTimeout + 3 * HandlerDelay
              > HeartbeatTimeout

\* The wait between two attempts to register stays bounded, however long the
\* directory was away: a process that is not registered yet was started, or
\* has failed to register, at most one capped backoff and one time-out ago.
RegistersSoon ==
    \A p \in Process :
        agent[p].phase = "register"
           => now - lastSign[p] <= MaxBackoff + HttpTimeout

\* What the directory forgets stays forgotten.  After a restart of the
\* directory a node that only sends heartbeats is never listed again, until
\* its process is started anew: no agent notices the 404.
ForgottenStaysForgotten ==
    [][\A p \in Process :
          /\ agent[p].phase = "beat"
          /\ MyId(p) \notin DOMAIN nodes
          => MyId(p) \notin DOMAIN nodes']_systemVars
=============================================================================
