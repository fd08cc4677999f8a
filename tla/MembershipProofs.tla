-------------------------- MODULE MembershipProofs --------------------------
(***************************************************************************)
(* Proofs about the directory, alone and with its node agents, for any     *)
(* registrations, any processes and any timing parameters that satisfy the *)
(* assumptions.                                                            *)
(*                                                                         *)
(* First the directory.  ListedAreRecent is not inductive: that a HEALTHY  *)
(* record is not too old now follows from the last sweep having spared it, *)
(* so the invariant relates every record to the time of that sweep         *)
(* (Swept), which the ticker's channel and nextTick determine (Ticking).   *)
(* A handler in flight must not be able to undo a sweep, which needs Calls.*)
(*                                                                         *)
(* Then the system.  Every step of it is a step of Directory (Steps), so   *)
(* what is shown of that holds here.  That the dead are unlisted rests on  *)
(* it: what a dead process leaves behind, a record, a handler in flight or *)
(* a request still on its way, has a clock reading at most Linger after    *)
(* its death, or will have (Buried), and a record that old is not listed.  *)
(*                                                                         *)
(* How many misses a suspicion takes is quantitative: timers and deadlines *)
(* are met (Waits), so the directory has heard of a node at most so many   *)
(* intervals before its latest heartbeat as it has missed heartbeats       *)
(* (Signs), and if these do not fill the timeout no sweep finds its record *)
(* too old (Trusted).                                                      *)
(***************************************************************************)
EXTENDS Membership, TLAPS

----------------------------------------------------------------------------
(* The directory.                                                          *)

\* The ticker fires every CleanupInterval; an untaken tick is the last one.
Ticking ==
    /\ now < nextTick /\ nextTick <= now + CleanupInterval
    /\ ticks # <<>> => /\ Head(ticks) = nextTick - CleanupInterval
                       /\ now <= Head(ticks) + MonitorDelay

\* A handler's clock reading is at most HandlerDelay old.
Calls ==
    \A c \in upserts \cup beats : c.at <= now /\ now <= c.at + HandlerDelay

\* No record comes from the future, or is far behind its newest evidence.
Records ==
    \A id \in DOMAIN nodes :
        /\ nodes[id].lastSeen <= heard[id]
        /\ heard[id] <= now
        /\ heard[id] - nodes[id].lastSeen <= HandlerDelay

\* The time of the last sweep the monitor has finished.
LastSweep ==
    IF ticks = <<>> THEN nextTick - CleanupInterval
                    ELSE nextTick - CleanupInterval - CleanupInterval

Swept ==
    \A id \in Healthy(nodes) :
        LastSweep <= nodes[id].lastSeen + HeartbeatTimeout

IInv == TypeOK /\ Ticking /\ Calls /\ Records /\ Swept

----------------------------------------------------------------------------
LEMMA InitIInv == Init => IInv
<1> SUFFICES ASSUME Init PROVE IInv
    OBVIOUS
<1>1. TypeOK
    BY TimingAssumption DEF Init, TypeOK, Empty, Timestamp
<1>2. Ticking /\ Calls /\ Records /\ Swept
    BY TimingAssumption
    DEF Init, Ticking, Calls, Records, Swept, Empty, Healthy
<1> QED BY <1>1, <1>2 DEF IInv

----------------------------------------------------------------------------
\* A new reading t leaves the newest one between t and the present.
LEMMA NewestFacts ==
    ASSUME TypeOK, Records, NEW id, NEW t \in Timestamp, t <= now,
           now <= t + HandlerDelay
    PROVE  /\ Newest(id, t) \in Timestamp
           /\ t <= Newest(id, t)
           /\ Newest(id, t) <= now
           /\ Newest(id, t) - t <= HandlerDelay
BY TimingAssumption DEF TypeOK, Records, Newest, Timestamp

\* Putting a fresh HEALTHY record keeps everything said about records.
LEMMA SignOfLife ==
    ASSUME IInv,
           NEW id \in Id, NEW t \in Timestamp, t <= now,
           now <= t + HandlerDelay, NEW type \in NodeType,
           UNCHANGED <<now, ticks, nextTick>>,
           nodes' = Put(nodes, id, Record(type, t)),
           heard' = Put(heard, id, Newest(id, t))
    PROVE  /\ DOMAIN nodes' \subseteq Id
           /\ \A i \in DOMAIN nodes' :
                nodes'[i] \in [nodeType : NodeType, lastSeen : Timestamp,
                               status : {"HEALTHY", "UNHEALTHY"}]
           /\ DOMAIN heard' = DOMAIN nodes'
           /\ \A i \in DOMAIN heard' : heard'[i] \in Timestamp
           /\ Records'
           /\ Swept'
<1> USE DEF IInv
<1> DEFINE rec == Record(type, t)
<1> USE DEF Record
<1>1. /\ DOMAIN nodes' = DOMAIN nodes \cup {id}
      /\ nodes'[id] = rec
      /\ \A i \in DOMAIN nodes : i # id => nodes'[i] = nodes[i]
    BY DEF Put
<1>2. /\ DOMAIN heard' = DOMAIN heard \cup {id}
      /\ heard'[id] = Newest(id, t)
      /\ \A i \in DOMAIN heard : i # id => heard'[i] = heard[i]
    BY DEF Put
<1>3. /\ Newest(id, t) \in Timestamp
      /\ t <= Newest(id, t)
      /\ Newest(id, t) <= now
      /\ Newest(id, t) - t <= HandlerDelay
    BY NewestFacts
<1>4. rec \in [nodeType : NodeType, lastSeen : Timestamp,
               status : {"HEALTHY", "UNHEALTHY"}]
    OBVIOUS
<1>5. /\ DOMAIN nodes' \subseteq Id
      /\ \A i \in DOMAIN nodes' :
            nodes'[i] \in [nodeType : NodeType, lastSeen : Timestamp,
                           status : {"HEALTHY", "UNHEALTHY"}]
    BY <1>1, <1>4 DEF TypeOK
<1>6. DOMAIN heard' = DOMAIN nodes' /\ \A i \in DOMAIN heard' : heard'[i] \in Timestamp
    BY <1>1, <1>2, <1>3 DEF TypeOK
<1>7. Records'
    <2> SUFFICES ASSUME NEW i \in DOMAIN nodes'
                 PROVE  /\ nodes'[i].lastSeen <= heard'[i]
                        /\ heard'[i] <= now
                        /\ heard'[i] - nodes'[i].lastSeen <= HandlerDelay
        BY DEF Records
    <2>1. CASE i = id
        BY <2>1, <1>1, <1>2, <1>3
    <2>2. CASE i # id
        BY <2>2, <1>1, <1>2 DEF TypeOK, Records
    <2> QED BY <2>1, <2>2
<1>8. Swept'
    <2> SUFFICES ASSUME NEW i \in DOMAIN nodes', nodes'[i].status = "HEALTHY"
                 PROVE  LastSweep <= nodes'[i].lastSeen + HeartbeatTimeout
        BY DEF Swept, Healthy, LastSweep
    <2>1. CASE i = id
        <3>1. LastSweep <= now
            BY TimingAssumption DEF TypeOK, Ticking, LastSweep, Timestamp
        <3>2. now <= t + HeartbeatTimeout
            BY TimingAssumption DEF TypeOK, Timestamp
        <3>3. LastSweep \in Int
            BY TimingAssumption DEF LastSweep, TypeOK
        <3> QED BY <2>1, <1>1, <3>1, <3>2, <3>3, TimingAssumption DEF TypeOK, Timestamp
    <2>2. CASE i # id
        BY <2>2, <1>1 DEF Swept, Healthy
    <2> QED BY <2>1, <2>2
<1> QED BY <1>5, <1>6, <1>7, <1>8

----------------------------------------------------------------------------
\* Every step preserves the inductive invariant.
LEMMA NextIInv == IInv /\ [Next]_vars => IInv'
<1> SUFFICES ASSUME IInv, [Next]_vars PROVE IInv'
    OBVIOUS
<1> USE DEF IInv
<1>1. ASSUME NEW reg \in Registration, RegisterHandler(reg) PROVE IInv'
    <2>1. TypeOK'
        BY <1>1 DEF RegisterHandler, TypeOK
    <2>2. Calls'
        BY <1>1, TimingAssumption DEF RegisterHandler, Calls, TypeOK, Timestamp
    <2>3. Ticking' /\ Records' /\ Swept'
        BY <1>1 DEF RegisterHandler, Ticking, Records, Swept, LastSweep, Healthy
    <2> QED BY <2>1, <2>2, <2>3
<1>2. ASSUME NEW u \in upserts, Upsert(u) PROVE IInv'
    <2>1. /\ u.reg.nodeId \in Id /\ u.reg.nodeType \in NodeType
          /\ u.at \in Timestamp /\ u.at <= now /\ now <= u.at + HandlerDelay
        <3>1. u.reg \in Registration /\ Valid(u.reg) /\ u.at \in Timestamp
            BY DEF TypeOK
        <3>2. u.at <= now /\ now <= u.at + HandlerDelay
            BY DEF Calls
        <3>3. u.reg.nodeId \in Id
            BY <3>1 DEF Id
        <3>4. u.reg.nodeType \in NodeType
            BY <3>1 DEF Valid
        <3> QED BY <3>1, <3>2, <3>3, <3>4
    <2>2. /\ UNCHANGED <<now, ticks, nextTick>>
          /\ nodes' = Put(nodes, u.reg.nodeId, Record(u.reg.nodeType, u.at))
          /\ heard' = Put(heard, u.reg.nodeId, Newest(u.reg.nodeId, u.at))
        BY <1>2 DEF Upsert
    <2>3. Calls'
        BY <1>2 DEF Upsert, Calls
    <2>4. Ticking'
        BY <1>2 DEF Upsert, Ticking
    <2>5. upserts' \subseteq upserts /\ beats' = beats
        BY <1>2 DEF Upsert
    <2>6. TypeOK'
        BY <2>1, <2>2, <2>5, SignOfLife DEF TypeOK
    <2> QED BY <2>1, <2>2, <2>3, <2>4, <2>6, SignOfLife
<1>3. ASSUME NEW id \in Id, HeartbeatHandler(id) PROVE IInv'
    <2>1. TypeOK'
        BY <1>3 DEF HeartbeatHandler, TypeOK
    <2>2. Calls'
        BY <1>3, TimingAssumption DEF HeartbeatHandler, Calls, TypeOK, Timestamp
    <2>3. Ticking' /\ Records' /\ Swept'
        BY <1>3 DEF HeartbeatHandler, Ticking, Records, Swept, LastSweep, Healthy
    <2> QED BY <2>1, <2>2, <2>3
<1>4. ASSUME NEW b \in beats, Heartbeat(b) PROVE IInv'
    <2>1. /\ b.id \in Id /\ b.at \in Timestamp
          /\ b.at <= now /\ now <= b.at + HandlerDelay
        BY DEF TypeOK, Calls
    <2>2. nodes[b.id] \in [nodeType : NodeType, lastSeen : Timestamp,
                           status : {"HEALTHY", "UNHEALTHY"}]
        BY <1>4 DEF Heartbeat, TypeOK
    <2>3. /\ UNCHANGED <<now, ticks, nextTick>>
          /\ nodes' = Put(nodes, b.id, Record(nodes[b.id].nodeType, b.at))
          /\ heard' = Put(heard, b.id, Newest(b.id, b.at))
        BY <1>4 DEF Heartbeat
    <2>4. Calls' /\ Ticking'
        BY <1>4 DEF Heartbeat, Calls, Ticking
    <2>5. beats' \subseteq beats /\ upserts' = upserts
        BY <1>4 DEF Heartbeat
    <2>6. nodes[b.id].nodeType \in NodeType
        BY <2>2
    <2>7. TypeOK'
        BY <2>1, <2>3, <2>5, <2>6, SignOfLife DEF TypeOK
    <2> QED BY <2>1, <2>3, <2>4, <2>6, <2>7, SignOfLife
<1>5. ASSUME NEW b \in beats, HeartbeatUnknown(b) PROVE IInv'
    <2>1. TypeOK'
        BY <1>5 DEF HeartbeatUnknown, TypeOK
    <2>2. Ticking' /\ Calls' /\ Records' /\ Swept'
        BY <1>5 DEF HeartbeatUnknown, Ticking, Calls, Records, Swept,
                    LastSweep, Healthy
    <2> QED BY <2>1, <2>2
<1>6. ASSUME NEW id \in Id, Deregister(id) PROVE IInv'
    <2>1. TypeOK'
        BY <1>6 DEF Deregister, TypeOK, Drop
    <2>2. Ticking' /\ Calls'
        BY <1>6 DEF Deregister, Ticking, Calls
    <2>3. Records' /\ Swept'
        BY <1>6 DEF Deregister, Drop, Records, Swept, LastSweep, Healthy, TypeOK
    <2> QED BY <2>1, <2>2, <2>3
<1>7. CASE MonitorTick
    <2>1. /\ DOMAIN nodes' = DOMAIN nodes
          /\ \A id \in DOMAIN nodes :
                nodes'[id] =
                  IF /\ nodes[id].status = "HEALTHY"
                     /\ Head(ticks) - nodes[id].lastSeen > HeartbeatTimeout
                  THEN [nodes[id] EXCEPT !.status = "UNHEALTHY"]
                  ELSE nodes[id]
        BY <1>7 DEF MonitorTick, MarkUnhealthy
    <2>2. /\ ticks # <<>> /\ ticks' = <<>> /\ Head(ticks) \in Timestamp
          /\ UNCHANGED <<now, upserts, beats, nextTick, heard>>
        <3>1. /\ ticks # <<>> /\ ticks' = Tail(ticks)
              /\ UNCHANGED <<now, upserts, beats, nextTick, heard>>
            BY <1>7 DEF MonitorTick
        <3>2. PICK t \in Timestamp : ticks = <<t>>
            BY <3>1 DEF TypeOK
        <3>3. Head(ticks) = t /\ Tail(ticks) = <<>>
            BY <3>2
        <3> QED BY <3>1, <3>2, <3>3
    <2>3. \A id \in DOMAIN nodes :
            /\ nodes'[id] \in [nodeType : NodeType, lastSeen : Timestamp,
                               status : {"HEALTHY", "UNHEALTHY"}]
            /\ nodes'[id].lastSeen = nodes[id].lastSeen
        BY <2>1 DEF TypeOK
    <2>4. TypeOK'
        BY <2>1, <2>2, <2>3 DEF TypeOK
    <2>5. Ticking' /\ Calls'
        BY <2>2 DEF Ticking, Calls
    <2>6. Records'
        BY <2>1, <2>2, <2>3 DEF Records
    <2>7. Swept'
        <3> SUFFICES ASSUME NEW id \in DOMAIN nodes, nodes'[id].status = "HEALTHY"
                     PROVE  LastSweep' <= nodes'[id].lastSeen + HeartbeatTimeout
            BY <2>1 DEF Swept, Healthy
        <3>1. LastSweep' = Head(ticks)
            BY <2>2 DEF LastSweep, Ticking
        <3>2. ~(Head(ticks) - nodes[id].lastSeen > HeartbeatTimeout)
            BY <2>1 DEF TypeOK
        <3> QED BY <2>2, <2>3, <3>1, <3>2, TimingAssumption DEF TypeOK, Timestamp
    <2> QED BY <2>4, <2>5, <2>6, <2>7
<1>8. CASE Restart
    <2>1. TypeOK'
        BY <1>8, TimingAssumption DEF Restart, TypeOK, Empty, Timestamp
    <2>2. Ticking' /\ Calls' /\ Records' /\ Swept'
        BY <1>8, TimingAssumption
        DEF Restart, Ticking, Calls, Records, Swept, Empty, Healthy, TypeOK, Timestamp
    <2> QED BY <2>1, <2>2
<1>9. CASE Advance
    <2>1. /\ now < MaxTime /\ now' = now + 1 /\ now' \in Timestamp
          /\ UNCHANGED <<nodes, upserts, beats, heard>>
        BY <1>9, TimingAssumption DEF Advance, TypeOK, Timestamp
    <2>2. TypeOK'
        <3>1. ticks' = <<>> \/ \E t \in Timestamp : ticks' = <<t>>
            BY <1>9, <2>1 DEF Advance, TypeOK
        <3>2. nextTick' \in Nat
            BY <1>9, TimingAssumption DEF Advance, TypeOK
        <3> QED BY <2>1, <3>1, <3>2 DEF TypeOK
    <2>3. Calls'
        BY <1>9, <2>1, TimingAssumption DEF Advance, Calls, TypeOK, Timestamp
    <2>4. Records'
        BY <2>1 DEF Records, TypeOK, Timestamp
    <2>5. now + 1 = nextTick => ticks = <<>>
        BY <1>9, TimingAssumption DEF Advance, Ticking, TypeOK, Timestamp
    <2>6. Ticking' /\ LastSweep' = LastSweep
        <3>1. CASE now + 1 = nextTick
            <4>1. /\ ticks = <<>> /\ ticks' = <<nextTick>>
                  /\ Head(ticks') = nextTick /\ ticks' # <<>>
                  /\ nextTick' = nextTick + CleanupInterval
                BY <1>9, <2>5, <3>1 DEF Advance
            <4> QED BY <2>1, <3>1, <4>1, TimingAssumption
                    DEF Ticking, LastSweep, TypeOK, Timestamp
        <3>2. CASE now + 1 # nextTick
            BY <1>9, <2>1, <3>2, TimingAssumption
            DEF Advance, Ticking, LastSweep, TypeOK, Timestamp
        <3> QED BY <3>1, <3>2
    <2>7. Swept'
        BY <2>1, <2>6 DEF Swept, Healthy
    <2> QED BY <2>2, <2>3, <2>4, <2>6, <2>7
<1>10. CASE UNCHANGED vars
    <2>1. TypeOK'
        BY <1>10 DEF vars, TypeOK
    <2>2. Ticking' /\ Calls' /\ Records' /\ Swept'
        BY <1>10 DEF vars, Ticking, Calls, Records, Swept, LastSweep, Healthy
    <2> QED BY <2>1, <2>2
<1> QED BY <1>1, <1>2, <1>3, <1>4, <1>5, <1>6, <1>7, <1>8, <1>9, <1>10 DEF Next

LEMMA Invariance == Spec => []IInv
BY InitIInv, NextIInv, PTL DEF Spec

----------------------------------------------------------------------------
\* The registry, the handlers' calls and the ticker always have their types.
THEOREM TypeCorrect == Spec => []TypeOK
<1>1. IInv => TypeOK
    BY DEF IInv
<1> QED BY <1>1, Invariance, PTL

\* The last sweep spared every HEALTHY record, and is not long past.
LEMMA ListedRecentState == IInv => ListedAreRecent
<1> SUFFICES ASSUME IInv, NEW id \in DOMAIN nodes, nodes[id].status = "HEALTHY"
             PROVE  now - nodes[id].lastSeen <= StaleBound
    BY DEF ListedAreRecent, List, Healthy
<1>1. LastSweep <= nodes[id].lastSeen + HeartbeatTimeout
    BY DEF IInv, Swept, Healthy
<1>2. nodes[id].lastSeen \in Nat /\ now \in Nat /\ nextTick \in Nat
    BY TimingAssumption DEF IInv, TypeOK, Timestamp
<1>3. now <= LastSweep + CleanupInterval + MonitorDelay
    BY <1>2, TimingAssumption DEF IInv, Ticking, LastSweep
<1>4. LastSweep \in Int
    BY <1>2, TimingAssumption DEF LastSweep
<1> QED BY <1>1, <1>2, <1>3, <1>4, TimingAssumption DEF StaleBound

\* A HEALTHY record is never older than the timeout, one cleanup interval
\* and the monitor's delay, whatever the order of handlers and ticks.
THEOREM ListedRecent == Spec => []ListedAreRecent
BY ListedRecentState, Invariance, PTL

\* GET /circuit hands out such nodes only, each in the place of its type.
THEOREM CircuitsRecent == Spec => []CircuitsAreRecent
<1>1. ListedAreRecent => CircuitsAreRecent
    <2> SUFFICES ASSUME ListedAreRecent, NEW hops \in {1, 3},
                        NEW c \in Circuits(nodes, hops), NEW r \in DOMAIN c
                 PROVE  /\ nodes[c[r]].nodeType = r
                        /\ now - nodes[c[r]].lastSeen <= StaleBound
        BY DEF CircuitsAreRecent
    <2> DEFINE roles == IF hops = 1 THEN {"guard"} ELSE NodeType
    <2>1. /\ r \in roles /\ roles \subseteq NodeType
          /\ c[r] \in GroupByType(nodes, FALSE)[r]
        BY DEF Circuits, NodeType
    <2>2. c[r] \in List(nodes, FALSE) /\ nodes[c[r]].nodeType = r
        BY <2>1 DEF GroupByType
    <2> QED BY <2>2 DEF ListedAreRecent
<1> QED BY <1>1, ListedRecent, PTL

\* LastSeen falls behind the newest sign of life by a handler's delay at most.
THEOREM Regression == Spec => []RegressionBound
<1>1. IInv => RegressionBound
    BY DEF IInv, Records, RegressionBound
<1> QED BY <1>1, Invariance, PTL

\* Only the health monitor changes a record to UNHEALTHY.
LEMMA OnlyMonitorSuspects ==
    ASSUME [Next]_vars, NEW id \in DOMAIN nodes, id \in DOMAIN nodes',
           nodes[id].status = "HEALTHY", nodes'[id].status = "UNHEALTHY"
    PROVE  MonitorTick
<1>1. ASSUME NEW u \in upserts, Upsert(u) PROVE FALSE
    BY <1>1 DEF Upsert, Put, Record
<1>2. ASSUME NEW b \in beats, Heartbeat(b) PROVE FALSE
    BY <1>2 DEF Heartbeat, Put, Record
<1>3. ASSUME NEW i \in Id, Deregister(i) PROVE FALSE
    BY <1>3 DEF Deregister, Drop
<1>4. ~Restart
    BY DEF Restart, Empty
<1>5. ASSUME nodes' = nodes PROVE FALSE
    BY <1>5
<1> QED BY <1>1, <1>2, <1>3, <1>4, <1>5
        DEF Next, vars, RegisterHandler, HeartbeatHandler, HeartbeatUnknown, Advance

\* No node is suspected whose newest sign of life is not older than the
\* timeout less a handler's delay.
THEOREM EarlySuspicion == Spec => EarlySuspicionBound
<1>1. ASSUME IInv, [Next]_vars
      PROVE  [\A id \in DOMAIN nodes \cap DOMAIN nodes' :
                nodes[id].status = "HEALTHY" /\ nodes'[id].status = "UNHEALTHY"
                  => now - heard[id] > HeartbeatTimeout - HandlerDelay]_vars
    <2> SUFFICES ASSUME NEW id \in DOMAIN nodes, id \in DOMAIN nodes',
                        nodes[id].status = "HEALTHY",
                        nodes'[id].status = "UNHEALTHY"
                 PROVE  now - heard[id] > HeartbeatTimeout - HandlerDelay
        OBVIOUS
    <2>1. MonitorTick
        BY <1>1, OnlyMonitorSuspects
    <2>2. Head(ticks) - nodes[id].lastSeen > HeartbeatTimeout
        BY <2>1 DEF MonitorTick, MarkUnhealthy
    <2>3. /\ nodes[id].lastSeen \in Nat /\ heard[id] \in Nat /\ now \in Nat
          /\ nextTick \in Nat
          /\ heard[id] - nodes[id].lastSeen <= HandlerDelay
        BY <1>1, TimingAssumption DEF IInv, TypeOK, Records, Timestamp
    <2>4. Head(ticks) <= now /\ Head(ticks) \in Int
        BY <1>1, <2>1, <2>3, TimingAssumption DEF IInv, Ticking, MonitorTick
    <2> QED BY <2>2, <2>3, <2>4, TimingAssumption
<1> QED BY <1>1, Invariance, PTL DEF Spec, EarlySuspicionBound

----------------------------------------------------------------------------
(* The directory implements FailureDetector.                               *)

\* A record put for `id` is a sign of life of `id`.
LEMMA PutIsHear ==
    ASSUME NEW id, NEW type, NEW t \in Timestamp, t <= now, now \in Timestamp,
           now <= t + HandlerDelay, UNCHANGED now,
           nodes' = Put(nodes, id, Record(type, t))
    PROVE  Detector!Hear(id)
<1>1. t \in {u \in 0..now : now <= u + HandlerDelay}
    BY TimingAssumption DEF Timestamp
<1>2. View' = [i \in DOMAIN View \cup {id} |->
                 IF i = id THEN [seen |-> t, status |-> "HEALTHY"] ELSE View[i]]
    BY DEF View, Put, Record
<1> QED BY <1>1, <1>2 DEF Detector!Hear

\* Every step of the directory is a step of the detector or changes nothing
\* the detector shows.
LEMMA StepSimulation ==
    ASSUME IInv, ListedAreRecent', [Next]_vars
    PROVE  [Detector!Next]_(Detector!vars)
<1>1. ASSUME NEW u \in upserts, Upsert(u) PROVE Detector!Next
    <2>1. u.reg \in Registration /\ u.at \in Timestamp /\ now \in Timestamp
        BY DEF IInv, TypeOK
    <2>2. u.at <= now /\ now <= u.at + HandlerDelay
        BY DEF IInv, Calls
    <2>3. Detector!Hear(u.reg.nodeId)
        BY <1>1, <2>1, <2>2, PutIsHear DEF Upsert
    <2>4. u.reg.nodeId \in Id
        BY <2>1 DEF Id
    <2> QED BY <2>3, <2>4 DEF Detector!Next
<1>2. ASSUME NEW b \in beats, Heartbeat(b) PROVE Detector!Next
    <2>1. b.id \in Id /\ b.at \in Timestamp /\ now \in Timestamp
        BY DEF IInv, TypeOK
    <2>2. b.at <= now /\ now <= b.at + HandlerDelay
        BY DEF IInv, Calls
    <2>3. Detector!Hear(b.id)
        BY <1>2, <2>1, <2>2, PutIsHear DEF Heartbeat
    <2> QED BY <2>1, <2>3 DEF Detector!Next
<1>3. ASSUME NEW id \in Id, Deregister(id) PROVE Detector!Next
    <2>1. Detector!Leave(id)
        BY <1>3 DEF Deregister, Drop, View, Detector!Leave
    <2> QED BY <2>1 DEF Detector!Next
<1>4. ASSUME MonitorTick PROVE Detector!Next
    <2> DEFINE S == {id \in Healthy(nodes) :
                       Head(ticks) - nodes[id].lastSeen > HeartbeatTimeout}
    <2>1. Head(ticks) <= now /\ Head(ticks) \in Int /\ now \in Int
        BY <1>4, TimingAssumption DEF IInv, Ticking, MonitorTick, TypeOK, Timestamp
    <2>2. \A id \in DOMAIN nodes : nodes[id].lastSeen \in Int
        BY TimingAssumption DEF IInv, TypeOK, Timestamp
    <2>3. S \in SUBSET {id \in DOMAIN View : /\ View[id].status = "HEALTHY"
                                             /\ now - View[id].seen > HeartbeatTimeout}
        BY <2>1, <2>2, TimingAssumption DEF View, Healthy
    <2>4. /\ DOMAIN nodes' = DOMAIN nodes
          /\ \A id \in DOMAIN nodes :
               nodes'[id] = IF id \in S THEN [nodes[id] EXCEPT !.status = "UNHEALTHY"]
                                        ELSE nodes[id]
        BY <1>4 DEF MonitorTick, MarkUnhealthy, Healthy
    <2>5. \A id \in DOMAIN nodes :
             /\ nodes'[id].lastSeen = nodes[id].lastSeen
             /\ nodes'[id].status = IF id \in S THEN "UNHEALTHY" ELSE nodes[id].status
        BY <2>4 DEF IInv, TypeOK
    <2>6. View' = [id \in DOMAIN View |->
                     IF id \in S THEN [View[id] EXCEPT !.status = "UNHEALTHY"]
                                 ELSE View[id]]
        BY <2>4, <2>5 DEF View
    <2>7. UNCHANGED now
        BY <1>4 DEF MonitorTick
    <2>8. Detector!Suspect
        BY <2>3, <2>6, <2>7 DEF Detector!Suspect
    <2> QED BY <2>8 DEF Detector!Next
<1>5. ASSUME Restart PROVE Detector!Next
    <2>1. View' = [i \in {} |-> 0]
        BY <1>5 DEF Restart, Empty, View
    <2> QED BY <1>5, <2>1 DEF Restart, Detector!Restart, Detector!Next
<1>6. ASSUME Advance PROVE Detector!Next
    <2>1. /\ now < MaxTime /\ now' = now + 1 /\ nodes' = nodes
        BY <1>6 DEF Advance
    <2>2. \A i \in DOMAIN nodes :
             nodes[i].status = "HEALTHY" => now + 1 - nodes[i].lastSeen <= StaleBound
        <3> SUFFICES ASSUME NEW i \in DOMAIN nodes, nodes[i].status = "HEALTHY"
                     PROVE  now + 1 - nodes[i].lastSeen <= StaleBound
            OBVIOUS
        <3>1. i \in List(nodes, FALSE)'
            BY <2>1 DEF List, Healthy
        <3>2. now' - nodes'[i].lastSeen <= StaleBound
            BY <3>1 DEF ListedAreRecent
        <3>3. nodes'[i].lastSeen = nodes[i].lastSeen /\ now' = now + 1
            BY <2>1
        <3>4. now \in Nat /\ nodes[i].lastSeen \in Nat /\ StaleBound \in Nat
            BY TimingAssumption DEF IInv, TypeOK, Timestamp, StaleBound
        <3> QED BY <3>2, <3>3, <3>4
    <2>3. \A i \in DOMAIN View :
             View[i].status = "HEALTHY" => now + 1 - View[i].seen <= StaleBound
        <3>1. /\ DOMAIN View = DOMAIN nodes
              /\ \A i \in DOMAIN nodes : /\ View[i].status = nodes[i].status
                                        /\ View[i].seen = nodes[i].lastSeen
            BY DEF View
        <3> QED BY <2>2, <3>1, Zenon
    <2>4. View' = View
        BY <2>1 DEF View
    <2> QED BY <2>1, <2>3, <2>4 DEF Detector!Tick, Detector!Next
<1>7. ASSUME now' = now, nodes' = nodes PROVE UNCHANGED Detector!vars
    BY <1>7 DEF Detector!vars, View
<1> QED BY <1>1, <1>2, <1>3, <1>4, <1>5, <1>6, <1>7
        DEF Next, vars, RegisterHandler, HeartbeatHandler, HeartbeatUnknown

\* The directory is a real-time failure detector for every timing that
\* satisfies TimingAssumption.
THEOREM Implements == Spec => ImplementsDetector
<1>1. Init => Detector!Init
    BY DEF Init, Empty, View, Detector!Init
<1>2. IInv /\ ListedAreRecent' /\ [Next]_vars => [Detector!Next]_(Detector!vars)
    BY StepSimulation
<1> QED BY <1>1, <1>2, Invariance, ListedRecent, PTL
        DEF Spec, ImplementsDetector, Detector!Spec

----------------------------------------------------------------------------
(* The directory and its node agents.                                      *)

\* A process that runs has been started.
Started == \A p \in Process : Alive(p) => agent[p].start \in 1..MaxStarts

\* The ids of the dead are those of earlier starts, or of a process that is
\* down.
Dead ==
    \A p \in Process, k \in Nat :
        NodeId(p, k) \in DOMAIN diedAt
           => k <= agent[p].start /\ (k = agent[p].start => ~Alive(p))

\* No sign of life of a dead process is from later than Linger after its death.
Buried ==
    \A id \in DOMAIN diedAt :
        /\ id \in DOMAIN nodes => nodes[id].lastSeen <= diedAt[id] + Linger
        /\ \A u \in upserts : u.reg.nodeId = id => u.at <= diedAt[id] + Linger
        /\ \A b \in beats : b.id = id => b.at <= diedAt[id] + Linger
        /\ \A m \in adrift : m.reg.nodeId = id => m.until <= diedAt[id] + Linger

\* A request whose caller is gone arrives within Linger, if it does.
Adrift == \A m \in adrift : now <= m.until /\ m.until <= now + Linger

\* No registration of id is on its way to the directory, or inside it.
NoneLeft(id) ==
    /\ \A u \in upserts : u.reg.nodeId # id
    /\ \A m \in adrift : m.to = "register" => m.reg.nodeId # id

\* A process that is down has no call; a node that sends heartbeats is known, or
\* there is no registration of it left that could make it so.
Known ==
    \A p \in Process :
        /\ agent[p].phase = "down" => call[p].st = "none"
        /\ agent[p].phase = "register" /\ call[p].st = "ok"
              => MyId(p) \in DOMAIN nodes
        /\ agent[p].phase = "beat" /\ MyId(p) \notin DOMAIN nodes => NoneLeft(MyId(p))

SystemInv == SystemTypeOK /\ IInv /\ Started /\ Dead /\ Buried /\ Adrift /\ Known

----------------------------------------------------------------------------
LEMMA SystemInitInv == SystemInit => SystemInv
<1> SUFFICES ASSUME SystemInit PROVE SystemInv
    OBVIOUS
<1>1. IInv
    BY InitIInv DEF SystemInit
<1>2. SystemTypeOK
    <2>1. 0 \in Timestamp /\ 0 \in 0..MaxStarts /\ 1 \in 1..MaxBackoff
        BY MembershipAssumption, TimingAssumption DEF Timestamp
    <2>2. [phase |-> "down", start |-> 0, host |-> "", timer |-> 0, backoff |-> 1] \in Agent
        BY <2>1 DEF Agent, Hosts
    <2>3. NoCall \in Call
        BY <2>1 DEF NoCall, Call
    <2> QED BY <2>1, <2>2, <2>3 DEF SystemInit, SystemTypeOK, Empty
<1>3. Started /\ Dead /\ Buried /\ Adrift /\ Known
    BY DEF SystemInit, Init, Empty, Started, Dead, Buried, Adrift, Known, Alive, NoCall
<1> QED BY <1>1, <1>2, <1>3 DEF SystemInv

\* The ids and bodies of running processes are those the directory expects.
LEMMA IdFacts ==
    ASSUME SystemInv, NEW p \in Process, Alive(p)
    PROVE  MyBody(p) \in Registration /\ MyId(p) \in Id /\ MyBody(p).nodeId = MyId(p)
<1>1. agent[p].start \in 1..MaxStarts /\ agent[p].host \in Hosts
    BY DEF SystemInv, Started, SystemTypeOK, Agent
<1>2. MyBody(p) \in Registration
    BY <1>1, RegistrationAssumption DEF MyBody, Bodies
<1>3. MyBody(p).nodeId = MyId(p)
    BY DEF MyBody, Body, MyId
<1> QED BY <1>2, <1>3 DEF Id

LEMMA Steps == SystemInv /\ [SystemNext]_systemVars => [Next]_vars
<1> SUFFICES ASSUME SystemInv, [SystemNext]_systemVars PROVE [Next]_vars
    OBVIOUS
<1>1. ASSUME NEW p \in Process, RegisterArrives(p) PROVE Next
    <2>1. Alive(p)
        BY <1>1 DEF RegisterArrives, Alive
    <2> QED BY <1>1, <2>1, IdFacts DEF RegisterArrives, Next
<1>2. ASSUME NEW p \in Process, BeatArrives(p) PROVE Next
    <2>1. Alive(p)
        BY <1>2 DEF BeatArrives, Alive
    <2> QED BY <1>2, <2>1, IdFacts DEF BeatArrives, Next
<1>3. ASSUME NEW p \in Process, NEW u \in upserts, RegisterTakesEffect(p, u) PROVE Next
    BY <1>3 DEF RegisterTakesEffect, Next
<1>4. ASSUME NEW p \in Process, NEW b \in beats, BeatTakesEffect(p, b) \/ BeatUnknown(p, b)
      PROVE  Next
    BY <1>4 DEF BeatTakesEffect, BeatUnknown, Next
<1>5. ASSUME NEW p \in Process,
             \/ StartProcess(p) \/ SendRegister(p) \/ Registered(p) \/ RegisterFails(p)
             \/ SendBeat(p) \/ BeatEnds(p) \/ Die(p) \/ RegisterRefused(p)
             \/ \E m \in adrift : LateRegisterRefused(p, m)
      PROVE  UNCHANGED vars
    BY <1>5 DEF StartProcess, SendRegister, Registered, RegisterFails, SendBeat,
                BeatEnds, Die, RegisterRefused, LateRegisterRefused
<1>8. ASSUME NEW p \in Process, NEW m \in adrift, LateRegister(p, m) \/ LateBeat(p, m)
      PROVE  Next
    <2>1. m.reg \in Registration /\ m.reg.nodeId \in Id
        BY DEF SystemInv, SystemTypeOK, Request, Id
    <2> QED BY <1>8, <2>1 DEF LateRegister, LateBeat, Next
<1>6. CASE DirectoryRestarts \/ SystemMonitorTick \/ SystemAdvance
    BY <1>6 DEF DirectoryRestarts, SystemMonitorTick, SystemAdvance, Next
<1>7. CASE UNCHANGED systemVars
    BY <1>7 DEF systemVars, vars
<1> QED BY <1>1, <1>2, <1>3, <1>4, <1>5, <1>6, <1>7, <1>8 DEF SystemNext, ProcessNext

----------------------------------------------------------------------------
(* The agents' types.                                                      *)

LEMMA CallFacts ==
    ASSUME SystemTypeOK, TypeOK, NEW p \in Process
    PROVE  /\ Ends(p) => call' \in [Process -> Call]
           /\ call' = [call EXCEPT ![p] = Sent] => call' \in [Process -> Call]
           /\ \A st \in {"handling", "ok", "refused"}, t \in Timestamp :
                 Becomes(p, st, t) => call' \in [Process -> Call]
<1>1. NoCall \in Call /\ Sent \in Call
    BY MembershipAssumption, TimingAssumption
    DEF TypeOK, NoCall, Sent, Call, Timestamp
<1>2. Ends(p) => call' \in [Process -> Call]
    BY <1>1 DEF SystemTypeOK, Ends
<1>3. call' = [call EXCEPT ![p] = Sent] => call' \in [Process -> Call]
    BY <1>1 DEF SystemTypeOK
<1>4. ASSUME NEW st \in {"handling", "ok", "refused"}, NEW t \in Timestamp,
             Becomes(p, st, t)
      PROVE  call' \in [Process -> Call]
    <2>1. [st |-> st, at |-> t, deadline |-> call[p].deadline] \in Call
        BY DEF SystemTypeOK, Call
    <2> QED BY <1>4, <2>1 DEF SystemTypeOK, Becomes
<1> QED BY <1>2, <1>3, <1>4

LEMMA GoesFacts ==
    ASSUME SystemTypeOK, NEW p \in Process, NEW phase \in {"down", "register", "beat"},
           NEW timer \in Nat, NEW backoff \in 1..MaxBackoff,
           Goes(p, phase, timer, backoff)
    PROVE  /\ agent' \in [Process -> Agent]
           /\ \A q \in Process : agent'[q].start = agent[q].start
           /\ \A q \in Process : q # p => agent'[q] = agent[q]
           /\ agent'[p].phase = phase
<1> DEFINE new == [phase |-> phase, start |-> agent[p].start, host |-> agent[p].host,
                   timer |-> timer, backoff |-> backoff]
<1>1. new \in Agent /\ new.start = agent[p].start /\ new.phase = phase
    BY DEF SystemTypeOK, Agent
<1>2. agent' = [agent EXCEPT ![p] = new]
    BY DEF Goes
<1> HIDE DEF new
<1> QED BY <1>1, <1>2 DEF SystemTypeOK

\* A doubled backoff stays within the cap.
LEMMA BackoffFacts ==
    ASSUME SystemTypeOK, NEW p \in Process
    PROVE  /\ agent[p].backoff \in 1..MaxBackoff
           /\ Smaller(2 * agent[p].backoff, MaxBackoff) \in 1..MaxBackoff
<1>1. agent[p].backoff \in 1..MaxBackoff
    BY DEF SystemTypeOK, Agent
<1> QED BY <1>1, MembershipAssumption DEF Smaller

----------------------------------------------------------------------------
(* The steps of a process that leave the directory alone.                  *)

\* Keeping every start and whether its process runs, and who is dead, a step
\* keeps what is said about the dead.
LEMMA SameLives ==
    ASSUME Started, Dead, UNCHANGED diedAt,
           \A q \in Process : /\ agent'[q].start = agent[q].start
                              /\ Alive(q) <=> Alive(q)'
    PROVE  Started' /\ Dead'
BY DEF Started, Dead

\* A caller that is gone leaves at most the request it was waiting for.
LEMMA AbandonsFacts ==
    ASSUME SystemInv, NEW p \in Process, Alive(p), Abandons(p), UNCHANGED now
    PROVE  /\ call' \in [Process -> Call] /\ call'[p].st = "none"
           /\ \A q \in Process : q # p => call'[q] = call[q]
           /\ adrift' \subseteq Request /\ Adrift'
           /\ \A m \in adrift' : \/ m \in adrift
                                 \/ /\ m.reg.nodeId = MyId(p) /\ m.to = agent[p].phase
                                    /\ m.until = now + Linger
<1>0. /\ SystemTypeOK /\ TypeOK /\ call \in [Process -> Call] /\ now \in Nat /\ Linger \in Nat
      /\ adrift \subseteq Request /\ Adrift
    BY MembershipAssumption DEF SystemInv, SystemTypeOK, IInv, TypeOK, Timestamp
<1>1. Ends(p) /\ (adrift' = adrift \/ adrift' = adrift \cup {Late(p)})
    BY DEF Abandons
<1>2. /\ call' \in [Process -> Call] /\ call'[p].st = "none"
      /\ \A q \in Process : q # p => call'[q] = call[q]
    BY <1>0, <1>1, CallFacts DEF Ends, NoCall
<1>3. /\ Late(p).reg = MyBody(p) /\ Late(p).to = agent[p].phase
      /\ Late(p).until = now + Linger
    BY DEF Late
<1>4. MyBody(p) \in Registration /\ MyBody(p).nodeId = MyId(p)
    BY IdFacts
<1>5. agent[p].phase \in {"register", "beat"}
    BY <1>0 DEF SystemTypeOK, Agent, Alive
<1>6. Late(p) \in Request
    BY <1>0, <1>4, <1>5 DEF Late, Request
<1> HIDE DEF Late
<1>7. adrift' \subseteq Request
    BY <1>0, <1>1, <1>6
<1>8. Adrift'
    BY <1>0, <1>1, <1>3 DEF Adrift
<1> QED BY <1>1, <1>2, <1>3, <1>4, <1>7, <1>8

\* The living have not died.
LEMMA LivingIds ==
    ASSUME SystemInv, NEW p \in Process, Alive(p)
    PROVE  MyId(p) \notin DOMAIN diedAt
<1>1. agent[p].start \in Nat
    BY DEF SystemInv, SystemTypeOK, Agent
<1> QED BY <1>1 DEF SystemInv, Dead, MyId

LEMMA ProcessSteps ==
    ASSUME SystemInv, NEW p \in Process,
           \/ StartProcess(p) \/ SendRegister(p) \/ Registered(p) \/ RegisterFails(p)
           \/ SendBeat(p) \/ BeatEnds(p) \/ Die(p) \/ RegisterRefused(p)
    PROVE  SystemTypeOK' /\ Started' /\ Dead' /\ Buried' /\ Adrift' /\ Known'
<1> USE DEF SystemInv
<1>0. /\ TypeOK /\ now \in Timestamp /\ now \in Nat /\ SystemTypeOK
      /\ agent \in [Process -> Agent] /\ agent[p] \in Agent
      /\ agent[p].timer \in Nat /\ agent[p].backoff \in 1..MaxBackoff
    BY DEF IInv, TypeOK, Timestamp, SystemTypeOK, Agent
<1>1. CASE StartProcess(p)
    <2>1. PICK host \in Hosts :
             agent' = [agent EXCEPT ![p] =
                         [phase |-> "register", start |-> agent[p].start + 1,
                          host |-> host, timer |-> now, backoff |-> 1]]
        BY <1>1 DEF StartProcess
    <2> DEFINE new == [phase |-> "register", start |-> agent[p].start + 1,
                       host |-> host, timer |-> now, backoff |-> 1]
    <2>2. agent[p].start + 1 \in 1..MaxStarts /\ agent[p].start \in Nat
        BY <1>0, <1>1, MembershipAssumption DEF StartProcess, Agent
    <2>3. new \in Agent /\ new.start = agent[p].start + 1 /\ new.phase = "register"
        BY <1>0, <2>2, MembershipAssumption DEF Agent
    <2> HIDE DEF new
    <2>4. /\ agent' \in [Process -> Agent] /\ agent'[p] = new
          /\ \A q \in Process : q # p => agent'[q] = agent[q]
        BY <1>0, <2>1, <2>3 DEF new
    <2>5. SystemTypeOK'
        BY <1>0, <1>1, <2>4 DEF StartProcess, SystemTypeOK, vars, Timestamp
    <2>6. Started'
        BY <2>2, <2>3, <2>4 DEF Started, Alive
    <2>7. Dead'
        <3> SUFFICES ASSUME NEW q \in Process, NEW k \in Nat, NodeId(q, k) \in DOMAIN diedAt
                     PROVE  k <= agent'[q].start /\ (k = agent'[q].start => ~Alive(q)')
            BY <1>1 DEF Dead, StartProcess
        <3>1. k <= agent[q].start /\ (k = agent[q].start => ~Alive(q))
            BY DEF Dead
        <3>2. CASE q = p
            BY <2>2, <2>3, <2>4, <3>1, <3>2
        <3>3. CASE q # p
            BY <2>4, <3>1, <3>3 DEF Alive
        <3> QED BY <3>2, <3>3
    <2>8. Buried'
        BY <1>1 DEF StartProcess, Buried, vars
    <2>10. Adrift'
        BY <1>1 DEF StartProcess, Adrift, vars
    <2>9. Known'
        <3> SUFFICES ASSUME NEW q \in Process
                     PROVE  /\ agent'[q].phase = "down" => call'[q].st = "none"
                            /\ agent'[q].phase = "register" /\ call'[q].st = "ok"
                                  => MyId(q)' \in DOMAIN nodes'
                            /\ agent'[q].phase = "beat" /\ MyId(q)' \notin DOMAIN nodes'
                                  => NoneLeft(MyId(q))'
            BY DEF Known
        <3>1. CASE q = p
            <4>1. call'[p].st # "ok"
                BY <1>1 DEF StartProcess, Known
            <4> QED BY <2>3, <2>4, <3>1, <4>1
        <3>2. CASE q # p
            <4>1. agent'[q] = agent[q] /\ MyId(q)' = MyId(q)
                BY <2>4, <3>2 DEF MyId
            <4> QED BY <1>1, <4>1 DEF StartProcess, Known, NoneLeft, vars
        <3> QED BY <3>1, <3>2
    <2> QED BY <2>5, <2>6, <2>7, <2>8, <2>9, <2>10
<1>2. CASE SendRegister(p)
    <2>1. call' \in [Process -> Call] /\ call'[p].st = "sent"
          /\ \A q \in Process : q # p => call'[q] = call[q]
        BY <1>0, <1>2, CallFacts DEF SendRegister, SystemTypeOK, Sent
    <2>2. UNCHANGED <<vars, agent, adrift, lastSign, misses, diedAt>>
        BY <1>2 DEF SendRegister
    <2>3. SystemTypeOK'
        BY <2>1, <2>2 DEF SystemTypeOK
    <2>4. Started' /\ Dead' /\ Buried' /\ Adrift'
        BY <2>2 DEF Started, Dead, Buried, Adrift, Alive, vars
    <2>5. Known'
        BY <1>2, <2>1, <2>2 DEF SendRegister, Known, NoneLeft, MyId, vars
    <2> QED BY <2>3, <2>4, <2>5
<1>3. ASSUME NEW phase \in {"register", "beat"}, NEW timer \in Nat,
             NEW backoff \in 1..MaxBackoff, Goes(p, phase, timer, backoff),
             Alive(p),
             \/ UNCHANGED adrift /\ (Ends(p) \/ call' = [call EXCEPT ![p] = Sent])
             \/ Abandons(p) /\ phase = "register",
             UNCHANGED <<vars, diedAt>>,
             lastSign' \in [Process -> Timestamp], misses' \in [Process -> Nat],
             phase = "beat" => agent[p].phase = "beat" \/ MyId(p) \in DOMAIN nodes
      PROVE  SystemTypeOK' /\ Started' /\ Dead' /\ Buried' /\ Adrift' /\ Known'
    <2>1. /\ agent' \in [Process -> Agent]
          /\ \A q \in Process : agent'[q].start = agent[q].start
          /\ \A q \in Process : q # p => agent'[q] = agent[q]
          /\ agent'[p].phase = phase
        BY <1>0, <1>3, GoesFacts
    <2>2. /\ call' \in [Process -> Call] /\ call'[p].st # "ok"
          /\ \A q \in Process : q # p => call'[q] = call[q]
          /\ adrift' \subseteq Request /\ Adrift'
          /\ \A m \in adrift' :
                m \in adrift \/ (m.reg.nodeId = MyId(p) /\ phase = "register")
        <3>1. CASE UNCHANGED adrift /\ (Ends(p) \/ call' = [call EXCEPT ![p] = Sent])
            <4>1. Adrift' /\ adrift' \subseteq Request
                BY <1>3, <3>1 DEF Adrift, SystemTypeOK, vars
            <4>2. call' \in [Process -> Call]
                BY <1>0, <3>1, CallFacts
            <4> QED BY <1>0, <3>1, <4>1, <4>2 DEF Ends, Sent, NoCall, SystemTypeOK
        <3>2. CASE Abandons(p) /\ phase = "register"
            <4>1. UNCHANGED now
                BY <1>3 DEF vars
            <4> QED BY <1>3, <3>2, <4>1, AbandonsFacts
        <3> QED BY <1>3, <3>1, <3>2
    <2>4. SystemTypeOK'
        BY <1>3, <2>1, <2>2 DEF SystemTypeOK
    <2>5. \A q \in Process : Alive(q) <=> Alive(q)'
        BY <1>3, <2>1 DEF Alive
    <2>6. Started' /\ Dead'
        BY <1>3, <2>1, <2>5, SameLives
    <2>7. Buried'
        <3>1. MyId(p) \notin DOMAIN diedAt
            BY <1>3, LivingIds
        <3> QED BY <1>3, <2>2, <3>1 DEF Buried, vars
    <2>8. \A q \in Process : MyId(q)' = MyId(q)
        BY <2>1 DEF MyId
    <2>9. Known'
        <3> SUFFICES ASSUME NEW q \in Process
                     PROVE  /\ agent'[q].phase = "down" => call'[q].st = "none"
                            /\ agent'[q].phase = "register" /\ call'[q].st = "ok"
                                  => MyId(q) \in DOMAIN nodes
                            /\ agent'[q].phase = "beat" /\ MyId(q) \notin DOMAIN nodes
                                  => NoneLeft(MyId(q))'
            BY <1>3, <2>8 DEF Known, vars
        <3>1. CASE q = p
            <4>1. agent'[p].phase = "beat" => UNCHANGED <<upserts, adrift>>
                BY <1>3, <2>1 DEF vars
            <4> QED BY <1>3, <2>1, <2>2, <2>8, <3>1, <4>1 DEF Known, NoneLeft
        <3>2. CASE q # p
            <4>1. MyId(q) # MyId(p)
                BY <3>2 DEF MyId, NodeId
            <4> QED BY <1>3, <2>1, <2>2, <2>8, <3>2, <4>1 DEF Known, NoneLeft, vars
        <3> QED BY <3>1, <3>2
    <2> QED BY <2>2, <2>4, <2>6, <2>7, <2>9
<1>4. CASE Registered(p)
    <2>1. MyId(p) \in DOMAIN nodes /\ Alive(p)
        BY <1>4 DEF Registered, Known, Alive
    <2>2. now + HeartbeatInterval \in Nat
        BY <1>0, MembershipAssumption
    <2> QED BY <1>0, <1>3, <1>4, <2>1, <2>2 DEF Registered, SystemTypeOK
<1>5. CASE RegisterFails(p)
    <2>1. Alive(p) /\ now + agent[p].backoff \in Nat
        BY <1>0, <1>5 DEF RegisterFails, Alive
    <2>2. Smaller(2 * agent[p].backoff, MaxBackoff) \in 1..MaxBackoff
        BY <1>0, BackoffFacts
    <2>3. lastSign' \in [Process -> Timestamp] /\ misses' \in [Process -> Nat]
        BY <1>0, <1>5 DEF RegisterFails, SystemTypeOK
    <2>4. Goes(p, "register", now + agent[p].backoff, Smaller(2 * agent[p].backoff, MaxBackoff))
          /\ Abandons(p) /\ UNCHANGED <<vars, diedAt>>
        BY <1>5 DEF RegisterFails
    <2> QED BY <1>3, <2>1, <2>2, <2>3, <2>4
<1>6. CASE SendBeat(p)
    <2>1. Alive(p) /\ now + HeartbeatInterval \in Nat
        BY <1>0, <1>6, MembershipAssumption DEF SendBeat, Alive
    <2>2. /\ Goes(p, "beat", now + HeartbeatInterval, agent[p].backoff)
          /\ call' = [call EXCEPT ![p] = Sent] /\ UNCHANGED <<vars, adrift, diedAt>>
          /\ lastSign' \in [Process -> Timestamp] /\ misses' \in [Process -> Nat]
          /\ agent[p].phase = "beat"
        BY <1>0, <1>6 DEF SendBeat, SystemTypeOK
    <2> QED BY <1>0, <1>3, <2>1, <2>2
<1>7. CASE BeatEnds(p)
    <2>1. /\ UNCHANGED <<vars, agent, lastSign, diedAt>> /\ UNCHANGED now
          /\ Abandons(p) /\ agent[p].phase = "beat" /\ Alive(p)
          /\ misses' \in [Process -> Nat]
        BY <1>7 DEF BeatEnds, SystemTypeOK, Alive, vars
    <2>2. /\ call' \in [Process -> Call] /\ call'[p].st = "none"
          /\ \A q \in Process : q # p => call'[q] = call[q]
          /\ adrift' \subseteq Request /\ Adrift'
          /\ \A m \in adrift' : m \in adrift \/ (m.reg.nodeId = MyId(p) /\ m.to = "beat")
        BY <2>1, AbandonsFacts
    <2>3. SystemTypeOK'
        BY <2>1, <2>2 DEF SystemTypeOK
    <2>4. MyId(p) \notin DOMAIN diedAt
        BY <2>1, LivingIds
    <2>5. Started' /\ Dead' /\ Buried'
        BY <2>1, <2>2, <2>4 DEF Started, Dead, Buried, Alive, vars
    <2>6. Known'
        <3>1. \A id : NoneLeft(id) => NoneLeft(id)'
            BY <2>1, <2>2 DEF NoneLeft, vars
        <3> QED BY <2>1, <2>2, <3>1 DEF Known, MyId, vars
    <2> QED BY <2>2, <2>3, <2>5, <2>6
<1>8. CASE RegisterRefused(p)
    <2>1. call' \in [Process -> Call]
        BY <1>0, <1>8, CallFacts DEF RegisterRefused
    <2>2. call'[p].st # "ok" /\ \A q \in Process : q # p => call'[q] = call[q]
        BY <1>8 DEF RegisterRefused, Becomes, SystemTypeOK
    <2>3. UNCHANGED <<vars, agent, adrift, lastSign, misses, diedAt>>
        BY <1>8 DEF RegisterRefused
    <2>4. SystemTypeOK'
        BY <2>1, <2>3 DEF SystemTypeOK
    <2>5. Started' /\ Dead' /\ Buried' /\ Adrift'
        BY <2>3 DEF Started, Dead, Buried, Adrift, Alive, vars
    <2>6. Known'
        BY <1>8, <2>2, <2>3 DEF RegisterRefused, Known, NoneLeft, MyId, vars
    <2> QED BY <2>4, <2>5, <2>6
<1>9. CASE Die(p)
    <2>1. /\ agent' \in [Process -> Agent]
          /\ \A q \in Process : agent'[q].start = agent[q].start
          /\ \A q \in Process : q # p => agent'[q] = agent[q]
          /\ agent'[p].phase = "down"
        BY <1>0, <1>9, GoesFacts DEF Die
    <2>3. UNCHANGED <<vars, lastSign, misses>> /\ diedAt' = Put(diedAt, MyId(p), now)
          /\ Alive(p) /\ Abandons(p) /\ UNCHANGED now
        BY <1>9 DEF Die, Alive, vars
    <2>2. /\ call' \in [Process -> Call] /\ call'[p].st = "none"
          /\ \A q \in Process : q # p => call'[q] = call[q]
          /\ adrift' \subseteq Request /\ Adrift'
          /\ \A m \in adrift' : \/ m \in adrift
                                \/ m.reg.nodeId = MyId(p) /\ m.until = now + Linger
        BY <2>3, AbandonsFacts
    <2>4. /\ DOMAIN diedAt' = DOMAIN diedAt \cup {MyId(p)}
          /\ diedAt'[MyId(p)] = now
          /\ \A id \in DOMAIN diedAt : id # MyId(p) => diedAt'[id] = diedAt[id]
        BY <2>3 DEF Put
    <2>5. SystemTypeOK'
        BY <1>0, <2>1, <2>2, <2>3, <2>4 DEF SystemTypeOK, vars
    <2>6. Started'
        BY <2>1 DEF Started, Alive
    <2>7. Dead'
        <3> SUFFICES ASSUME NEW q \in Process, NEW k \in Nat, NodeId(q, k) \in DOMAIN diedAt'
                     PROVE  k <= agent'[q].start /\ (k = agent'[q].start => ~Alive(q)')
            BY DEF Dead
        <3>1. CASE NodeId(q, k) \in DOMAIN diedAt
            BY <2>1, <3>1 DEF Dead, Alive
        <3>2. CASE NodeId(q, k) = MyId(p)
            <4>1. q = p /\ k = agent[p].start
                BY <3>2 DEF NodeId, MyId
            <4>2. agent[p].start \in Nat
                BY <1>0 DEF Agent
            <4> QED BY <2>1, <4>1, <4>2 DEF Alive
        <3> QED BY <2>4, <3>1, <3>2
    <2>8. Buried'
        <3> SUFFICES ASSUME NEW id \in DOMAIN diedAt'
                     PROVE  /\ id \in DOMAIN nodes => nodes[id].lastSeen <= diedAt'[id] + Linger
                            /\ \A u \in upserts : u.reg.nodeId = id
                                  => u.at <= diedAt'[id] + Linger
                            /\ \A b \in beats : b.id = id => b.at <= diedAt'[id] + Linger
                            /\ \A m \in adrift' : m.reg.nodeId = id
                                  => m.until <= diedAt'[id] + Linger
            BY <2>3 DEF Buried, vars
        <3>1. CASE id = MyId(p)
            <4>0. Linger \in Nat
                BY MembershipAssumption
            <4>1. ASSUME id \in DOMAIN nodes PROVE nodes[id].lastSeen <= now + Linger
                <5>1. nodes[id].lastSeen \in Nat /\ heard[id] \in Nat
                    BY <4>1 DEF IInv, TypeOK, Timestamp
                <5> QED BY <1>0, <4>0, <4>1, <5>1 DEF IInv, Records
            <4>2. \A c \in upserts \cup beats : c.at <= now + Linger
                <5>1. \A c \in upserts \cup beats : c.at \in Nat /\ c.at <= now
                    BY DEF IInv, Calls, TypeOK, Timestamp
                <5> QED BY <1>0, <4>0, <5>1
            <4>3. \A m \in adrift' : m.until <= now + Linger
                BY <2>2, <2>3 DEF Adrift
            <4> QED BY <2>4, <3>1, <4>1, <4>2, <4>3
        <3>2. CASE id # MyId(p)
            BY <2>2, <2>4, <3>2 DEF Buried
        <3> QED BY <3>1, <3>2
    <2>9. Known'
        <3> SUFFICES ASSUME NEW q \in Process
                     PROVE  /\ agent'[q].phase = "down" => call'[q].st = "none"
                            /\ agent'[q].phase = "register" /\ call'[q].st = "ok"
                                  => MyId(q)' \in DOMAIN nodes'
                            /\ agent'[q].phase = "beat" /\ MyId(q)' \notin DOMAIN nodes'
                                  => NoneLeft(MyId(q))'
            BY DEF Known
        <3>1. CASE q = p
            BY <2>1, <2>2, <3>1
        <3>2. CASE q # p
            <4>1. agent'[q] = agent[q] /\ MyId(q)' = MyId(q) /\ call'[q] = call[q]
                BY <2>1, <2>2, <3>2 DEF MyId
            <4>2. MyId(q) # MyId(p)
                BY <3>2 DEF MyId, NodeId
            <4> QED BY <2>2, <2>3, <4>1, <4>2 DEF Known, NoneLeft, vars
        <3> QED BY <3>1, <3>2
    <2> QED BY <2>2, <2>5, <2>6, <2>7, <2>8, <2>9
<1> QED BY <1>1, <1>2, <1>4, <1>5, <1>6, <1>7, <1>8, <1>9

----------------------------------------------------------------------------
(* The directory's steps.                                                  *)

\* At most one call changes, and not into that of a process that is down.
OnlyCall(p) ==
    /\ UNCHANGED <<now, agent, adrift, lastSign, diedAt>>
    /\ misses' \in [Process -> Nat]
    /\ \/ UNCHANGED call
       \/ /\ Alive(p)
          /\ \E st \in {"handling", "ok", "refused"}, t \in Timestamp : Becomes(p, st, t)

LEMMA OnlyCallFacts ==
    ASSUME SystemInv, NEW p \in Process, OnlyCall(p)
    PROVE  /\ SystemTypeOK' /\ Started' /\ Dead' /\ Adrift'
           /\ \A q \in Process : q # p => call'[q] = call[q]
           /\ \A q \in Process : agent'[q].phase = "down" => call'[q].st = "none"
<1>1. call' \in [Process -> Call]
    BY CallFacts DEF OnlyCall, SystemInv, IInv, SystemTypeOK
<1>2. SystemTypeOK'
    BY <1>1 DEF OnlyCall, SystemInv, SystemTypeOK
<1>3. Started' /\ Dead' /\ Adrift'
    BY DEF OnlyCall, SystemInv, Started, Dead, Adrift, Alive
<1>4. \A q \in Process : q # p => call'[q] = call[q]
    BY DEF OnlyCall, Becomes, SystemInv, SystemTypeOK
<1>5. \A q \in Process : agent'[q].phase = "down" => call'[q].st = "none"
    BY <1>4 DEF OnlyCall, Alive, SystemInv, Known
<1> QED BY <1>2, <1>3, <1>4, <1>5

LEMMA DirectorySteps ==
    ASSUME SystemInv, NEW p \in Process,
           \/ RegisterArrives(p) \/ BeatArrives(p)
           \/ \E u \in upserts : RegisterTakesEffect(p, u)
           \/ \E b \in beats : BeatTakesEffect(p, b) \/ BeatUnknown(p, b)
    PROVE  SystemTypeOK' /\ Started' /\ Dead' /\ Buried' /\ Adrift' /\ Known'
<1> USE DEF SystemInv
<1>0. /\ TypeOK /\ now \in Timestamp /\ SystemTypeOK
      /\ \A c \in upserts \cup beats : c.at \in Timestamp
    BY DEF IInv, TypeOK, MyId
<1>00. \A q \in Process : Alive(q) => MyId(q) \notin DOMAIN diedAt
    BY LivingIds
<1>1. CASE RegisterArrives(p)
    <2>1. OnlyCall(p) /\ call'[p].st = "handling"
        BY <1>0, <1>1 DEF RegisterArrives, RegisterHandler, OnlyCall, Alive, SystemTypeOK,
                          Becomes
    <2>2. Alive(p) /\ agent[p].phase = "register"
        BY <1>1 DEF RegisterArrives, Alive
    <2>3. /\ upserts' = upserts \cup {[reg |-> MyBody(p), at |-> now]}
          /\ UNCHANGED <<nodes, beats, agent, adrift, diedAt>>
        BY <1>1 DEF RegisterArrives, RegisterHandler
    <2>4. MyBody(p).nodeId = MyId(p)
        BY <2>2, IdFacts
    <2>5. Buried'
        BY <1>00, <2>2, <2>3, <2>4 DEF Buried
    <2>6. Known'
        <3> SUFFICES ASSUME NEW q \in Process
                     PROVE  /\ agent[q].phase = "register" /\ call'[q].st = "ok"
                                  => MyId(q) \in DOMAIN nodes
                            /\ agent[q].phase = "beat" /\ MyId(q) \notin DOMAIN nodes
                                  => NoneLeft(MyId(q))'
            BY <2>1, <2>3, OnlyCallFacts DEF Known, MyId
        <3>1. CASE q = p
            BY <2>1, <2>2, <3>1
        <3>2. CASE q # p
            <4>1. MyId(q) # MyId(p) /\ MyId(q)' = MyId(q)
                BY <2>3, <3>2 DEF MyId, NodeId
            <4>2. NoneLeft(MyId(q)) => NoneLeft(MyId(q))'
                BY <2>3, <2>4, <4>1 DEF NoneLeft
            <4>3. call'[q] = call[q]
                BY <1>0, <2>1, <3>2 DEF OnlyCall, Becomes, SystemTypeOK
            <4> QED BY <4>2, <4>3 DEF Known
        <3> QED BY <3>1, <3>2
    <2> QED BY <2>1, <2>5, <2>6, OnlyCallFacts
<1>2. CASE BeatArrives(p)
    <2>1. OnlyCall(p) /\ call'[p].st = "handling"
        BY <1>0, <1>2 DEF BeatArrives, HeartbeatHandler, OnlyCall, Alive, SystemTypeOK, Becomes
    <2>2. Alive(p)
        BY <1>2 DEF BeatArrives, Alive
    <2>3. /\ beats' = beats \cup {[id |-> MyId(p), at |-> now]}
          /\ UNCHANGED <<nodes, upserts, agent, adrift, diedAt>>
        BY <1>2 DEF BeatArrives, HeartbeatHandler
    <2>4. Buried'
        BY <1>00, <2>2, <2>3 DEF Buried
    <2>5. Known'
        BY <2>1, <2>3, OnlyCallFacts DEF Known, NoneLeft, MyId
    <2> QED BY <2>1, <2>4, <2>5, OnlyCallFacts
<1>3. CASE \E u \in upserts : RegisterTakesEffect(p, u)
    <2>1. PICK u \in upserts : RegisterTakesEffect(p, u)
        BY <1>3
    <2> DEFINE id == u.reg.nodeId
    <2>2. OnlyCall(p)
        BY <1>0, <2>1 DEF RegisterTakesEffect, Upsert, OnlyCall, Alive, SystemTypeOK
    <2>3. /\ upserts' = upserts \ {u} /\ UNCHANGED <<beats, agent, adrift, diedAt>>
          /\ nodes' = Put(nodes, id, Record(u.reg.nodeType, u.at))
        BY <2>1 DEF RegisterTakesEffect, Upsert
    <2> HIDE DEF id
    <2>4. /\ DOMAIN nodes' = DOMAIN nodes \cup {id}
          /\ nodes'[id].lastSeen = u.at
          /\ \A i \in DOMAIN nodes : i # id => nodes'[i] = nodes[i]
        BY <2>3 DEF Put, Record
    <2>5. Buried'
        <3> SUFFICES ASSUME NEW i \in DOMAIN diedAt
                     PROVE  /\ i \in DOMAIN nodes' => nodes'[i].lastSeen <= diedAt[i] + Linger
                            /\ \A v \in upserts' : v.reg.nodeId = i
                                  => v.at <= diedAt[i] + Linger
                            /\ \A b \in beats : b.id = i => b.at <= diedAt[i] + Linger
                            /\ \A m \in adrift : m.reg.nodeId = i
                                  => m.until <= diedAt[i] + Linger
            BY <2>3 DEF Buried
        <3>1. CASE i = id
            BY <2>3, <2>4, <3>1 DEF Buried, id
        <3>2. CASE i # id
            BY <2>3, <2>4, <3>2 DEF Buried
        <3> QED BY <3>1, <3>2
    <2>6. call'[p].st = "ok" /\ agent[p].phase = "register" => MyId(p) \in DOMAIN nodes'
        <3>1. CASE agent[p].phase = "register" /\ id = MyId(p) /\ Pending(p, u.at)
            BY <2>4, <3>1
        <3>2. CASE ~(agent[p].phase = "register" /\ id = MyId(p) /\ Pending(p, u.at))
            <4>1. UNCHANGED call
                BY <2>1, <3>2, Zenon DEF RegisterTakesEffect, id
            <4> QED BY <2>4, <4>1 DEF Known
        <3> QED BY <3>1, <3>2
    <2>7. Known'
        BY <2>2, <2>3, <2>4, <2>6, OnlyCallFacts DEF Known, NoneLeft, MyId
    <2> QED BY <2>2, <2>5, <2>7, OnlyCallFacts
<1>4. ASSUME NEW b \in beats, NEW st \in {"ok", "refused"}, Answered(p, b, st),
             OnlyCall(p), UNCHANGED <<upserts, agent, adrift, diedAt>>,
             beats' = beats \ {b},
             \/ UNCHANGED nodes
             \/ /\ b.id \in DOMAIN nodes
                /\ nodes' = Put(nodes, b.id, Record(nodes[b.id].nodeType, b.at))
      PROVE  Buried' /\ Known'
    <2>1. /\ DOMAIN nodes' = DOMAIN nodes
          /\ \A i \in DOMAIN nodes : \/ nodes'[i] = nodes[i]
                                     \/ i = b.id /\ nodes'[i].lastSeen = b.at
        BY <1>4 DEF Put, Record
    <2>2. Buried'
        BY <1>4, <2>1 DEF Buried
    <2>3. agent[p].phase = "register" => UNCHANGED call
        BY <1>4 DEF Answered
    <2>4. Known'
        BY <1>4, <2>1, <2>3, OnlyCallFacts DEF Known, NoneLeft, MyId
    <2> QED BY <2>2, <2>4
<1>5. CASE \E b \in beats : BeatTakesEffect(p, b) \/ BeatUnknown(p, b)
    <2>1. PICK b \in beats : BeatTakesEffect(p, b) \/ BeatUnknown(p, b)
        BY <1>5
    <2>2. PICK st \in {"ok", "refused"} : Answered(p, b, st)
        BY <2>1 DEF BeatTakesEffect, BeatUnknown
    <2>3. misses' \in [Process -> Nat] /\ UNCHANGED <<now, agent, adrift, lastSign, diedAt>>
        BY <2>1 DEF BeatTakesEffect, BeatUnknown, Heartbeat, HeartbeatUnknown, SystemTypeOK
    <2>4. OnlyCall(p)
        BY <1>0, <2>2, <2>3 DEF Answered, OnlyCall, Alive
    <2>5. /\ UNCHANGED <<upserts, agent, adrift, diedAt>> /\ beats' = beats \ {b}
          /\ \/ UNCHANGED nodes
             \/ /\ b.id \in DOMAIN nodes
                /\ nodes' = Put(nodes, b.id, Record(nodes[b.id].nodeType, b.at))
        BY <2>1 DEF BeatTakesEffect, BeatUnknown, Heartbeat, HeartbeatUnknown
    <2> QED BY <1>4, <2>2, <2>4, <2>5, OnlyCallFacts
<1> QED BY <1>1, <1>2, <1>3, <1>5

\* The steps of requests whose callers are gone.
LEMMA LateSteps ==
    ASSUME SystemInv, NEW p \in Process, NEW m \in adrift,
           LateRegister(p, m) \/ LateRegisterRefused(p, m) \/ LateBeat(p, m)
    PROVE  SystemTypeOK' /\ Started' /\ Dead' /\ Buried' /\ Adrift' /\ Known'
<1> USE DEF SystemInv
<1> DEFINE id == m.reg.nodeId
<1>1. /\ UNCHANGED <<now, nodes, agent, call, lastSign, misses, diedAt>>
      /\ adrift' = adrift \ {m}
    BY DEF LateRegister, LateRegisterRefused, LateBeat, RegisterHandler, HeartbeatHandler, vars
<1>2. \A u \in upserts' :
         u \in upserts \/ (u.reg.nodeId = id /\ u.at = now /\ m.to = "register")
    BY DEF LateRegister, LateRegisterRefused, LateBeat, RegisterHandler, HeartbeatHandler, vars
<1>3. \A b \in beats' : b \in beats \/ (b.id = id /\ b.at = now)
    BY DEF LateRegister, LateRegisterRefused, LateBeat, RegisterHandler, HeartbeatHandler, vars
<1> HIDE DEF id
<1>4. SystemTypeOK' /\ Started' /\ Dead' /\ Adrift'
    BY <1>1 DEF SystemTypeOK, Started, Dead, Adrift, Alive
<1>5. \A i \in DOMAIN diedAt : id = i => now <= diedAt[i] + Linger
    <2> SUFFICES ASSUME id \in DOMAIN diedAt PROVE now <= diedAt[id] + Linger
        OBVIOUS
    <2>1. now <= m.until /\ m.until <= diedAt[id] + Linger
        BY DEF Adrift, Buried, id
    <2>2. now \in Nat /\ m.until \in Nat /\ diedAt[id] \in Nat /\ Linger \in Nat
        BY MembershipAssumption DEF IInv, TypeOK, SystemTypeOK, Request, Timestamp
    <2> QED BY <2>1, <2>2
<1>6. Buried'
    BY <1>1, <1>2, <1>3, <1>5 DEF Buried
<1>7. \A i : NoneLeft(i) => NoneLeft(i)'
    BY <1>1, <1>2 DEF NoneLeft, id
<1>8. Known'
    BY <1>1, <1>7 DEF Known, MyId
<1> QED BY <1>4, <1>6, <1>8

LEMMA GlobalSteps ==
    ASSUME SystemInv, DirectoryRestarts \/ SystemMonitorTick \/ SystemAdvance
    PROVE  SystemTypeOK' /\ Started' /\ Dead' /\ Buried' /\ Adrift' /\ Known'
<1> USE DEF SystemInv
<1>1. CASE DirectoryRestarts
    <2>1. /\ nodes' = Empty /\ upserts' = {} /\ beats' = {} /\ adrift' = {}
          /\ UNCHANGED <<agent, lastSign, misses, diedAt>>
        BY <1>1 DEF DirectoryRestarts, Restart
    <2>2. ASSUME NEW q \in Process
          PROVE  call'[q] \in Call /\ call'[q].st # "ok"
                 /\ (call[q].st = "none" => call'[q].st = "none")
        <3>1. call'[q] = IF call[q].st = "none" THEN NoCall
                  ELSE [st |-> "refused", at |-> call[q].at, deadline |-> call[q].deadline]
            BY <1>1 DEF DirectoryRestarts
        <3>2. call[q] \in Call /\ 0 \in Timestamp
            BY TimingAssumption DEF SystemTypeOK, Timestamp
        <3>3. CASE call[q].st = "none"
            BY <3>1, <3>2, <3>3 DEF NoCall, Call
        <3>4. CASE call[q].st # "none"
            BY <3>1, <3>2, <3>4 DEF Call
        <3> QED BY <3>3, <3>4
    <2>3. call' \in [Process -> Call]
        <3>1. DOMAIN call' = Process /\ call' = [q \in Process |-> call'[q]]
            BY <1>1 DEF DirectoryRestarts
        <3> QED BY <2>2, <3>1
    <2>4. SystemTypeOK' /\ Started' /\ Dead'
        BY <2>1, <2>3 DEF SystemTypeOK, Started, Dead, Alive
    <2>5. Buried' /\ Adrift'
        BY <2>1 DEF Buried, Adrift, Empty
    <2>6. Known'
        BY <2>1, <2>2 DEF Known, NoneLeft, MyId
    <2> QED BY <2>4, <2>5, <2>6
<1>2. CASE SystemMonitorTick
    <2>1. UNCHANGED <<now, agent, call, adrift, lastSign, misses, diedAt, upserts, beats>>
        BY <1>2 DEF SystemMonitorTick, MonitorTick, agents
    <2>2. /\ DOMAIN nodes' = DOMAIN nodes
          /\ \A id \in DOMAIN nodes : nodes'[id].lastSeen = nodes[id].lastSeen
        BY <1>2 DEF SystemMonitorTick, MonitorTick, MarkUnhealthy, IInv, TypeOK
    <2>3. SystemTypeOK' /\ Started' /\ Dead' /\ Adrift'
        BY <2>1 DEF SystemTypeOK, Started, Dead, Adrift, Alive
    <2>4. Buried' /\ Known'
        BY <2>1, <2>2 DEF Buried, Known, NoneLeft, MyId
    <2> QED BY <2>3, <2>4
<1>3. CASE SystemAdvance
    <2>1. /\ UNCHANGED <<agent, call, adrift, lastSign, misses, diedAt, upserts, beats, nodes>>
          /\ now' = now + 1 /\ \A m \in adrift : now < m.until
        BY <1>3 DEF SystemAdvance, Advance, agents
    <2>2. Adrift'
        <3>1. /\ now \in Nat /\ Linger \in Nat
              /\ \A m \in adrift : m.until \in Nat
            BY MembershipAssumption DEF IInv, TypeOK, SystemTypeOK, Request, Timestamp
        <3> QED BY <2>1, <3>1 DEF Adrift
    <2> QED BY <2>1, <2>2 DEF SystemTypeOK, Started, Dead, Alive, Buried, Known, NoneLeft, MyId
<1> QED BY <1>1, <1>2, <1>3

LEMMA SystemNextInv == SystemInv /\ [SystemNext]_systemVars => SystemInv'
<1> SUFFICES ASSUME SystemInv, [SystemNext]_systemVars PROVE SystemInv'
    OBVIOUS
<1>1. IInv'
    BY Steps, NextIInv DEF SystemInv
<1>2. CASE UNCHANGED systemVars
    <2>1. SystemTypeOK' /\ Started' /\ Dead' /\ Buried' /\ Adrift' /\ Known'
        BY <1>2 DEF systemVars, SystemInv, SystemTypeOK, Started, Dead, Alive, Buried,
                    Adrift, Known, NoneLeft, MyId
    <2> QED BY <1>1, <2>1 DEF SystemInv
<1>3. CASE SystemNext
    <2>1. SystemTypeOK' /\ Started' /\ Dead' /\ Buried' /\ Adrift' /\ Known'
        BY <1>3, ProcessSteps, DirectorySteps, LateSteps, GlobalSteps DEF SystemNext, ProcessNext
    <2> QED BY <1>1, <2>1 DEF SystemInv
<1> QED BY <1>2, <1>3

LEMMA SystemInvariance == SystemSpec => []SystemInv
<1> QED BY SystemInitInv, SystemNextInv, PTL DEF SystemSpec

\* Every variable of the system keeps its type.
THEOREM SystemTypeCorrect == SystemSpec => []SystemTypeOK
<1>1. SystemInv => SystemTypeOK
    BY DEF SystemInv
<1> QED BY <1>1, SystemInvariance, PTL

\* With these agents around it the directory takes only the steps of
\* Directory, so everything proved of Directory holds of the system.
LEMMA DirectoryImplemented == SystemSpec => Spec
<1>1. SystemInit => Init
    BY DEF SystemInit
<1> QED BY <1>1, Steps, SystemInvariance, PTL DEF SystemSpec, Spec

\* So the directory is to its clients a real-time failure detector, whatever the
\* agents do.
THEOREM DetectorImplemented == SystemSpec => ImplementsDetector
BY DirectoryImplemented, Implements, PTL

\* A dead process is off the lists within the timeout, one sweep and the
\* monitor's delay of the last moment at which a request of it can have arrived.
THEOREM DeadUnlisted == SystemSpec => []DeadAreUnlisted
<1>1. SystemInv => DeadAreUnlisted
    <2> SUFFICES ASSUME SystemInv, NEW id \in DOMAIN diedAt, id \in List(nodes, FALSE)
                 PROVE  now - diedAt[id] <= StaleBound + Linger
        BY DEF DeadAreUnlisted
    <2>1. now - nodes[id].lastSeen <= StaleBound
        BY ListedRecentState DEF SystemInv, ListedAreRecent
    <2>2. id \in DOMAIN nodes
        BY DEF List, Healthy
    <2>3. nodes[id].lastSeen <= diedAt[id] + Linger
        BY <2>2 DEF SystemInv, Buried
    <2>4. now \in Nat /\ nodes[id].lastSeen \in Nat /\ diedAt[id] \in Nat
        BY <2>2 DEF SystemInv, IInv, TypeOK, Timestamp, SystemTypeOK
    <2>5. StaleBound \in Nat /\ Linger \in Nat
        BY TimingAssumption, MembershipAssumption DEF StaleBound
    <2> QED BY <2>1, <2>3, <2>4, <2>5
<1> QED BY <1>1, SystemInvariance, PTL

\* Only a request that the dead process left behind can make it HEALTHY again,
\* and by then it has arrived.
THEOREM DeadStayUnlisted == SystemSpec => DeadDoNotReturn
<1> DEFINE Stay == \A id \in DOMAIN diedAt :
                      id \in List(nodes', FALSE) \ List(nodes, FALSE)
                         => now - diedAt[id] <= Linger + HandlerDelay
<1>1. SystemInv /\ [SystemNext]_systemVars => Stay
    <2> SUFFICES ASSUME SystemInv, [Next]_vars, NEW id \in DOMAIN diedAt,
                        id \in Healthy(nodes'), id \notin Healthy(nodes)
                 PROVE  now - diedAt[id] <= Linger + HandlerDelay
        BY Steps DEF List
    <2>0. now \in Nat /\ diedAt[id] \in Nat /\ Linger \in Nat /\ HandlerDelay \in Nat
        BY TimingAssumption, MembershipAssumption
        DEF SystemInv, IInv, TypeOK, SystemTypeOK, Timestamp
    <2>1. ASSUME NEW u \in upserts, Upsert(u) PROVE now - diedAt[id] <= Linger + HandlerDelay
        <3>1. u.reg.nodeId = id
            BY <2>1 DEF Upsert, Put, Healthy
        <3>2. u.at <= diedAt[id] + Linger /\ now <= u.at + HandlerDelay /\ u.at \in Nat
            BY <3>1 DEF SystemInv, Buried, IInv, Calls, TypeOK, Timestamp
        <3> QED BY <2>0, <3>2
    <2>2. ASSUME NEW b \in beats, Heartbeat(b) PROVE now - diedAt[id] <= Linger + HandlerDelay
        <3>1. b.id = id
            BY <2>2 DEF Heartbeat, Put, Healthy
        <3>2. b.at <= diedAt[id] + Linger /\ now <= b.at + HandlerDelay /\ b.at \in Nat
            BY <3>1 DEF SystemInv, Buried, IInv, Calls, TypeOK, Timestamp
        <3> QED BY <2>0, <3>2
    <2>3. ASSUME NEW i \in Id, Deregister(i) PROVE FALSE
        BY <2>3 DEF Deregister, Drop, Healthy
    <2>4. ~MonitorTick
        <3> SUFFICES ASSUME MonitorTick PROVE FALSE
            OBVIOUS
        <3>1. id \in DOMAIN nodes /\ nodes[id].status # "HEALTHY"
            BY DEF MonitorTick, MarkUnhealthy, Healthy
        <3>2. nodes'[id] = nodes[id]
            BY <3>1 DEF MonitorTick, MarkUnhealthy
        <3> QED BY <3>1, <3>2 DEF Healthy
    <2>5. ~Restart
        BY DEF Restart, Empty, Healthy
    <2>6. nodes' # nodes
        OBVIOUS
    <2> QED BY <2>1, <2>2, <2>3, <2>4, <2>5, <2>6
            DEF Next, vars, RegisterHandler, HeartbeatHandler, HeartbeatUnknown, Advance
<1> QED BY <1>1, SystemInvariance, PTL DEF SystemSpec, DeadDoNotReturn

\* A node the directory has forgotten stays forgotten while its process runs:
\* no registration of it is left in flight, and heartbeats register nothing.
THEOREM ForgottenStays == SystemSpec => ForgottenStaysForgotten
<1> DEFINE Stays == \A p \in Process :
                       /\ agent[p].phase = "beat"
                       /\ MyId(p) \notin DOMAIN nodes
                       => MyId(p) \notin DOMAIN nodes'
<1>1. SystemInv /\ [SystemNext]_systemVars => Stays
    <2> SUFFICES ASSUME SystemInv, [Next]_vars, NEW p \in Process,
                        agent[p].phase = "beat", MyId(p) \notin DOMAIN nodes
                 PROVE  MyId(p) \notin DOMAIN nodes'
        BY Steps
    <2>1. ASSUME NEW u \in upserts, Upsert(u) PROVE MyId(p) \notin DOMAIN nodes'
        <3>1. u.reg.nodeId # MyId(p)
            BY DEF SystemInv, Known, NoneLeft
        <3> QED BY <2>1, <3>1 DEF Upsert, Put
    <2>2. ASSUME NEW b \in beats, Heartbeat(b) PROVE MyId(p) \notin DOMAIN nodes'
        BY <2>2 DEF Heartbeat, Put
    <2>3. ASSUME NEW id \in Id, Deregister(id) PROVE MyId(p) \notin DOMAIN nodes'
        BY <2>3 DEF Deregister, Drop
    <2>4. CASE MonitorTick \/ Restart
        BY <2>4 DEF MonitorTick, MarkUnhealthy, Restart, Empty
    <2>5. ASSUME \/ \E reg \in Registration : RegisterHandler(reg)
                 \/ \E id \in Id : HeartbeatHandler(id)
                 \/ \E b \in beats : HeartbeatUnknown(b)
                 \/ Advance \/ UNCHANGED vars
          PROVE  MyId(p) \notin DOMAIN nodes'
        BY <2>5 DEF RegisterHandler, HeartbeatHandler, HeartbeatUnknown, Advance, vars
    <2> QED BY <2>1, <2>2, <2>3, <2>4, <2>5 DEF Next
<1> QED BY <1>1, SystemInvariance, PTL DEF SystemSpec, ForgottenStaysForgotten

----------------------------------------------------------------------------
(* Timers.                                                                 *)

\* What the steps of other processes leave alone.
Local(p) ==
    /\ UNCHANGED <<agent[p], call[p], lastSign[p], misses[p]>>
    /\ \A b : b.id = MyId(p) => (b \in beats' <=> b \in beats)
    /\ MyId(p) \in DOMAIN nodes' <=> MyId(p) \in DOMAIN nodes
    /\ MyId(p) \in DOMAIN nodes => /\ nodes'[MyId(p)] = nodes[MyId(p)]
                                   /\ heard'[MyId(p)] = heard[MyId(p)]

LEMMA OtherSteps ==
    ASSUME SystemInv, NEW p \in Process, NEW q \in Process, p # q, ProcessNext(q)
    PROVE  Local(p) /\ UNCHANGED now
<1> USE DEF SystemInv
<1>0. /\ agent \in [Process -> Agent] /\ call \in [Process -> Call]
      /\ lastSign \in [Process -> Timestamp] /\ misses \in [Process -> Nat]
      /\ DOMAIN heard = DOMAIN nodes
    BY DEF SystemTypeOK, IInv, TypeOK
<1>1. \A k : NodeId(q, k) # MyId(p)
    BY DEF NodeId, MyId
<1>2. \A id : id[1] = q => id # MyId(p)
    BY DEF NodeId, MyId
<1>3. CASE \/ StartProcess(q) \/ SendRegister(q) \/ Registered(q) \/ RegisterFails(q)
           \/ SendBeat(q) \/ BeatEnds(q) \/ Die(q) \/ RegisterRefused(q)
    <2>1. UNCHANGED vars
        BY <1>3 DEF StartProcess, SendRegister, Registered, RegisterFails, SendBeat,
                    BeatEnds, Die, RegisterRefused
    <2>2. UNCHANGED <<agent[p], call[p], lastSign[p], misses[p]>>
        BY <1>0, <1>3 DEF StartProcess, SendRegister, Registered, RegisterFails, SendBeat,
                    BeatEnds, Die, RegisterRefused, Goes, Abandons, Ends, Becomes
    <2> QED BY <2>1, <2>2 DEF Local, vars
<1>4. CASE RegisterArrives(q)
    BY <1>0, <1>4 DEF RegisterArrives, RegisterHandler, Becomes, Local
<1>5. ASSUME NEW u \in upserts, RegisterTakesEffect(q, u)
      PROVE  Local(p) /\ UNCHANGED now
    <2> DEFINE id == u.reg.nodeId
    <2>1. id # MyId(p)
        BY <1>2, <1>5 DEF RegisterTakesEffect
    <2>2. /\ nodes' = Put(nodes, id, Record(u.reg.nodeType, u.at))
          /\ heard' = Put(heard, id, Newest(id, u.at))
          /\ UNCHANGED <<now, beats, agent, lastSign, misses>>
        BY <1>5 DEF RegisterTakesEffect, Upsert
    <2>3. call'[p] = call[p]
        BY <1>0, <1>5 DEF RegisterTakesEffect, Becomes
    <2> HIDE DEF id
    <2> QED BY <1>0, <2>1, <2>2, <2>3 DEF Put, Local
<1>6. CASE BeatArrives(q)
    <2>1. MyId(q) # MyId(p)
        BY <1>1 DEF MyId
    <2> QED BY <1>0, <1>6, <2>1 DEF BeatArrives, HeartbeatHandler, Becomes, Local
<1>7. ASSUME NEW b \in beats, BeatTakesEffect(q, b) \/ BeatUnknown(q, b)
      PROVE  Local(p) /\ UNCHANGED now
    <2>1. b.id # MyId(p) /\ (b.id = MyId(q) => q # p)
        BY <1>2, <1>7 DEF BeatTakesEffect, BeatUnknown
    <2>2. /\ beats' = beats \ {b}
          /\ \/ UNCHANGED <<nodes, heard>>
             \/ /\ nodes' = Put(nodes, b.id, Record(nodes[b.id].nodeType, b.at))
                /\ heard' = Put(heard, b.id, Newest(b.id, b.at))
          /\ UNCHANGED <<now, agent, lastSign>>
        BY <1>7 DEF BeatTakesEffect, BeatUnknown, Heartbeat, HeartbeatUnknown
    <2>3. call'[p] = call[p] /\ misses'[p] = misses[p]
        BY <1>0, <1>7 DEF BeatTakesEffect, BeatUnknown, Answered, Becomes
    <2> QED BY <1>0, <2>1, <2>2, <2>3 DEF Put, Local
<1>8. ASSUME NEW m \in adrift,
             LateRegister(q, m) \/ LateRegisterRefused(q, m) \/ LateBeat(q, m)
      PROVE  Local(p) /\ UNCHANGED now
    <2>1. m.reg.nodeId # MyId(p)
        BY <1>2, <1>8 DEF LateRegister, LateRegisterRefused, LateBeat
    <2>2. /\ UNCHANGED <<now, nodes, heard, agent, call, lastSign, misses>>
          /\ beats' = beats \/ beats' = beats \cup {[id |-> m.reg.nodeId, at |-> now]}
        BY <1>8 DEF LateRegister, LateRegisterRefused, LateBeat, RegisterHandler,
                    HeartbeatHandler, vars
    <2> QED BY <2>1, <2>2 DEF Local
<1> QED BY <1>3, <1>4, <1>5, <1>6, <1>7, <1>8 DEF ProcessNext

\* A request is over by its deadline, and a timer is met: of a registration
\* within a capped backoff of the last sign, of a heartbeat every interval.
WaitsOK(p) ==
    /\ call[p].st # "none" => /\ call[p].deadline - HttpTimeout <= now
                              /\ now <= call[p].deadline
    /\ call[p].st = "handling" => call[p].deadline - HttpTimeout <= call[p].at
    /\ Alive(p) /\ call[p].st = "none" => now <= agent[p].timer
    /\ agent[p].phase = "register" =>
          /\ call[p].st = "none" => agent[p].timer <= lastSign[p] + MaxBackoff
          /\ call[p].st # "none" =>
                call[p].deadline <= lastSign[p] + MaxBackoff + HttpTimeout
    /\ agent[p].phase = "beat" =>
          /\ agent[p].timer <= now + HeartbeatInterval
          /\ call[p].st # "none" =>
                call[p].deadline = agent[p].timer - HeartbeatInterval + HttpTimeout

Waits == \A p \in Process : WaitsOK(p)

LEMMA AgentFacts ==
    ASSUME SystemInv, NEW p \in Process
    PROVE  /\ now \in Nat /\ lastSign[p] \in Nat /\ misses[p] \in Nat
           /\ agent[p].timer \in Nat /\ agent[p].backoff \in 1..MaxBackoff
           /\ agent[p].phase \in {"down", "register", "beat"}
           /\ call[p].at \in Nat /\ call[p].deadline \in Nat
           /\ MaxBackoff \in Nat \ {0} /\ HttpTimeout \in Nat
           /\ HeartbeatInterval \in Nat \ {0} /\ HttpTimeout < HeartbeatInterval
           /\ MyId(p) \in DOMAIN nodes => /\ heard[MyId(p)] \in Nat
                                          /\ nodes[MyId(p)].lastSeen \in Nat
BY MembershipAssumption DEF SystemInv, IInv, TypeOK, SystemTypeOK, Timestamp, Agent, Call

\* What a process does with its call and its timer.
LEMMA CallValues ==
    ASSUME SystemInv, NEW p \in Process
    PROVE  /\ Ends(p) \/ Abandons(p) => call'[p].st = "none"
           /\ call' = [call EXCEPT ![p] = Sent] =>
                 call'[p].st = "sent" /\ call'[p].deadline = now + HttpTimeout
           /\ \A st, t : Becomes(p, st, t) =>
                 /\ call'[p].st = st /\ call'[p].at = t
                 /\ call'[p].deadline = call[p].deadline
           /\ \A phase, timer, backoff : Goes(p, phase, timer, backoff) =>
                 /\ agent'[p].phase = phase /\ agent'[p].timer = timer
                 /\ agent'[p].start = agent[p].start
<1>1. agent \in [Process -> Agent] /\ call \in [Process -> Call]
    BY DEF SystemInv, SystemTypeOK
<1> QED BY <1>1 DEF Abandons, Ends, NoCall, Sent, Becomes, Goes

\* A call the directory works on keeps its deadline.
Handled(p) ==
    /\ UNCHANGED <<agent[p], lastSign[p], now>>
    /\ \/ UNCHANGED call[p]
       \/ /\ call[p].st # "none" /\ call'[p].st # "none"
          /\ call'[p].deadline = call[p].deadline
          /\ call'[p].st = "handling" => call'[p].at = now

LEMMA HandledWaits ==
    ASSUME SystemInv, NEW p \in Process, WaitsOK(p), Handled(p)
    PROVE  WaitsOK(p)'
BY AgentFacts DEF WaitsOK, Handled, Alive

LEMMA OwnWaits ==
    ASSUME SystemInv, NEW p \in Process, WaitsOK(p), ProcessNext(p)
    PROVE  WaitsOK(p)'
<1>0. /\ agent \in [Process -> Agent] /\ call \in [Process -> Call]
      /\ lastSign \in [Process -> Timestamp]
    BY DEF SystemInv, SystemTypeOK
<1>1. CASE StartProcess(p)
    <2>1. /\ agent'[p].phase = "register" /\ agent'[p].timer = now /\ lastSign'[p] = now
          /\ now' = now /\ call' = call
        BY <1>0, <1>1 DEF StartProcess, vars
    <2>2. call[p].st = "none"
        BY <1>1 DEF StartProcess, SystemInv, Known
    <2> QED BY <2>1, <2>2, AgentFacts DEF WaitsOK, Alive
<1>2. CASE SendRegister(p)
    <2>1. /\ agent[p].phase = "register" /\ agent[p].timer = now /\ call[p].st = "none"
          /\ call'[p].st = "sent" /\ call'[p].deadline = now + HttpTimeout
          /\ UNCHANGED <<agent, lastSign, now>>
        BY <1>2, CallValues DEF SendRegister, vars
    <2> QED BY <2>1, AgentFacts DEF WaitsOK, Alive
<1>3. CASE Registered(p)
    <2>1. /\ call'[p].st = "none" /\ agent'[p].phase = "beat"
          /\ agent'[p].timer = now + HeartbeatInterval /\ now' = now
        BY <1>3, CallValues DEF Registered, vars
    <2> QED BY <2>1, AgentFacts DEF WaitsOK, Alive
<1>4. CASE RegisterFails(p)
    <2>1. /\ call'[p].st = "none" /\ agent'[p].phase = "register"
          /\ agent'[p].timer = now + agent[p].backoff /\ now' = now /\ lastSign'[p] = now
        BY <1>0, <1>4, CallValues DEF RegisterFails, vars
    <2> QED BY <2>1, AgentFacts DEF WaitsOK, Alive
<1>5. CASE SendBeat(p)
    <2>1. /\ agent[p].timer = now /\ agent'[p].phase = "beat"
          /\ agent'[p].timer = now + HeartbeatInterval /\ now' = now
          /\ call'[p].st = "sent" /\ call'[p].deadline = now + HttpTimeout
        <3>1. /\ agent[p].timer = now /\ now' = now
              /\ call' = [call EXCEPT ![p] = Sent]
              /\ Goes(p, "beat", now + HeartbeatInterval, agent[p].backoff)
            BY <1>5 DEF SendBeat, vars
        <3>2. agent'[p].phase = "beat" /\ agent'[p].timer = now + HeartbeatInterval
            BY <3>1, <1>0 DEF Goes
        <3>3. call'[p].st = "sent" /\ call'[p].deadline = now + HttpTimeout
            BY <3>1, CallValues
        <3> QED BY <3>1, <3>2, <3>3
    <2> QED BY <2>1, AgentFacts DEF WaitsOK, Alive
<1>6. CASE BeatEnds(p)
    <2>1. /\ agent[p].phase = "beat" /\ call[p].st # "none" /\ call'[p].st = "none"
          /\ UNCHANGED <<agent, now>>
        BY <1>6, CallValues DEF BeatEnds, vars
    <2> QED BY <2>1, AgentFacts DEF WaitsOK, Alive
<1>7. CASE Die(p)
    <2>1. agent'[p].phase = "down" /\ call'[p].st = "none"
        BY <1>7, CallValues DEF Die
    <2> QED BY <2>1 DEF WaitsOK, Alive
<1>8. CASE RegisterArrives(p) \/ RegisterRefused(p) \/ BeatArrives(p)
    <2>1. call[p].st = "sent" /\ \E st \in {"handling", "refused"} : Becomes(p, st, now)
        BY <1>8 DEF RegisterArrives, RegisterRefused, BeatArrives
    <2>2. UNCHANGED <<agent, lastSign, now>>
        BY <1>8 DEF RegisterArrives, RegisterRefused, BeatArrives, RegisterHandler,
                    HeartbeatHandler, vars
    <2>3. Handled(p)
        BY <2>1, <2>2, CallValues DEF Handled
    <2> QED BY <2>3, HandledWaits
<1>9. ASSUME NEW u \in upserts, RegisterTakesEffect(p, u)
      PROVE  WaitsOK(p)'
    <2>1. UNCHANGED <<agent, lastSign, now>>
        BY <1>9 DEF RegisterTakesEffect, Upsert
    <2>2. UNCHANGED call \/ (call[p].st # "none" /\ Becomes(p, "ok", u.at))
        BY <1>9 DEF RegisterTakesEffect, Pending
    <2>3. Handled(p)
        BY <2>1, <2>2, CallValues DEF Handled
    <2> QED BY <2>3, HandledWaits
<1>10. ASSUME NEW b \in beats, BeatTakesEffect(p, b) \/ BeatUnknown(p, b)
       PROVE  WaitsOK(p)'
    <2>1. UNCHANGED <<agent, lastSign, now>>
        BY <1>10 DEF BeatTakesEffect, BeatUnknown, Heartbeat, HeartbeatUnknown
    <2>2. \/ UNCHANGED call
          \/ call[p].st # "none" /\ \E st \in {"ok", "refused"} : Becomes(p, st, b.at)
        BY <1>10 DEF BeatTakesEffect, BeatUnknown, Answered, Pending
    <2>3. Handled(p)
        BY <2>1, <2>2, CallValues DEF Handled
    <2> QED BY <2>3, HandledWaits
<1>11. ASSUME NEW m \in adrift,
              LateRegister(p, m) \/ LateRegisterRefused(p, m) \/ LateBeat(p, m)
       PROVE  WaitsOK(p)'
    <2>1. Handled(p)
        BY <1>11 DEF LateRegister, LateRegisterRefused, LateBeat, RegisterHandler,
                     HeartbeatHandler, vars, Handled
    <2> QED BY <2>1, HandledWaits
<1> QED BY <1>1, <1>2, <1>3, <1>4, <1>5, <1>6, <1>7, <1>8, <1>9, <1>10, <1>11 DEF ProcessNext

LEMMA NextWaits == SystemInv /\ Waits /\ [SystemNext]_systemVars => Waits'
<1> SUFFICES ASSUME SystemInv, [SystemNext]_systemVars, NEW p \in Process, WaitsOK(p)
             PROVE  WaitsOK(p)'
    BY DEF Waits
<1>1. CASE ProcessNext(p)
    BY <1>1, OwnWaits
<1>2. ASSUME NEW q \in Process, q # p, ProcessNext(q)
      PROVE  WaitsOK(p)'
    <2>1. Handled(p)
        BY <1>2, OtherSteps DEF Local, Handled
    <2> QED BY <2>1, HandledWaits
<1>3. CASE DirectoryRestarts
    <2>1. UNCHANGED <<agent, lastSign, now>>
        BY <1>3 DEF DirectoryRestarts, Restart
    <2>2. call'[p] = IF call[p].st = "none" THEN NoCall
             ELSE [st |-> "refused", at |-> call[p].at, deadline |-> call[p].deadline]
        BY <1>3 DEF DirectoryRestarts
    <2>3. CASE call[p].st = "none"
        <3>1. call'[p].st = "none"
            BY <2>2, <2>3 DEF NoCall
        <3> QED BY <2>1, <2>3, <3>1, AgentFacts DEF WaitsOK, Alive
    <2>4. CASE call[p].st # "none"
        <3>1. Handled(p)
            BY <2>1, <2>2, <2>4 DEF Handled
        <3> QED BY <3>1, HandledWaits
    <2> QED BY <2>3, <2>4
<1>4. CASE SystemMonitorTick
    <2>1. Handled(p)
        BY <1>4 DEF SystemMonitorTick, MonitorTick, agents, Handled
    <2> QED BY <2>1, HandledWaits
<1>5. CASE SystemAdvance
    <2>1. /\ now' = now + 1 /\ UNCHANGED <<agent, call, lastSign>>
          /\ call[p].st # "none" => now < call[p].deadline
          /\ Alive(p) /\ call[p].st = "none" => now < agent[p].timer
        BY <1>5 DEF SystemAdvance, Advance, agents, Alive
    <2> QED BY <2>1, AgentFacts DEF WaitsOK, Alive
<1>6. CASE UNCHANGED systemVars
    <2>1. Handled(p)
        BY <1>6 DEF systemVars, Handled
    <2> QED BY <2>1, HandledWaits
<1> QED BY <1>1, <1>2, <1>3, <1>4, <1>5, <1>6 DEF SystemNext

LEMMA InitWaits == SystemInit => Waits
<1> SUFFICES ASSUME SystemInit, NEW p \in Process PROVE WaitsOK(p)
    BY DEF Waits
<1>1. agent[p].phase = "down" /\ call[p].st = "none"
    BY DEF SystemInit, NoCall
<1> QED BY <1>1 DEF WaitsOK, Alive

LEMMA WaitsInvariance == SystemSpec => [](SystemInv /\ Waits)
BY SystemInvariance, InitWaits, NextWaits, PTL DEF SystemSpec

\* However long the directory is away, a process that is not registered has
\* tried, or been started, within the cap of the backoff and one time-out.
THEOREM RegistrationSoon == SystemSpec => []RegistersSoon
<1>1. SystemInv /\ Waits => RegistersSoon
    <2> SUFFICES ASSUME SystemInv, NEW p \in Process, WaitsOK(p),
                        agent[p].phase = "register"
                 PROVE  now - lastSign[p] <= MaxBackoff + HttpTimeout
        BY DEF Waits, RegistersSoon
    <2> QED BY AgentFacts DEF WaitsOK, Alive
<1> QED BY <1>1, WaitsInvariance, PTL

----------------------------------------------------------------------------
(* Signs of life.                                                          *)

\* A heartbeat takes effect, if it does and its caller has not given up, before
\* the next one is sent.
BeatsInTurn == HttpTimeout + HandlerDelay < HeartbeatInterval

\* The time of m heartbeats.
Missed(m) == m * HeartbeatInterval

LEMMA MissedFacts ==
    /\ Missed(0) = 0
    /\ \A m \in Nat : /\ Missed(m) \in Nat
                      /\ Missed(m + 1) = Missed(m) + HeartbeatInterval
<1>1. HeartbeatInterval \in Nat
    BY MembershipAssumption
<1>2. ASSUME NEW m \in Nat
      PROVE  /\ m * HeartbeatInterval \in Nat
             /\ (m + 1) * HeartbeatInterval = m * HeartbeatInterval + HeartbeatInterval
    BY <1>1
<1> QED BY <1>1, <1>2 DEF Missed

\* The directory has heard of p since `ago` before its latest heartbeat.
Recent(p, ago) ==
    heard[MyId(p)] >= agent[p].timer - HeartbeatInterval - HttpTimeout - HandlerDelay - ago

\* The latest heartbeat is being handled.
Underway(p) ==
    \E b \in beats :
        /\ b.id = MyId(p)
        /\ b.at >= agent[p].timer - HeartbeatInterval
        /\ b.at <= agent[p].timer - HeartbeatInterval + HttpTimeout

\* What becomes of the latest heartbeat is open.
Unsettled(p) == call[p].st = "sent" \/ Underway(p)

SignsOK(p) ==
    /\ agent[p].phase = "register" => misses[p] = 0
    /\ agent[p].phase = "register" /\ call[p].st = "ok" =>
          heard[MyId(p)] >= call[p].deadline - HttpTimeout
    /\ agent[p].phase = "beat" /\ MyId(p) \in DOMAIN nodes =>
          /\ Recent(p, Missed(misses[p] + 1))
          /\ Unsettled(p) \/ Recent(p, Missed(misses[p]))

Signs == \A p \in Process : SignsOK(p)

\* A step that concerns other processes, or no process.
NoSign(p) ==
    /\ UNCHANGED <<agent[p], call[p], misses[p]>>
    /\ \A b : b.id = MyId(p) => (b \in beats' <=> b \in beats)
    /\ MyId(p) \in DOMAIN nodes' <=> MyId(p) \in DOMAIN nodes
    /\ MyId(p) \in DOMAIN nodes => heard'[MyId(p)] = heard[MyId(p)]

LEMMA NoSignKeeps ==
    ASSUME SystemInv, NEW p \in Process, SignsOK(p), NoSign(p)
    PROVE  SignsOK(p)'
<1>1. MyId(p)' = MyId(p)
    BY DEF NoSign, MyId
<1>2. Underway(p) <=> Underway(p)'
    BY <1>1 DEF NoSign, Underway
<1>3. agent[p].phase = "register" /\ call[p].st = "ok" => MyId(p) \in DOMAIN nodes
    BY DEF SystemInv, Known
<1>4. MyId(p) \in DOMAIN nodes => \A ago : Recent(p, ago)' <=> Recent(p, ago)
    BY <1>1 DEF NoSign, Recent
<1> QED BY <1>1, <1>2, <1>3, <1>4 DEF NoSign, SignsOK, Unsettled

\* The newest sign of life does not get older.
LEMMA HeardGrows ==
    ASSUME SystemInv, NEW id, NEW t \in Timestamp, NEW i \in DOMAIN nodes \cup {id},
           heard' = Put(heard, id, Newest(id, t))
    PROVE  /\ i \in DOMAIN nodes => heard'[i] >= heard[i]
           /\ i = id => heard'[i] >= t
           /\ heard'[i] \in Nat
<1>1. DOMAIN heard = DOMAIN nodes /\ \A j \in DOMAIN heard : heard[j] \in Timestamp
    BY DEF SystemInv, IInv, TypeOK
<1>2. t \in Nat /\ \A j \in DOMAIN heard : heard[j] \in Nat
    BY <1>1 DEF Timestamp
<1>3. heard'[i] = IF i = id THEN Newest(id, t) ELSE heard[i]
    BY <1>1 DEF Put
<1> QED BY <1>1, <1>2, <1>3 DEF Newest

LEMMA TimingFacts ==
    /\ HandlerDelay \in Nat /\ HttpTimeout \in Nat /\ HeartbeatInterval \in Nat \ {0}
    /\ HeartbeatTimeout \in Nat
BY TimingAssumption, MembershipAssumption

LEMMA OwnSigns ==
    ASSUME SystemInv, BeatsInTurn, NEW p \in Process, WaitsOK(p), SignsOK(p),
           ProcessNext(p)
    PROVE  SignsOK(p)'
<1>0. /\ agent \in [Process -> Agent] /\ call \in [Process -> Call]
      /\ misses \in [Process -> Nat]
      /\ \A c \in upserts \cup beats : c.at \in Timestamp /\ c.at \in Nat
    BY DEF SystemInv, SystemTypeOK, IInv, TypeOK, Timestamp
<1>m. /\ misses[p] \in Nat /\ misses[p] + 1 \in Nat
      /\ Missed(0) = 0 /\ Missed(0 + 1) = HeartbeatInterval
      /\ Missed(misses[p]) \in Nat
      /\ Missed(misses[p] + 1) = Missed(misses[p]) + HeartbeatInterval
      /\ Missed(misses[p] + 1 + 1) = Missed(misses[p]) + HeartbeatInterval + HeartbeatInterval
    <2>1. misses[p] \in Nat /\ misses[p] + 1 \in Nat
        BY <1>0
    <2> QED BY <2>1, MissedFacts, TimingFacts
<1> HIDE DEF Missed
<1>1. CASE StartProcess(p)
    <2>1. /\ agent'[p].phase = "register" /\ misses'[p] = 0 /\ call' = call
        BY <1>0, <1>1 DEF StartProcess
    <2>2. call[p].st = "none"
        BY <1>1 DEF StartProcess, SystemInv, Known
    <2> QED BY <2>1, <2>2 DEF SignsOK
<1>2. CASE SendRegister(p)
    <2>1. agent[p].phase = "register" /\ call'[p].st = "sent" /\ UNCHANGED <<agent, misses>>
        BY <1>2, CallValues DEF SendRegister
    <2> QED BY <2>1 DEF SignsOK
<1>3. CASE Registered(p)
    <2>1. /\ agent[p].phase = "register" /\ call[p].st = "ok"
          /\ agent'[p].phase = "beat" /\ agent'[p].timer = now + HeartbeatInterval
          /\ agent'[p].start = agent[p].start
          /\ UNCHANGED <<misses, heard, nodes>>
        BY <1>3, CallValues DEF Registered, vars
    <2>2. MyId(p)' = MyId(p) /\ MyId(p) \in DOMAIN nodes
        BY <2>1 DEF MyId, SystemInv, Known
    <2>3. misses[p] = 0 /\ heard[MyId(p)] >= now - HttpTimeout
        BY <2>1, <2>2, AgentFacts DEF SignsOK, WaitsOK
    <2>4. Recent(p, 0)' /\ Recent(p, HeartbeatInterval)'
        BY <2>1, <2>2, <2>3, AgentFacts, TimingFacts DEF Recent
    <2>5. Recent(p, Missed(misses[p]))' /\ Recent(p, Missed(misses[p] + 1))'
        BY <1>m, <2>1, <2>3, <2>4 DEF Recent
    <2> QED BY <2>1, <2>3, <2>5 DEF SignsOK
<1>4. CASE RegisterFails(p)
    <2>1. /\ agent[p].phase = "register" /\ call'[p].st = "none"
          /\ agent'[p].phase = "register" /\ UNCHANGED misses
        BY <1>4, CallValues DEF RegisterFails
    <2> QED BY <2>1 DEF SignsOK
<1>5. CASE SendBeat(p)
    <2>1. /\ agent[p].timer = now /\ agent[p].phase = "beat" /\ call[p].st = "none"
          /\ call' = [call EXCEPT ![p] = Sent]
          /\ Goes(p, "beat", now + HeartbeatInterval, agent[p].backoff)
          /\ UNCHANGED <<nodes, heard, misses>>
        BY <1>5 DEF SendBeat, vars
    <2>2. /\ agent'[p].phase = "beat" /\ agent'[p].timer = now + HeartbeatInterval
          /\ agent'[p].start = agent[p].start
        BY <1>0, <2>1 DEF Goes
    <2>3. call'[p].st = "sent"
        BY <2>1, CallValues
    <2>4. ~Underway(p)
        <3> SUFFICES ASSUME NEW b \in beats,
                            b.at <= agent[p].timer - HeartbeatInterval + HttpTimeout
                     PROVE  FALSE
            BY DEF Underway
        <3>1. now <= b.at + HandlerDelay /\ b.at \in Nat
            BY <1>0 DEF SystemInv, IInv, Calls
        <3> QED BY <2>1, <3>1, AgentFacts, TimingFacts DEF BeatsInTurn
    <2>5. MyId(p)' = MyId(p)
        BY <2>2 DEF MyId
    <2>6. MyId(p) \in DOMAIN nodes =>
             (Recent(p, Missed(misses[p])) => Recent(p, Missed(misses[p] + 1))')
        BY <1>m, <2>1, <2>2, <2>5, AgentFacts, TimingFacts DEF Recent
    <2> QED BY <2>1, <2>2, <2>3, <2>4, <2>5, <2>6 DEF SignsOK, Unsettled
<1>6. CASE BeatEnds(p)
    <2>1. /\ agent[p].phase = "beat" /\ UNCHANGED <<agent, nodes, heard, beats>>
          /\ misses'[p] = IF call[p].st = "sent" THEN misses[p] + 1 ELSE misses[p]
        BY <1>0, <1>6 DEF BeatEnds, vars
    <2>2. /\ MyId(p)' = MyId(p) /\ (Underway(p) <=> Underway(p)')
          /\ \A ago : Recent(p, ago)' <=> Recent(p, ago)
        BY <2>1 DEF MyId, Underway, Recent
    <2>4. CASE call[p].st = "sent"
        <3>1. misses'[p] = misses[p] + 1
            BY <2>1, <2>4
        <3>2. MyId(p) \in DOMAIN nodes => Recent(p, Missed(misses[p] + 1))
            BY <2>1 DEF SignsOK
        <3>3. /\ Missed(misses[p])' = Missed(misses[p] + 1)
              /\ Missed(misses[p] + 1)' = Missed(misses[p] + 1 + 1)
            BY <3>1 DEF Missed
        <3> DEFINE floor == agent[p].timer - HeartbeatInterval - HttpTimeout - HandlerDelay
        <3>4. MyId(p) \in DOMAIN nodes =>
                 /\ heard[MyId(p)] >= floor - Missed(misses[p] + 1)
                 /\ heard[MyId(p)] >= floor - Missed(misses[p] + 1 + 1)
            BY <1>m, <3>2, AgentFacts, TimingFacts DEF Recent
        <3>5. floor' = floor /\ heard' = heard
            BY <2>1
        <3>6. MyId(p) \in DOMAIN nodes =>
                 Recent(p, Missed(misses[p] + 1))' /\ Recent(p, Missed(misses[p]))'
            BY <2>2, <3>3, <3>4, <3>5 DEF Recent
        <3> QED BY <2>1, <2>2, <3>6 DEF SignsOK
    <2>5. CASE call[p].st # "sent"
        <3>1. misses'[p] = misses[p]
            BY <2>1, <2>5
        <3> QED BY <2>1, <2>2, <2>5, <3>1 DEF SignsOK, Unsettled
    <2> QED BY <2>4, <2>5
<1>7. CASE Die(p)
    <2>1. agent'[p].phase = "down"
        BY <1>7, CallValues DEF Die
    <2> QED BY <2>1 DEF SignsOK
<1>8. CASE RegisterArrives(p) \/ RegisterRefused(p)
    <2>1. /\ agent[p].phase = "register" /\ UNCHANGED <<agent, misses>>
          /\ \E st \in {"handling", "refused"} : Becomes(p, st, now)
        BY <1>8 DEF RegisterArrives, RegisterRefused
    <2>2. call'[p].st # "ok"
        BY <2>1, CallValues
    <2> QED BY <2>1, <2>2 DEF SignsOK
<1>9. CASE BeatArrives(p)
    <2>1. /\ agent[p].phase = "beat" /\ call[p].st = "sent"
          /\ UNCHANGED <<agent, misses, nodes, heard>>
          /\ beats' = beats \cup {[id |-> MyId(p), at |-> now]}
        BY <1>9 DEF BeatArrives, HeartbeatHandler
    <2>2. MyId(p)' = MyId(p) /\ \A ago : Recent(p, ago)' <=> Recent(p, ago)
        BY <2>1 DEF MyId, Recent
    <2>3. Underway(p)'
        <3>1. /\ now >= agent[p].timer - HeartbeatInterval
              /\ now <= agent[p].timer - HeartbeatInterval + HttpTimeout
            BY <2>1, AgentFacts DEF WaitsOK
        <3> DEFINE b == [id |-> MyId(p), at |-> now]
        <3>2. b \in beats' /\ b.id = MyId(p)' /\ b.at = now
            BY <2>1, <2>2
        <3> HIDE DEF b
        <3> QED BY <2>1, <3>1, <3>2 DEF Underway
    <2> QED BY <2>1, <2>2, <2>3 DEF SignsOK, Unsettled
<1>10. ASSUME NEW u \in upserts, RegisterTakesEffect(p, u)
       PROVE  SignsOK(p)'
    <2> DEFINE id == u.reg.nodeId
    <2>1. /\ UNCHANGED <<agent, misses, beats>>
          /\ nodes' = Put(nodes, id, Record(u.reg.nodeType, u.at))
          /\ heard' = Put(heard, id, Newest(id, u.at))
        BY <1>10 DEF RegisterTakesEffect, Upsert
    <2>2. \/ UNCHANGED call
          \/ /\ agent[p].phase = "register" /\ id = MyId(p) /\ Pending(p, u.at)
             /\ Becomes(p, "ok", u.at)
        BY <1>10 DEF RegisterTakesEffect
    <2>3. /\ MyId(p)' = MyId(p) /\ (Underway(p) <=> Underway(p)')
          /\ DOMAIN nodes' = DOMAIN nodes \cup {id}
        BY <2>1 DEF MyId, Underway, Put
    <2>4. u.at \in Timestamp /\ u.at \in Nat
        BY <1>0
    <2> HIDE DEF id
    <2>5. /\ MyId(p) \in DOMAIN nodes => heard'[MyId(p)] >= heard[MyId(p)]
          /\ MyId(p) = id => heard'[MyId(p)] >= u.at
          /\ MyId(p) \in DOMAIN nodes' => heard'[MyId(p)] \in Nat
        BY <2>1, <2>3, <2>4, HeardGrows
    <2>6. CASE agent[p].phase = "register"
        <3>1. CASE UNCHANGED call
            <4>1. call[p].st = "ok" => MyId(p) \in DOMAIN nodes
                BY <2>6 DEF SystemInv, Known
            <4> QED BY <2>1, <2>3, <2>5, <2>6, <3>1, <4>1, AgentFacts DEF SignsOK
        <3>2. CASE id = MyId(p) /\ Pending(p, u.at) /\ Becomes(p, "ok", u.at)
            <4>1. call'[p].deadline = call[p].deadline
                BY <3>2, CallValues
            <4>2. u.at >= call[p].deadline - HttpTimeout
                BY <3>2 DEF Pending, WaitsOK
            <4> QED BY <2>1, <2>3, <2>4, <2>5, <2>6, <3>2, <4>1, <4>2, AgentFacts DEF SignsOK
        <3> QED BY <2>2, <3>1, <3>2
    <2>7. CASE agent[p].phase = "beat"
        <3>1. UNCHANGED call
            BY <2>2, <2>7
        <3>2. MyId(p) \in DOMAIN nodes' => MyId(p) \in DOMAIN nodes
            <4>1. MyId(p) \notin DOMAIN nodes => id # MyId(p)
                BY <2>7 DEF SystemInv, Known, NoneLeft, id
            <4> QED BY <2>3, <4>1
        <3>3. MyId(p) \in DOMAIN nodes =>
                 /\ Recent(p, Missed(misses[p])) => Recent(p, Missed(misses[p]))'
                 /\ Recent(p, Missed(misses[p] + 1)) => Recent(p, Missed(misses[p] + 1))'
            BY <1>m, <2>1, <2>3, <2>5, AgentFacts, TimingFacts DEF Recent
        <3> QED BY <2>1, <2>3, <2>7, <3>1, <3>2, <3>3 DEF SignsOK, Unsettled
    <2>8. CASE agent[p].phase = "down"
        BY <2>1, <2>8 DEF SignsOK
    <2> QED BY <2>6, <2>7, <2>8, AgentFacts
<1>11. ASSUME NEW b \in beats, BeatTakesEffect(p, b), b.id = MyId(p)
       PROVE  SignsOK(p)'
    <2>1. /\ UNCHANGED agent /\ misses'[p] = 0
          /\ nodes' = Put(nodes, b.id, Record(nodes[b.id].nodeType, b.at))
          /\ heard' = Put(heard, b.id, Newest(b.id, b.at))
          /\ b.id \in DOMAIN nodes
        BY <1>0, <1>11 DEF BeatTakesEffect, Heartbeat
    <2>2. MyId(p)' = MyId(p)
        BY <2>1 DEF MyId
    <2>3. b.at \in Nat /\ b.at \in Timestamp /\ now <= b.at + HandlerDelay
        BY <1>0 DEF SystemInv, IInv, Calls
    <2>4. /\ heard'[MyId(p)] >= heard[MyId(p)] /\ heard'[MyId(p)] >= b.at
          /\ heard'[MyId(p)] \in Nat
        BY <1>11, <2>1, <2>3, HeardGrows
    <2>5. CASE agent[p].phase = "register"
        <3>1. UNCHANGED call
            BY <1>11, <2>5 DEF BeatTakesEffect, Answered
        <3> QED BY <1>11, <2>1, <2>2, <2>4, <2>5, <3>1, AgentFacts DEF SignsOK
    <2>6. CASE agent[p].phase = "beat"
        <3>1. now >= agent[p].timer - HeartbeatInterval
            BY <2>6, AgentFacts DEF WaitsOK
        <3>2. Recent(p, 0)' /\ Recent(p, HeartbeatInterval)'
            BY <2>1, <2>2, <2>3, <2>4, <3>1, AgentFacts, TimingFacts DEF Recent
        <3>3. Recent(p, Missed(misses[p]))' /\ Recent(p, Missed(misses[p] + 1))'
            BY <1>m, <2>1, <3>2 DEF Recent
        <3> QED BY <2>1, <2>6, <3>3 DEF SignsOK
    <2>7. CASE agent[p].phase = "down"
        BY <2>1, <2>7 DEF SignsOK
    <2> QED BY <2>5, <2>6, <2>7, AgentFacts
<1>12. ASSUME NEW b \in beats, BeatTakesEffect(p, b), b.id # MyId(p)
       PROVE  SignsOK(p)'
    <2>1. /\ UNCHANGED <<agent, misses, call>> /\ beats' = beats \ {b}
          /\ nodes' = Put(nodes, b.id, Record(nodes[b.id].nodeType, b.at))
          /\ heard' = Put(heard, b.id, Newest(b.id, b.at))
          /\ b.id \in DOMAIN nodes
        BY <1>12 DEF BeatTakesEffect, Heartbeat, Answered
    <2>2. DOMAIN heard = DOMAIN nodes
        BY DEF SystemInv, IInv, TypeOK
    <2>3. NoSign(p)
        BY <1>12, <2>1, <2>2 DEF NoSign, Put
    <2> QED BY <2>3, NoSignKeeps
<1>13. ASSUME NEW b \in beats, BeatUnknown(p, b)
       PROVE  SignsOK(p)'
    <2>1. /\ UNCHANGED <<agent, misses, nodes, heard>> /\ beats' = beats \ {b}
          /\ b.id \notin DOMAIN nodes
        BY <1>13 DEF BeatUnknown, HeartbeatUnknown
    <2>2. CASE b.id = MyId(p)
        <3>1. agent[p].phase = "register" => UNCHANGED call
            BY <1>13 DEF BeatUnknown, Answered
        <3>2. MyId(p)' = MyId(p)
            BY <2>1 DEF MyId
        <3> QED BY <2>1, <2>2, <3>1, <3>2 DEF SignsOK
    <2>3. CASE b.id # MyId(p)
        <3>1. UNCHANGED call
            BY <1>13, <2>3 DEF BeatUnknown, Answered
        <3>2. NoSign(p)
            BY <2>1, <2>3, <3>1 DEF NoSign
        <3> QED BY <3>2, NoSignKeeps
    <2> QED BY <2>2, <2>3
<1>14. ASSUME NEW m \in adrift,
              LateRegister(p, m) \/ LateRegisterRefused(p, m) \/ LateBeat(p, m)
       PROVE  SignsOK(p)'
    <2>1. UNCHANGED <<agent, call, misses, nodes, heard>> /\ beats \subseteq beats'
        BY <1>14 DEF LateRegister, LateRegisterRefused, LateBeat, RegisterHandler,
                     HeartbeatHandler, vars
    <2>2. MyId(p)' = MyId(p) /\ \A ago : Recent(p, ago)' <=> Recent(p, ago)
        BY <2>1 DEF MyId, Recent
    <2>3. Underway(p) => Underway(p)'
        BY <2>1, <2>2 DEF Underway
    <2> QED BY <2>1, <2>2, <2>3 DEF SignsOK, Unsettled
<1> QED BY <1>1, <1>2, <1>3, <1>4, <1>5, <1>6, <1>7, <1>8, <1>9, <1>10, <1>11, <1>12, <1>13,
           <1>14
        DEF ProcessNext

LEMMA NextSigns ==
    BeatsInTurn /\ SystemInv /\ Waits /\ Signs /\ [SystemNext]_systemVars => Signs'
<1> SUFFICES ASSUME BeatsInTurn, SystemInv, [SystemNext]_systemVars,
                    NEW p \in Process, WaitsOK(p), SignsOK(p)
             PROVE  SignsOK(p)'
    BY DEF Waits, Signs
<1>1. CASE ProcessNext(p)
    BY <1>1, OwnSigns
<1>2. ASSUME NEW q \in Process, q # p, ProcessNext(q)
      PROVE  SignsOK(p)'
    <2>1. NoSign(p)
        BY <1>2, OtherSteps DEF Local, NoSign
    <2> QED BY <2>1, NoSignKeeps
<1>3. CASE DirectoryRestarts
    <2>1. /\ UNCHANGED <<agent, misses>> /\ nodes' = Empty
          /\ call'[p] = IF call[p].st = "none" THEN NoCall
                ELSE [st |-> "refused", at |-> call[p].at, deadline |-> call[p].deadline]
        BY <1>3 DEF DirectoryRestarts, Restart
    <2>2. call'[p].st # "ok" /\ DOMAIN nodes' = {}
        BY <2>1 DEF NoCall, Empty
    <2> QED BY <2>1, <2>2 DEF SignsOK
<1>4. CASE SystemMonitorTick \/ SystemAdvance \/ UNCHANGED systemVars
    <2>1. UNCHANGED <<agent, call, misses, beats, heard>>
        BY <1>4 DEF SystemMonitorTick, MonitorTick, SystemAdvance, Advance, agents, systemVars
    <2>2. DOMAIN nodes' = DOMAIN nodes
        BY <1>4 DEF SystemMonitorTick, MonitorTick, MarkUnhealthy, SystemAdvance, Advance,
                    systemVars
    <2>3. NoSign(p)
        BY <2>1, <2>2 DEF NoSign
    <2> QED BY <2>3, NoSignKeeps
<1> QED BY <1>1, <1>2, <1>3, <1>4 DEF SystemNext

LEMMA InitSigns == SystemInit => Signs
<1> SUFFICES ASSUME SystemInit, NEW p \in Process PROVE SignsOK(p)
    BY DEF Signs
<1>1. agent[p].phase = "down"
    BY DEF SystemInit
<1> QED BY <1>1 DEF SignsOK

\* The misses of p, with the delays of the calls at both ends, fill the timeout.
Silent(p) ==
    Missed(misses[p] + 1) + 2 * HttpTimeout + 3 * HandlerDelay > HeartbeatTimeout

\* A node that is registered, or will learn that it is, is only suspected after
\* that many misses.
TrustedOK(p) ==
    /\ \/ agent[p].phase = "beat"
       \/ agent[p].phase = "register" /\ call[p].st = "ok"
    /\ MyId(p) \in DOMAIN nodes
    /\ nodes[MyId(p)].status # "HEALTHY"
    => Silent(p)

Trusted == \A p \in Process : TrustedOK(p)

\* Until then a node's record is no older than the timeout.
LEMMA RecordAge ==
    ASSUME SystemInv, NEW p \in Process, WaitsOK(p), SignsOK(p),
           \/ agent[p].phase = "beat"
           \/ agent[p].phase = "register" /\ call[p].st = "ok",
           MyId(p) \in DOMAIN nodes, ~Silent(p)
    PROVE  now - nodes[MyId(p)].lastSeen <= HeartbeatTimeout
<1> DEFINE h == heard[MyId(p)]
           seen == nodes[MyId(p)].lastSeen
           last == agent[p].timer - HeartbeatInterval
           gone == Missed(misses[p])
<1>1. h \in Nat /\ seen \in Nat /\ h - seen <= HandlerDelay /\ now \in Nat
    BY AgentFacts DEF SystemInv, IInv, Records
<1>m. /\ gone \in Nat /\ Missed(misses[p] + 1) = gone + HeartbeatInterval
      /\ gone + HeartbeatInterval + 2 * HttpTimeout + 3 * HandlerDelay <= HeartbeatTimeout
    <2>1. gone \in Nat /\ Missed(misses[p] + 1) = gone + HeartbeatInterval
        BY AgentFacts, MissedFacts
    <2>2. ~(Missed(misses[p] + 1) + 2 * HttpTimeout + 3 * HandlerDelay > HeartbeatTimeout)
        BY DEF Silent
    <2> HIDE DEF gone
    <2> QED BY <2>1, <2>2, TimingFacts
<1> HIDE DEF gone
<1>2. CASE agent[p].phase = "register" /\ call[p].st = "ok"
    <2>1. h >= call[p].deadline - HttpTimeout /\ now <= call[p].deadline
        BY <1>2 DEF SignsOK, WaitsOK
    <2> QED BY <1>1, <1>m, <2>1, AgentFacts, TimingFacts
<1>3. CASE agent[p].phase = "beat"
    <2>2. /\ Recent(p, Missed(misses[p] + 1))
          /\ Unsettled(p) \/ Recent(p, gone)
        BY <1>3 DEF SignsOK, gone
    <2>3. h >= last - HttpTimeout - HandlerDelay - (gone + HeartbeatInterval)
        BY <1>m, <2>2 DEF Recent
    <2>4. CASE Recent(p, gone)
        <3>1. h >= last - HttpTimeout - HandlerDelay - gone
            BY <2>4 DEF Recent
        <3>2. now <= last + HeartbeatInterval
            BY <1>3, AgentFacts DEF WaitsOK, Alive
        <3> QED BY <1>1, <1>m, <3>1, <3>2, AgentFacts, TimingFacts
    <2>5. CASE call[p].st = "sent"
        <3>1. now <= last + HttpTimeout
            BY <1>3, <2>5, AgentFacts DEF WaitsOK
        <3> QED BY <1>1, <1>m, <2>3, <3>1, AgentFacts, TimingFacts
    <2>6. CASE Underway(p)
        <3>1. PICK b \in beats : b.at <= last + HttpTimeout
            BY <2>6 DEF Underway
        <3>2. now <= b.at + HandlerDelay /\ b.at \in Nat
            BY DEF SystemInv, IInv, Calls, TypeOK, Timestamp
        <3> QED BY <1>1, <1>m, <2>3, <3>1, <3>2, AgentFacts, TimingFacts
    <2> QED BY <2>2, <2>4, <2>5, <2>6 DEF Unsettled
<1> QED BY <1>2, <1>3

LEMMA OwnTrust ==
    ASSUME SystemInv, NEW p \in Process, TrustedOK(p), ProcessNext(p)
    PROVE  TrustedOK(p)'
<1>0. /\ agent \in [Process -> Agent] /\ call \in [Process -> Call]
      /\ misses \in [Process -> Nat]
    BY DEF SystemInv, SystemTypeOK
<1>1. CASE StartProcess(p)
    <2>1. agent'[p].phase = "register" /\ call' = call
        BY <1>0, <1>1 DEF StartProcess
    <2>2. call[p].st = "none"
        BY <1>1 DEF StartProcess, SystemInv, Known
    <2> QED BY <2>1, <2>2 DEF TrustedOK
<1>2. CASE SendRegister(p) \/ RegisterArrives(p) \/ RegisterRefused(p)
    <2>1. agent[p].phase = "register" /\ UNCHANGED agent
        BY <1>2 DEF SendRegister, RegisterArrives, RegisterRefused
    <2>2. call'[p].st # "ok"
        BY <1>2, CallValues DEF SendRegister, RegisterArrives, RegisterRefused
    <2> QED BY <2>1, <2>2 DEF TrustedOK
<1>3. CASE Registered(p)
    <2>1. /\ agent[p].phase = "register" /\ call[p].st = "ok"
          /\ agent'[p].phase = "beat" /\ agent'[p].start = agent[p].start
          /\ UNCHANGED <<misses, nodes>>
        BY <1>3, CallValues DEF Registered, vars
    <2>2. MyId(p)' = MyId(p)
        BY <2>1 DEF MyId
    <2> QED BY <2>1, <2>2 DEF TrustedOK, Silent
<1>4. CASE RegisterFails(p)
    <2>1. agent'[p].phase = "register" /\ call'[p].st = "none"
        BY <1>4, CallValues DEF RegisterFails
    <2> QED BY <2>1 DEF TrustedOK
<1>5. CASE SendBeat(p)
    <2>1. /\ agent[p].phase = "beat" /\ UNCHANGED <<misses, nodes>>
          /\ Goes(p, "beat", now + HeartbeatInterval, agent[p].backoff)
        BY <1>5 DEF SendBeat, vars
    <2>2. agent'[p].phase = "beat" /\ agent'[p].start = agent[p].start
        BY <1>0, <2>1 DEF Goes
    <2>3. MyId(p)' = MyId(p)
        BY <2>2 DEF MyId
    <2> QED BY <2>1, <2>3 DEF TrustedOK, Silent
<1>6. CASE BeatEnds(p)
    <2>1. /\ agent[p].phase = "beat" /\ UNCHANGED <<agent, nodes>>
          /\ misses'[p] = misses[p] + 1 \/ misses'[p] = misses[p]
        BY <1>0, <1>6 DEF BeatEnds, vars
    <2>2. MyId(p)' = MyId(p)
        BY <2>1 DEF MyId
    <2>3. Silent(p) => Silent(p)'
        <3>1. /\ Missed(misses[p] + 1) \in Nat
              /\ Missed(misses[p] + 1 + 1) = Missed(misses[p] + 1) + HeartbeatInterval
            BY AgentFacts, MissedFacts
        <3> QED BY <2>1, <3>1, TimingFacts DEF Silent
    <2> QED BY <2>1, <2>2, <2>3 DEF TrustedOK
<1>7. CASE Die(p)
    <2>1. agent'[p].phase = "down"
        BY <1>7, CallValues DEF Die
    <2> QED BY <2>1 DEF TrustedOK
<1>8. ASSUME NEW u \in upserts, RegisterTakesEffect(p, u)
      PROVE  TrustedOK(p)'
    <2> DEFINE id == u.reg.nodeId
    <2>1. /\ UNCHANGED <<agent, misses>>
          /\ nodes' = Put(nodes, id, Record(u.reg.nodeType, u.at))
        BY <1>8 DEF RegisterTakesEffect, Upsert
    <2>2. UNCHANGED call \/ id = MyId(p)
        BY <1>8 DEF RegisterTakesEffect
    <2>3. MyId(p)' = MyId(p)
        BY <2>1 DEF MyId
    <2> HIDE DEF id
    <2>4. CASE id = MyId(p)
        <3>1. nodes'[MyId(p)].status = "HEALTHY"
            BY <2>1, <2>4 DEF Put, Record
        <3> QED BY <2>3, <3>1 DEF TrustedOK
    <2>5. CASE id # MyId(p)
        <3>1. /\ UNCHANGED call
              /\ MyId(p) \in DOMAIN nodes' =>
                    MyId(p) \in DOMAIN nodes /\ nodes'[MyId(p)] = nodes[MyId(p)]
            BY <2>1, <2>2, <2>5 DEF Put
        <3> QED BY <2>1, <2>3, <3>1 DEF TrustedOK, Silent
    <2> QED BY <2>4, <2>5
<1>9. CASE BeatArrives(p)
    <2>1. agent[p].phase = "beat" /\ UNCHANGED <<agent, misses, nodes>>
        BY <1>9 DEF BeatArrives, HeartbeatHandler
    <2>2. MyId(p)' = MyId(p)
        BY <2>1 DEF MyId
    <2> QED BY <2>1, <2>2 DEF TrustedOK, Silent
<1>10. ASSUME NEW b \in beats, BeatTakesEffect(p, b)
       PROVE  TrustedOK(p)'
    <2>1. /\ UNCHANGED agent /\ b.id \in DOMAIN nodes
          /\ nodes' = Put(nodes, b.id, Record(nodes[b.id].nodeType, b.at))
        BY <1>10 DEF BeatTakesEffect, Heartbeat
    <2>2. MyId(p)' = MyId(p)
        BY <2>1 DEF MyId
    <2>3. CASE b.id = MyId(p)
        <3>1. nodes'[MyId(p)].status = "HEALTHY"
            BY <2>1, <2>3 DEF Put, Record
        <3> QED BY <2>2, <3>1 DEF TrustedOK
    <2>4. CASE b.id # MyId(p)
        <3>1. UNCHANGED <<call, misses>>
            BY <1>10, <2>4 DEF BeatTakesEffect, Answered
        <3>2. MyId(p) \in DOMAIN nodes' =>
                 MyId(p) \in DOMAIN nodes /\ nodes'[MyId(p)] = nodes[MyId(p)]
            BY <2>1, <2>4 DEF Put
        <3> QED BY <2>1, <2>2, <3>1, <3>2 DEF TrustedOK, Silent
    <2> QED BY <2>3, <2>4
<1>11. ASSUME NEW b \in beats, BeatUnknown(p, b)
       PROVE  TrustedOK(p)'
    <2>1. UNCHANGED <<agent, misses, nodes>>
        BY <1>11 DEF BeatUnknown, HeartbeatUnknown
    <2>2. agent[p].phase = "register" => UNCHANGED call
        BY <1>11 DEF BeatUnknown, Answered
    <2>3. MyId(p)' = MyId(p)
        BY <2>1 DEF MyId
    <2> QED BY <2>1, <2>2, <2>3 DEF TrustedOK, Silent
<1>12. ASSUME NEW m \in adrift,
              LateRegister(p, m) \/ LateRegisterRefused(p, m) \/ LateBeat(p, m)
       PROVE  TrustedOK(p)'
    <2>1. UNCHANGED <<agent, call, misses, nodes>>
        BY <1>12 DEF LateRegister, LateRegisterRefused, LateBeat, RegisterHandler,
                     HeartbeatHandler, vars
    <2>2. MyId(p)' = MyId(p)
        BY <2>1 DEF MyId
    <2> QED BY <2>1, <2>2 DEF TrustedOK, Silent
<1> QED BY <1>1, <1>2, <1>3, <1>4, <1>5, <1>6, <1>7, <1>8, <1>9, <1>10, <1>11, <1>12
        DEF ProcessNext

LEMMA NextTrusted ==
    SystemInv /\ Waits /\ Signs /\ Trusted /\ [SystemNext]_systemVars => Trusted'
<1> SUFFICES ASSUME SystemInv, [SystemNext]_systemVars,
                    NEW p \in Process, WaitsOK(p), SignsOK(p), TrustedOK(p)
             PROVE  TrustedOK(p)'
    BY DEF Waits, Signs, Trusted
<1>1. CASE ProcessNext(p)
    BY <1>1, OwnTrust
<1>2. ASSUME NEW q \in Process, q # p, ProcessNext(q)
      PROVE  TrustedOK(p)'
    <2>1. Local(p)
        BY <1>2, OtherSteps
    <2>2. MyId(p)' = MyId(p)
        BY <2>1 DEF Local, MyId
    <2> QED BY <2>1, <2>2 DEF Local, TrustedOK, Silent
<1>3. CASE DirectoryRestarts
    <2>1. DOMAIN nodes' = {}
        BY <1>3 DEF DirectoryRestarts, Restart, Empty
    <2> QED BY <2>1 DEF TrustedOK
<1>4. CASE SystemMonitorTick
    <2>1. /\ UNCHANGED <<agent, call, misses>> /\ ticks # <<>>
          /\ nodes' = MarkUnhealthy(nodes, Head(ticks), HeartbeatTimeout)
        BY <1>4 DEF SystemMonitorTick, MonitorTick, agents
    <2>2. MyId(p)' = MyId(p) /\ DOMAIN nodes' = DOMAIN nodes
        BY <2>1 DEF MyId, MarkUnhealthy
    <2>3. Head(ticks) <= now /\ Head(ticks) \in Nat /\ now \in Nat
        <3>1. \E t \in Nat : ticks = <<t>>
            BY <2>1 DEF SystemInv, IInv, TypeOK, Timestamp
        <3>2. nextTick \in Nat /\ nextTick <= now + CleanupInterval /\ now \in Nat
              /\ Head(ticks) = nextTick - CleanupInterval
            BY <2>1 DEF SystemInv, IInv, TypeOK, Ticking, Timestamp
        <3> QED BY <3>1, <3>2, TimingAssumption
    <2> SUFFICES ASSUME \/ agent[p].phase = "beat"
                        \/ agent[p].phase = "register" /\ call[p].st = "ok",
                        MyId(p) \in DOMAIN nodes,
                        nodes'[MyId(p)].status # "HEALTHY", ~Silent(p)
                 PROVE  FALSE
        BY <2>1, <2>2 DEF TrustedOK, Silent
    <2>4. nodes[MyId(p)].status = "HEALTHY"
        BY DEF TrustedOK
    <2>5. now - nodes[MyId(p)].lastSeen <= HeartbeatTimeout
        BY RecordAge
    <2>6. nodes[MyId(p)].lastSeen \in Nat
        BY AgentFacts
    <2>7. ~(Head(ticks) - nodes[MyId(p)].lastSeen > HeartbeatTimeout)
        BY <2>3, <2>5, <2>6, TimingFacts
    <2>8. nodes'[MyId(p)] = nodes[MyId(p)]
        BY <2>1, <2>7 DEF MarkUnhealthy
    <2> QED BY <2>4, <2>8
<1>5. CASE SystemAdvance \/ UNCHANGED systemVars
    <2>1. UNCHANGED <<agent, call, misses, nodes>>
        BY <1>5 DEF SystemAdvance, Advance, agents, systemVars
    <2>2. MyId(p)' = MyId(p)
        BY <2>1 DEF MyId
    <2> QED BY <2>1, <2>2 DEF TrustedOK, Silent
<1> QED BY <1>1, <1>2, <1>3, <1>4, <1>5 DEF SystemNext

LEMMA InitTrusted == SystemInit => Trusted
<1> SUFFICES ASSUME SystemInit, NEW p \in Process PROVE TrustedOK(p)
    BY DEF Trusted
<1>1. agent[p].phase = "down"
    BY DEF SystemInit
<1> QED BY <1>1 DEF TrustedOK

\* Whatever the calls and the monitor overtake, a live node is suspected only
\* when its misses and the delays of the calls at both ends of them fill the
\* timeout, provided that a heartbeat is over before the next one is sent.
THEOREM MissesAreNeeded ==
    ASSUME BeatsInTurn
    PROVE  SystemSpec => []MissesToSuspect
<1>1. SystemInv /\ Trusted => MissesToSuspect
    <2> SUFFICES ASSUME SystemInv, NEW p \in Process, TrustedOK(p),
                        agent[p].phase = "beat",
                        MyId(p) \in DOMAIN nodes \ List(nodes, FALSE)
                 PROVE  (misses[p] + 1) * HeartbeatInterval + 2 * HttpTimeout
                           + 3 * HandlerDelay > HeartbeatTimeout
        BY DEF Trusted, MissesToSuspect
    <2>1. nodes[MyId(p)].status # "HEALTHY"
        BY DEF List, Healthy
    <2>2. Silent(p)
        BY <2>1 DEF TrustedOK
    <2> QED BY <2>2 DEF Silent, Missed
<1>2. SystemInv /\ Waits /\ Signs /\ [SystemNext]_systemVars => Signs'
    BY NextSigns
<1>3. SystemInv /\ Waits /\ Signs /\ Trusted /\ [SystemNext]_systemVars => Trusted'
    BY NextTrusted
<1> QED BY <1>1, <1>2, <1>3, WaitsInvariance, InitSigns, InitTrusted, PTL DEF SystemSpec
=============================================================================
