---------------------------- MODULE CircuitProofs ----------------------------
(***************************************************************************)
(* Proofs about one client request, for any nodes, any number of attempts  *)
(* and crashes, and circuits of one or three hops.                         *)
(*                                                                         *)
(* That the guard's answer opens under the client's keys is a fact about   *)
(* its call alone; it is inductive only together with what every call of   *)
(* an attempt holds, at every hop: the request has the layers of the hops  *)
(* still to come, an open handler holds the key of ITS leg (the layer      *)
(* would not have opened under another), and an answer has the layers of   *)
(* the hops behind it (Legs).                                              *)
(*                                                                         *)
(* What the stored keys mean rests on the order in which things are sent   *)
(* (Order): a call of an attempt exists only once EVERY hop of the attempt *)
(* has acknowledged its key, so that no setup of that attempt is on its    *)
(* way any more.  Hence the key of an attempt that was sent cannot come    *)
(* back over that of a retry (Fenced), and an unknown circuit is that of a *)
(* node whose keys died with it (KeysKept).                                *)
(***************************************************************************)
EXTENDS Circuit, TLAPS

\* What is fetched is there when it is used.
Fetched ==
    /\ pc \in {"setup", "wait"} => circuit[attempt] \in [Pos -> Record]
    /\ \A leg \in Leg : setups[leg] # "none" => circuit[leg[1]] \in [Pos -> Record]

\* The number of layers from hop i on.
Depth(i) == Hops - i + 1

RequestLayers(a, i, s) ==
    /\ Len(s) = Depth(i)
    /\ \A j \in 1..Depth(i) : s[j].key = <<a, i + j - 1>>

ResponseLayers(a, i, s) ==
    /\ Len(s) = Depth(i)
    /\ \A j \in 1..Depth(i) : s[j] = <<a, i + j - 1>>

LegOK(a, i, call) ==
    /\ call.st # "none" => RequestLayers(a, i, call.payload)
    /\ call.st = "open" => call.key = <<a, i>>
    /\ call.st = "ok" => ResponseLayers(a, i, call.reply)

Legs == \A a \in Attempt, i \in Pos : LegOK(a, i, calls[<<a, i>>])

IInv == TypeOK /\ Fetched /\ Legs

----------------------------------------------------------------------------
LEMMA PosFacts ==
    /\ Hops \in Nat /\ 1 \in Pos /\ Pos \subseteq 1..3
    /\ \A i \in Pos : i \in Nat /\ 1 <= i /\ i <= Hops /\ Depth(i) \in Nat
BY CircuitAssumption DEF Pos, Depth

LEMMA ListedFacts ==
    ASSUME crashes \in 0..MaxCrashes, NEW i \in Pos, NEW r \in Listed(i)
    PROVE  r \in Record
<1>1. i = 1 \/ i = 2 \/ i = 3
    BY PosFacts
<1>2. NodesOf[i] \subseteq Node
    BY <1>1 DEF NodesOf, Node
<1> QED BY <1>2, CircuitAssumption DEF Listed, Record

LEMMA InitIInv == Init => IInv
<1> SUFFICES ASSUME Init PROVE IInv
    OBVIOUS
<1>1. NoCall \in Call
    BY DEF NoCall, Call
<1>2. TypeOK
    BY <1>1, PosFacts, CircuitAssumption DEF Init, TypeOK, Attempt
<1>3. Fetched
    BY DEF Init, Fetched
<1>4. Legs
    <2> SUFFICES ASSUME NEW a \in Attempt, NEW i \in Pos
                 PROVE  LegOK(a, i, calls[<<a, i>>])
        BY DEF Legs
    <2>1. calls[<<a, i>>] = NoCall
        BY DEF Init, Leg
    <2> QED BY <2>1 DEF NoCall, LegOK
<1> QED BY <1>2, <1>3, <1>4 DEF IInv

----------------------------------------------------------------------------
(* How a call changes.                                                     *)

\* An answer keeps the type and the layers of a call, if it is an error or
\* has the layers of the hops behind it.
LEMMA AnswerFacts ==
    ASSUME NEW call \in Call, NEW st \in {"ok", "dead"} \cup Errors,
           NEW reply \in Seq(Leg), NEW a, NEW i,
           LegOK(a, i, call), call.st # "none",
           st = "ok" => ResponseLayers(a, i, reply)
    PROVE  /\ Answered(call, st, reply) \in Call
           /\ LegOK(a, i, Answered(call, st, reply))
<1>1. Answered(call, st, reply) \in Call
    BY DEF Answered, Call
<1>2. LegOK(a, i, Answered(call, st, reply))
    BY DEF Answered, LegOK, Errors
<1> QED BY <1>1, <1>2

\* A step that changes one call, keeping its type and layers, keeps them all.
LEMMA OneCall ==
    ASSUME IInv, NEW a \in Attempt, NEW i \in Pos, NEW call \in Call,
           LegOK(a, i, call),
           calls' = [calls EXCEPT ![<<a, i>>] = call]
    PROVE  calls' \in [Leg -> Call] /\ Legs'
<1>1. <<a, i>> \in Leg
    BY DEF Leg
<1>2. calls' \in [Leg -> Call]
    BY <1>1 DEF IInv, TypeOK
<1>3. ASSUME NEW b \in Attempt, NEW j \in Pos
      PROVE  LegOK(b, j, calls'[<<b, j>>])
    <2>1. <<b, j>> \in Leg
        BY DEF Leg
    <2>2. CASE a = b /\ i = j
        BY <1>1, <2>2 DEF IInv, TypeOK
    <2>3. CASE <<a, i>> # <<b, j>>
        BY <1>1, <2>1, <2>3 DEF IInv, TypeOK, Legs
    <2> QED BY <2>2, <2>3
<1>4. Legs'
    BY <1>3 DEF Legs
<1> QED BY <1>2, <1>4

\* POST /onion with the attempt's onion: all its layers.
LEMMA SentFacts ==
    ASSUME NEW a \in Attempt, circuit[a] \in [Pos -> Record]
    PROVE  /\ Sent(circuit[a][1].node, BuildOnion(a, circuit[a])) \in Call
           /\ LegOK(a, 1, Sent(circuit[a][1].node, BuildOnion(a, circuit[a])))
<1> DEFINE c == circuit[a]
           onion == BuildOnion(a, c)
<1>1. c[1].node \in Node
    BY PosFacts DEF Record
<1>2. ASSUME NEW i \in Pos
      PROVE  [key |-> <<a, i>>, next |-> IF i = Hops THEN Destination ELSE c[i + 1].node]
                \in Layer
    <2>1. i # Hops => i + 1 \in Pos
        BY PosFacts, CircuitAssumption DEF Pos
    <2>2. i # Hops => c[i + 1].node \in Node
        BY <2>1 DEF Record
    <2>3. <<a, i>> \in Leg
        BY DEF Leg
    <2> QED BY <2>2, <2>3 DEF Layer
<1>3. onion \in [1..Hops -> Layer]
    BY <1>2 DEF BuildOnion, Pos
<1>4. onion \in Seq(Layer) /\ Len(onion) = Hops
    BY <1>3, PosFacts
<1>5. RequestLayers(a, 1, onion)
    BY <1>4, PosFacts DEF RequestLayers, Depth, BuildOnion, Pos
<1> HIDE DEF onion
<1>6. Sent(c[1].node, onion) \in Call
    BY <1>1, <1>4 DEF Sent, Call
<1>7. LegOK(a, 1, Sent(c[1].node, onion))
    BY <1>5 DEF Sent, LegOK
<1> QED BY <1>6, <1>7 DEF onion

\* The inner payload has the layers of the hops after this one.
LEMMA TailFacts ==
    ASSUME NEW a \in Attempt, NEW i \in Pos, i # Hops, NEW s \in Seq(Layer),
           RequestLayers(a, i, s)
    PROVE  /\ i + 1 \in Pos
           /\ Tail(s) \in Seq(Layer)
           /\ Head(s) \in Layer
           /\ RequestLayers(a, i + 1, Tail(s))
<1>1. i \in Nat /\ Hops \in Nat /\ i < Hops /\ i >= 1
    BY PosFacts
<1>2. i + 1 \in Pos
    BY <1>1 DEF Pos
<1>3. Len(s) = Hops - i + 1 /\ s # <<>>
    BY <1>1 DEF RequestLayers, Depth
<1>4. /\ Tail(s) \in Seq(Layer) /\ Len(Tail(s)) = Hops - i
      /\ \A j \in 1..(Hops - i) : Tail(s)[j] = s[j + 1]
      /\ Head(s) \in Layer
    BY <1>1, <1>3
<1>5. \A j \in 1..(Hops - i) : Tail(s)[j].key = <<a, i + 1 + j - 1>>
    <2> SUFFICES ASSUME NEW j \in 1..(Hops - i)
                 PROVE  Tail(s)[j].key = <<a, i + 1 + j - 1>>
        OBVIOUS
    <2>1. j + 1 \in 1..Depth(i) /\ i + (j + 1) - 1 = i + 1 + j - 1
        BY <1>1 DEF Depth
    <2>2. s[j + 1].key = <<a, i + (j + 1) - 1>>
        BY <2>1 DEF RequestLayers
    <2> QED BY <1>4, <2>1, <2>2
<1>6. Depth(i + 1) = Hops - i
    BY <1>1 DEF Depth
<1>7. RequestLayers(a, i + 1, Tail(s))
    BY <1>4, <1>5, <1>6 DEF RequestLayers
<1> QED BY <1>2, <1>4, <1>7

\* One more layer in front of the response of the next hop.
LEMMA WrapFacts ==
    ASSUME NEW a \in Attempt, NEW i \in Pos, i # Hops, NEW s \in Seq(Leg),
           ResponseLayers(a, i + 1, s)
    PROVE  /\ <<<<a, i>>>> \o s \in Seq(Leg)
           /\ ResponseLayers(a, i, <<<<a, i>>>> \o s)
<1> DEFINE w == <<<<a, i>>>> \o s
<1>1. i \in Nat /\ Hops \in Nat /\ i < Hops /\ i >= 1
    BY PosFacts
<1>2. <<a, i>> \in Leg
    BY DEF Leg
<1>3. Len(s) = Hops - i
    BY <1>1 DEF ResponseLayers, Depth
<1>4. /\ w \in Seq(Leg) /\ Len(w) = Hops - i + 1
      /\ w[1] = <<a, i>>
      /\ \A j \in 2..(Hops - i + 1) : w[j] = s[j - 1]
    BY <1>1, <1>2, <1>3
<1> HIDE DEF w
<1>5. ASSUME NEW j \in 1..Depth(i) PROVE w[j] = <<a, i + j - 1>>
    <2>1. CASE j = 1
        BY <1>1, <1>4, <2>1
    <2>2. CASE j # 1
        <3>1. j \in 2..(Hops - i + 1) /\ j - 1 \in 1..Depth(i + 1)
            BY <1>1, <2>2 DEF Depth
        <3>2. s[j - 1] = <<a, (i + 1) + (j - 1) - 1>>
            BY <3>1 DEF ResponseLayers
        <3>3. (i + 1) + (j - 1) - 1 = i + j - 1
            BY <1>1, <3>1
        <3> QED BY <1>4, <3>1, <3>2, <3>3
    <2> QED BY <2>1, <2>2
<1>6. ResponseLayers(a, i, w)
    BY <1>4, <1>5 DEF ResponseLayers, Depth
<1> QED BY <1>4, <1>6 DEF w

----------------------------------------------------------------------------
(* The client's steps.                                                     *)

LEMMA SettleFacts ==
    ASSUME events \in Seq(Event), NEW b \in BOOLEAN
    PROVE  Settle(b) \in Seq(Event) /\ Len(Settle(b)) = Len(events)
<1>1. ASSUME NEW j \in DOMAIN events
      PROVE  (IF j = Len(events) THEN [events[j] EXCEPT !.success = b]
                                 ELSE events[j]) \in Event
    <2>1. events[j] \in Event
        OBVIOUS
    <2>2. [events[j] EXCEPT !.success = b] \in Event
        BY <2>1 DEF Event
    <2> QED BY <2>1, <2>2
<1>2. DOMAIN events = 1..Len(events) /\ Len(events) \in Nat
    OBVIOUS
<1>3. Settle(b) \in [1..Len(events) -> Event]
    BY <1>1, <1>2 DEF Settle
<1> QED BY <1>2, <1>3

LEMMA FailFacts ==
    ASSUME IInv, NEW err, identifyFailedHop(err) \in {"guard", "relay", "exit"},
           err.cause \in {"setup", "timeout"} \cup Errors, FailAttempt(err)
    PROVE  IInv'
<1>1. TypeOK'
    <2>1. Settle(FALSE) \in Seq(Event)
        BY SettleFacts DEF IInv, TypeOK
    <2>2. CASE attempt < MaxAttempts
        <3>1. attempt + 1 \in Attempt
            BY <2>2, CircuitAssumption DEF IInv, TypeOK, Attempt
        <3>2. [attempt |-> attempt + 1, hop |-> identifyFailedHop(err),
               cause |-> err.cause, success |-> FALSE] \in Event
            BY <3>1 DEF Event
        <3>3. events' \in Seq(Event)
            <4> DEFINE x == Settle(FALSE)
                       e == [attempt |-> attempt + 1, hop |-> identifyFailedHop(err),
                             cause |-> err.cause, success |-> FALSE]
            <4>1. events' = Append(x, e)
                BY <2>2, Zenon DEF FailAttempt
            <4>2. x \in Seq(Event) /\ e \in Event
                BY <2>1, <3>2
            <4> HIDE DEF x, e
            <4> QED BY <4>1, <4>2
        <3> QED BY <2>2, <3>1, <3>3 DEF FailAttempt, IInv, TypeOK, process
    <2>3. CASE ~(attempt < MaxAttempts)
        BY <2>1, <2>3 DEF FailAttempt, IInv, TypeOK, process
    <2> QED BY <2>2, <2>3
<1>2. Fetched'
    BY DEF FailAttempt, IInv, Fetched
<1>3. Legs'
    BY DEF FailAttempt, IInv, Legs
<1> QED BY <1>1, <1>2, <1>3 DEF IInv

LEMMA ClientSteps ==
    ASSUME IInv,
           \/ GetCircuit \/ GetCircuitFails \/ SetupAcked \/ SetupFails
           \/ SendFails \/ SendTimesOut \/ ReceiveResponse
    PROVE  IInv'
<1> USE DEF IInv
<1>1. CASE GetCircuit
    <2>1. PICK c \in [Pos -> UNION {Listed(i) : i \in Pos}] :
             /\ \A i \in Pos : c[i] \in Listed(i)
             /\ circuit' = [circuit EXCEPT ![attempt] = c]
        BY <1>1 DEF GetCircuit
    <2>2. \A i \in Pos : c[i] \in Record
        BY <2>1, ListedFacts DEF TypeOK
    <2>3. c \in [Pos -> Record]
        BY <2>1, <2>2
    <2>4. /\ circuit' \in [Attempt -> {<<>>} \cup [Pos -> Record]]
          /\ circuit'[attempt] = c
          /\ \A a \in Attempt : a # attempt => circuit'[a] = circuit[a]
        BY <2>1, <2>3 DEF TypeOK
    <2>5. <<attempt, 1>> \in Leg
        BY PosFacts DEF Leg, TypeOK
    <2>6. TypeOK'
        BY <1>1, <2>4, <2>5, PosFacts DEF GetCircuit, TypeOK, process
    <2>7. Fetched'
        <3>1. circuit'[attempt'] \in [Pos -> Record]
            BY <1>1, <2>3, <2>4 DEF GetCircuit
        <3>2. ASSUME NEW leg \in Leg, setups'[leg] # "none"
              PROVE  circuit'[leg[1]] \in [Pos -> Record]
            <4>1. leg[1] \in Attempt
                BY DEF Leg
            <4>2. CASE leg[1] = attempt
                BY <4>2, <2>3, <2>4
            <4>3. CASE leg[1] # attempt
                <5>1. leg # <<attempt, 1>>
                    BY <4>3
                <5>2. setups[leg] # "none"
                    BY <1>1, <3>2, <5>1 DEF GetCircuit, TypeOK
                <5> QED BY <4>1, <4>3, <5>2, <2>4 DEF Fetched
            <4> QED BY <4>2, <4>3
        <3> QED BY <3>1, <3>2 DEF Fetched
    <2>8. Legs'
        BY <1>1 DEF GetCircuit, Legs
    <2> QED BY <2>6, <2>7, <2>8
<1>2. CASE GetCircuitFails
    <2>1. TypeOK'
        BY <1>2 DEF GetCircuitFails, TypeOK, process
    <2>2. Fetched' /\ Legs'
        BY <1>2 DEF GetCircuitFails, Fetched, Legs
    <2> QED BY <2>1, <2>2
<1>3. CASE SetupAcked
    <2>1. CASE hop < Hops
        <3>1. hop + 1 \in Pos /\ <<attempt, hop + 1>> \in Leg
            BY <2>1, PosFacts DEF TypeOK, Pos, Leg
        <3>2. TypeOK'
            BY <1>3, <2>1, <3>1 DEF SetupAcked, TypeOK, process
        <3>3. Fetched'
            <4>1. circuit[attempt] \in [Pos -> Record]
                BY <1>3 DEF SetupAcked, Fetched
            <4>2. circuit'[attempt'] \in [Pos -> Record]
                BY <1>3, <4>1 DEF SetupAcked
            <4>3. ASSUME NEW leg \in Leg, setups'[leg] # "none"
                  PROVE  circuit'[leg[1]] \in [Pos -> Record]
                <5>1. CASE leg = <<attempt, hop + 1>>
                    BY <1>3, <4>1, <5>1 DEF SetupAcked
                <5>2. CASE leg # <<attempt, hop + 1>>
                    <6>1. setups[leg] # "none"
                        BY <1>3, <2>1, <4>3, <5>2 DEF SetupAcked, TypeOK
                    <6> QED BY <1>3, <6>1 DEF SetupAcked, Fetched
                <5> QED BY <5>1, <5>2
            <4> QED BY <4>2, <4>3 DEF Fetched
        <3>4. Legs'
            BY <1>3, <2>1 DEF SetupAcked, Legs
        <3> QED BY <3>2, <3>3, <3>4
    <2>2. CASE ~(hop < Hops)
        <3> DEFINE call == Sent(circuit[attempt][1].node,
                                BuildOnion(attempt, circuit[attempt]))
        <3>1. circuit[attempt] \in [Pos -> Record]
            BY <1>3 DEF SetupAcked, Fetched
        <3>2. attempt \in Attempt /\ 1 \in Pos
            BY PosFacts DEF TypeOK
        <3>3. call \in Call /\ LegOK(attempt, 1, call)
            BY <3>1, <3>2, SentFacts
        <3>4. calls' = [calls EXCEPT ![<<attempt, 1>>] = call]
            BY <1>3, <2>2 DEF SetupAcked
        <3> HIDE DEF call
        <3>5. calls' \in [Leg -> Call] /\ Legs'
            BY <3>2, <3>3, <3>4, OneCall
        <3>6. TypeOK'
            BY <1>3, <2>2, <3>5 DEF SetupAcked, TypeOK, process
        <3>7. Fetched'
            BY <1>3, <2>2, <3>1 DEF SetupAcked, Fetched
        <3> QED BY <3>5, <3>6, <3>7
    <2> QED BY <2>1, <2>2
<1>4. CASE SetupFails
    <2> DEFINE err == [step |-> "setup", hop |-> hop, cause |-> "setup"]
    <2>1. hop = 1 \/ hop = 2 \/ hop = 3
        BY PosFacts DEF TypeOK
    <2>2. identifyFailedHop(err) \in {"guard", "relay", "exit"}
        BY <2>1 DEF identifyFailedHop, Role
    <2> QED BY <1>4, <2>2, FailFacts DEF SetupFails
<1>5. CASE SendFails
    <2> DEFINE err == [step |-> "send", hop |-> 1, cause |-> calls[<<attempt, 1>>].st]
    <2>1. identifyFailedHop(err) \in {"guard", "relay", "exit"}
        BY DEF identifyFailedHop
    <2> QED BY <1>5, <2>1, FailFacts DEF SendFails
<1>6. CASE SendTimesOut
    <2> DEFINE err == [step |-> "send", hop |-> 1, cause |-> "timeout"]
    <2>1. identifyFailedHop(err) \in {"guard", "relay", "exit"}
        BY DEF identifyFailedHop
    <2> QED BY <1>6, <2>1, FailFacts DEF SendTimesOut
<1>7. CASE ReceiveResponse
    <2>1. Settle(TRUE) \in Seq(Event)
        BY SettleFacts DEF TypeOK
    <2>2. TypeOK'
        BY <1>7, <2>1 DEF ReceiveResponse, TypeOK, process
    <2>3. Fetched' /\ Legs'
        BY <1>7 DEF ReceiveResponse, Fetched, Legs
    <2> QED BY <2>2, <2>3
<1> QED BY <1>1, <1>2, <1>3, <1>4, <1>5, <1>6, <1>7

----------------------------------------------------------------------------
(* The nodes' steps.                                                       *)

\* A handler that answers.
LEMMA AnswerSteps ==
    ASSUME IInv, NEW leg \in Leg, NEW st \in {"ok"} \cup Errors, NEW reply \in Seq(Leg),
           calls[leg].st # "none",
           st = "ok" => ResponseLayers(leg[1], leg[2], reply),
           Answer(leg, st, reply), UNCHANGED executed
    PROVE  IInv'
<1> USE DEF IInv
<1>1. PICK a \in Attempt, i \in Pos : leg = <<a, i>>
    BY DEF Leg
<1>2. calls[<<a, i>>] \in Call /\ LegOK(a, i, calls[<<a, i>>])
    BY <1>1 DEF TypeOK, Legs
<1> DEFINE call == Answered(calls[<<a, i>>], st, reply)
<1>3. call \in Call /\ LegOK(a, i, call)
    BY <1>1, <1>2, AnswerFacts
<1>4. calls' = [calls EXCEPT ![<<a, i>>] = call]
    BY <1>1 DEF Answer
<1> HIDE DEF call
<1>5. calls' \in [Leg -> Call] /\ Legs'
    BY <1>3, <1>4, OneCall
<1>6. TypeOK'
    BY <1>5 DEF Answer, TypeOK, client, process
<1>7. Fetched'
    BY DEF Answer, Fetched, client
<1> QED BY <1>5, <1>6, <1>7

LEMMA ErrorSteps ==
    ASSUME IInv, NEW leg \in Leg, NEW st \in Errors,
           calls[leg].st # "none",
           Answer(leg, st, <<>>), UNCHANGED executed
    PROVE  IInv'
<1>1. <<>> \in Seq(Leg) /\ st # "ok" /\ st \in {"ok"} \cup Errors
    BY DEF Errors
<1> DEFINE none == <<>>
<1>2. none \in Seq(Leg) /\ Answer(leg, st, none)
    BY <1>1
<1> HIDE DEF none
<1> QED BY <1>1, <1>2, AnswerSteps

\* A handler that opens its payload, and calls the next hop if there is one.
LEMMA OpenStep ==
    ASSUME IInv, NEW leg \in Leg, HandleOpen(leg)
    PROVE  IInv'
<1> USE DEF IInv
<1>1. PICK a \in Attempt, i \in Pos : leg = <<a, i>>
    BY DEF Leg
<1> DEFINE call == calls[leg]
           key == keys[call.node]
           next == Sent(Head(call.payload).next, Tail(call.payload))
<1>2. call \in Call /\ LegOK(a, i, call) /\ call.st = "sent"
    BY <1>1 DEF TypeOK, Legs, HandleOpen
<1>3. RequestLayers(a, i, call.payload) /\ call.payload \in Seq(Layer)
    BY <1>2 DEF LegOK, Call
<1>4. call.node \in Node /\ key \in Leg \cup {None} /\ key # None
    BY <1>2 DEF TypeOK, HandleOpen
<1>5. key = <<a, i>>
    <2>1. call.payload # <<>> /\ Head(call.payload).key = key
        BY DEF HandleOpen, Opens
    <2>2. 1 \in 1..Depth(i) /\ i + 1 - 1 = i
        BY PosFacts DEF Depth
    <2>3. call.payload[1].key = <<a, i>>
        BY <1>3, <2>2 DEF RequestLayers
    <2>4. Head(call.payload) = call.payload[1]
        BY <2>1, <1>3
    <2> QED BY <2>1, <2>3, <2>4
<1>6. Opened(call, key) \in Call /\ LegOK(a, i, Opened(call, key))
    BY <1>2, <1>3, <1>4, <1>5 DEF Opened, Call, LegOK, Errors
<1>7. ASSUME i # Hops
      PROVE  next \in Call /\ LegOK(a, i + 1, next)
    <2>1. /\ i + 1 \in Pos /\ Tail(call.payload) \in Seq(Layer)
          /\ Head(call.payload) \in Layer
          /\ RequestLayers(a, i + 1, Tail(call.payload))
        BY <1>3, <1>7, TailFacts
    <2>2. Head(call.payload).next \in Node \cup {Destination}
        BY <2>1 DEF Layer
    <2> DEFINE n == Head(call.payload).next
               s == Tail(call.payload)
    <2>3. s \in Seq(Layer) /\ RequestLayers(a, i + 1, s) /\ n \in Node \cup {Destination}
        BY <2>1, <2>2
    <2> HIDE DEF n, s
    <2>4. Sent(n, s) \in Call /\ LegOK(a, i + 1, Sent(n, s))
        BY <2>3 DEF Sent, Call, LegOK
    <2> QED BY <2>4 DEF n, s
<1>8. calls' = [m \in Leg |-> CASE m = leg -> Opened(call, key)
                               [] m = Inner(leg) -> next
                               [] OTHER -> calls[m]]
    BY DEF HandleOpen
<1>9. leg # Inner(leg) /\ Inner(leg) = <<a, i + 1>>
    BY <1>1, PosFacts DEF Inner
<1> HIDE DEF call, key, next
<1>10. ASSUME NEW b \in Attempt, NEW j \in Pos
       PROVE  calls'[<<b, j>>] \in Call /\ LegOK(b, j, calls'[<<b, j>>])
    <2>1. <<b, j>> \in Leg
        BY DEF Leg
    <2>2. CASE <<b, j>> = leg
        <3>1. calls'[<<b, j>>] = Opened(call, key)
            <4>1. calls'[leg] = Opened(call, key)
                BY <1>8, <1>9
            <4> QED BY <4>1, <2>2, Zenon
        <3>2. b = a /\ j = i
            BY <1>1, <2>2
        <3> QED BY <1>6, <3>1, <3>2
    <2>3. CASE <<b, j>> = Inner(leg)
        <3>1. calls'[<<b, j>>] = next
            BY <1>8, <1>9, <2>1, <2>3
        <3>2. b = a /\ j = i + 1
            BY <1>9, <2>3
        <3>3. i # Hops
            BY <3>2, PosFacts
        <3> QED BY <1>7, <3>1, <3>2, <3>3
    <2>4. CASE <<b, j>> # leg /\ <<b, j>> # Inner(leg)
        <3>1. calls'[<<b, j>>] = calls[<<b, j>>]
            BY <1>8, <2>1, <2>4
        <3> QED BY <2>1, <3>1 DEF TypeOK, Legs
    <2> QED BY <2>2, <2>3, <2>4
<1>11. Legs'
    BY <1>10 DEF Legs
<1>12. calls' \in [Leg -> Call]
    <2>1. ASSUME NEW m \in Leg PROVE calls'[m] \in Call
        <3>1. PICK b \in Attempt, j \in Pos : m = <<b, j>>
            BY DEF Leg
        <3> QED BY <1>10, <3>1
    <2>2. DOMAIN calls' = Leg /\ calls' = [m \in Leg |-> calls'[m]]
        BY <1>8
    <2> QED BY <2>1, <2>2
<1>13. TypeOK'
    BY <1>12 DEF HandleOpen, TypeOK, client, process
<1>14. Fetched'
    BY DEF HandleOpen, Fetched, client
<1> QED BY <1>11, <1>13, <1>14

LEMMA NodeSteps ==
    ASSUME IInv, NEW leg \in Leg,
           \/ HandleSetup(leg)
           \/ HandleUnknown(leg) \/ HandleRejected(leg) \/ HandleOpen(leg)
           \/ ForwardReply(leg) \/ ForwardFails(leg)
           \/ Execute(leg) \/ ExitReply(leg) \/ ExitFails(leg)
    PROVE  IInv'
<1> USE DEF IInv
<1>1. CASE HandleSetup(leg)
    <2> DEFINE hopOf == circuit[leg[1]][leg[2]]
    <2>1. circuit[leg[1]] \in [Pos -> Record]
        BY <1>1 DEF HandleSetup, Fetched
    <2>2. hopOf.node \in Node
        BY <2>1 DEF Leg, Record
    <2>3. /\ keys' = keys \/ keys' = [keys EXCEPT ![hopOf.node] = leg]
          /\ \/ setups' = [setups EXCEPT ![leg] = "stored"]
             \/ setups' = [setups EXCEPT ![leg] = "refused"]
          /\ setups[leg] = "sent"
          /\ UNCHANGED <<client, process, calls, executed>>
        BY <1>1 DEF HandleSetup, Store
    <2> HIDE DEF hopOf
    <2>4. TypeOK'
        BY <2>2, <2>3 DEF TypeOK, client, process
    <2>5. Fetched'
        BY <2>3 DEF Fetched, TypeOK, client
    <2>6. Legs'
        BY <2>3 DEF Legs
    <2> QED BY <2>4, <2>5, <2>6
<1>2. CASE HandleUnknown(leg)
    <2>1. /\ calls[leg].st # "none"
          /\ Answer(leg, "unknown", <<>>)
          /\ UNCHANGED executed
        BY <1>2 DEF HandleUnknown
    <2> QED BY <2>1, ErrorSteps DEF Errors
<1>3. CASE HandleRejected(leg)
    <2>1. /\ calls[leg].st # "none"
          /\ Answer(leg, "rejected", <<>>)
          /\ UNCHANGED executed
        BY <1>3 DEF HandleRejected
    <2> QED BY <2>1, ErrorSteps DEF Errors
<1>4. CASE HandleOpen(leg)
    BY <1>4, OpenStep
<1>5. CASE ForwardReply(leg)
    <2>1. PICK a \in Attempt, i \in Pos : leg = <<a, i>>
        BY DEF Leg
    <2>2. i # Hops /\ calls[<<a, i>>].st = "open"
          /\ calls[<<a, i + 1>>].st = "ok"
        BY <1>5, <2>1 DEF ForwardReply, Running, IsLast, Inner
    <2>3. i + 1 \in Pos
        BY <2>2, PosFacts DEF Pos
    <2> DEFINE reply == calls[<<a, i + 1>>].reply
    <2>4. reply \in Seq(Leg) /\ ResponseLayers(a, i + 1, reply)
        BY <2>2, <2>3 DEF Legs, LegOK, TypeOK, Call, Leg
    <2>5. calls[<<a, i>>].key = <<a, i>>
        BY <2>2 DEF Legs, LegOK
    <2>6. Answer(leg, "ok", <<<<a, i>>>> \o reply) /\ UNCHANGED executed
        BY <1>5, <2>1, <2>5 DEF ForwardReply, Inner, Encrypt
    <2> HIDE DEF reply
    <2>7. <<<<a, i>>>> \o reply \in Seq(Leg) /\ ResponseLayers(a, i, <<<<a, i>>>> \o reply)
        BY <2>2, <2>4, WrapFacts
    <2> QED BY <2>1, <2>2, <2>6, <2>7, AnswerSteps
<1>6. CASE ForwardFails(leg)
    <2>1. /\ calls[leg].st # "none"
          /\ Answer(leg, "badgateway", <<>>)
          /\ UNCHANGED executed
        BY <1>6 DEF ForwardFails, Running
    <2> QED BY <2>1, ErrorSteps DEF Errors
<1>7. CASE Execute(leg)
    <2>1. TypeOK'
        BY <1>7 DEF Execute, TypeOK, Leg, client, process
    <2>2. Fetched' /\ Legs'
        BY <1>7 DEF Execute, Fetched, Legs, client
    <2> QED BY <2>1, <2>2
<1>8. CASE ExitReply(leg)
    <2>1. PICK a \in Attempt, i \in Pos : leg = <<a, i>>
        BY DEF Leg
    <2>2. i = Hops /\ calls[<<a, i>>].st = "open"
        BY <1>8, <2>1 DEF ExitReply, Running, IsLast
    <2>3. calls[<<a, i>>].key = <<a, i>>
        BY <2>2 DEF Legs, LegOK
    <2>4. Answer(leg, "ok", <<leg>>) /\ UNCHANGED executed
        BY <1>8, <2>1, <2>3 DEF ExitReply, Encrypt
    <2>5. Depth(i) = 1 /\ i + 1 - 1 = i
        BY <2>2, PosFacts DEF Depth
    <2>6. ResponseLayers(a, i, <<leg>>)
        BY <2>1, <2>5 DEF ResponseLayers
    <2> QED BY <2>1, <2>2, <2>4, <2>6, AnswerSteps
<1>9. CASE ExitFails(leg)
    <2>1. /\ calls[leg].st # "none"
          /\ Answer(leg, IF Hops = 1 THEN "rejected" ELSE "badgateway", <<>>)
          /\ UNCHANGED executed
        BY <1>9 DEF ExitFails, Running
    <2> QED BY <2>1, ErrorSteps DEF Errors
<1> QED BY <1>1, <1>2, <1>3, <1>4, <1>5, <1>6, <1>7, <1>8, <1>9

LEMMA ProcessSteps ==
    ASSUME IInv, NEW n \in Node, Crash(n) \/ Start(n)
    PROVE  IInv'
<1> USE DEF IInv
<1>1. CASE Crash(n)
    <2>1. ASSUME NEW b \in Attempt, NEW j \in Pos
          PROVE  calls'[<<b, j>>] \in Call /\ LegOK(b, j, calls'[<<b, j>>])
        <3>1. <<b, j>> \in Leg
            BY DEF Leg
        <3>2. calls[<<b, j>>] \in Call /\ LegOK(b, j, calls[<<b, j>>])
            BY <3>1 DEF TypeOK, Legs
        <3>3. CASE calls[<<b, j>>].st = "open" /\ calls[<<b, j>>].node = n
            <4>1. calls'[<<b, j>>] = Answered(calls[<<b, j>>], "dead", <<>>)
                BY <1>1, <3>1, <3>3 DEF Crash
            <4> DEFINE none == <<>>
            <4>2. none \in Seq(Leg) /\ calls'[<<b, j>>] = Answered(calls[<<b, j>>], "dead", none)
                BY <4>1
            <4> HIDE DEF none
            <4>3. calls[<<b, j>>].st # "none"
                BY <3>3
            <4> QED BY <3>2, <4>2, <4>3, AnswerFacts
        <3>4. CASE ~(calls[<<b, j>>].st = "open" /\ calls[<<b, j>>].node = n)
            <4>1. calls'[<<b, j>>] = calls[<<b, j>>]
                BY <1>1, <3>1, <3>4 DEF Crash
            <4> QED BY <3>2, <4>1
        <3> QED BY <3>3, <3>4
    <2>2. Legs'
        BY <2>1 DEF Legs
    <2>3. calls' \in [Leg -> Call]
        <3>1. ASSUME NEW m \in Leg PROVE calls'[m] \in Call
            <4>1. PICK b \in Attempt, j \in Pos : m = <<b, j>>
                BY DEF Leg
            <4> QED BY <2>1, <4>1
        <3>2. DOMAIN calls' = Leg /\ calls' = [m \in Leg |-> calls'[m]]
            BY <1>1 DEF Crash
        <3> QED BY <3>1, <3>2
    <2>4. crashes' \in 0..MaxCrashes
        BY <1>1, CircuitAssumption DEF Crash, TypeOK
    <2>5. TypeOK'
        BY <1>1, <2>3, <2>4 DEF Crash, TypeOK, client
    <2>6. Fetched'
        BY <1>1 DEF Crash, Fetched, client
    <2> QED BY <2>2, <2>5, <2>6
<1>2. CASE Start(n)
    <2>1. TypeOK'
        BY <1>2 DEF Start, TypeOK, client
    <2>2. Fetched' /\ Legs'
        BY <1>2 DEF Start, Fetched, Legs, client
    <2> QED BY <2>1, <2>2
<1> QED BY <1>1, <1>2

----------------------------------------------------------------------------
LEMMA NextIInv == IInv /\ [Next]_vars => IInv'
<1> SUFFICES ASSUME IInv, [Next]_vars PROVE IInv'
    OBVIOUS
<1>1. CASE Next
    BY <1>1, ClientSteps, NodeSteps, ProcessSteps DEF Next
<1>2. CASE UNCHANGED vars
    BY <1>2 DEF vars, IInv, TypeOK, Fetched, Legs
<1> QED BY <1>1, <1>2

LEMMA Invariance == Spec => []IInv
<1> QED BY InitIInv, NextIInv, PTL DEF Spec

\* Every variable keeps its type; in particular every ciphertext a handler is
\* given or returns stays a sequence of layers, whatever is lost, restarted or
\* overtaken.
THEOREM TypeCorrect == Spec => []TypeOK
<1>1. IInv => TypeOK
    BY DEF IInv
<1> QED BY <1>1, Invariance, PTL

\* A 200 from the guard opens under the client's keys: the keys a handler
\* wraps with are those it has read before it called the next hop.
THEOREM ResponsesDecrypt == Spec => []ResponseDecrypts
<1>1. IInv => ResponseDecrypts
    <2> SUFFICES ASSUME IInv, NEW a \in Attempt, calls[<<a, 1>>].st = "ok"
                 PROVE  Decrypts(a, calls[<<a, 1>>].reply)
        BY DEF ResponseDecrypts
    <2> DEFINE s == calls[<<a, 1>>].reply
    <2>1. s \in Seq(Leg) /\ ResponseLayers(a, 1, s)
        BY PosFacts DEF IInv, TypeOK, Legs, LegOK, Leg, Call
    <2> HIDE DEF s
    <2>2. Depth(1) = Hops /\ \A j \in Pos : 1 + j - 1 = j
        BY PosFacts DEF Depth
    <2>3. Len(s) = Hops /\ \A j \in Pos : s[j] = <<a, j>>
        BY <2>1, <2>2 DEF ResponseLayers, Pos
    <2>4. s = [j \in 1..Hops |-> <<a, j>>]
        BY <2>1, <2>3, PosFacts DEF Pos
    <2> QED BY <2>4 DEF Decrypts, Pos, s
<1> QED BY <1>1, Invariance, PTL

----------------------------------------------------------------------------
(* Success is this attempt's: a 200 can only have come up from the exit.   *)

\* A call that is answered 200 belongs to an attempt that was executed, at
\* every hop; and the loop counter rests once the request has succeeded.
Reached ==
    /\ \A a \in Attempt, i \in Pos : calls[<<a, i>>].st = "ok" => a \in executed
    /\ result = "ok" => pc = "done" /\ attempt \in executed

LEMMA InitReached == Init => Reached
<1> SUFFICES ASSUME Init, NEW a \in Attempt, NEW i \in Pos
             PROVE  calls[<<a, i>>].st # "ok" /\ result # "ok"
    BY DEF Init, Reached
<1>1. calls[<<a, i>>] = NoCall
    BY DEF Init, Leg
<1> QED BY <1>1 DEF Init, NoCall

\* An answer that is an error, or whose attempt was executed, keeps it.
LEMMA AnswerReached ==
    ASSUME IInv, Reached, NEW leg \in Leg, NEW st, NEW reply,
           st = "ok" => leg[1] \in executed,
           Answer(leg, st, reply), UNCHANGED executed
    PROVE  Reached'
<1>1. UNCHANGED <<result, pc, attempt, executed>>
    BY DEF Answer, client
<1>2. ASSUME NEW a \in Attempt, NEW i \in Pos, calls'[<<a, i>>].st = "ok"
      PROVE  a \in executed
    <2>1. <<a, i>> \in Leg
        BY DEF Leg
    <2>2. CASE <<a, i>> = leg
        <3>1. calls'[leg] = Answered(calls[leg], st, reply)
            BY DEF Answer, IInv, TypeOK
        <3>2. st = "ok" /\ leg[1] = a
            BY <1>2, <2>2, <3>1 DEF Answered
        <3> QED BY <3>2
    <2>3. CASE <<a, i>> # leg
        <3>1. calls'[<<a, i>>] = calls[<<a, i>>]
            BY <2>1, <2>3 DEF Answer, IInv, TypeOK
        <3> QED BY <1>2, <3>1 DEF Reached
    <2> QED BY <2>2, <2>3
<1> QED BY <1>1, <1>2 DEF Reached

\* A step that leaves every call that is answered 200 as it was.
LEMMA CallsReached ==
    ASSUME Reached,
           \A a \in Attempt, i \in Pos :
               calls'[<<a, i>>].st = "ok" => calls[<<a, i>>].st = "ok",
           executed \subseteq executed',
           \/ UNCHANGED <<result, pc, attempt>>
           \/ result # "ok" /\ result' # "ok"
           \/ result' = "ok" => pc' = "done" /\ attempt' \in executed'
    PROVE  Reached'
BY DEF Reached

LEMMA NextReached == IInv /\ Reached /\ [Next]_vars => Reached'
<1> SUFFICES ASSUME IInv, Reached, [Next]_vars PROVE Reached'
    OBVIOUS
<1> DEFINE Kept == \A a \in Attempt, i \in Pos :
                      calls'[<<a, i>>].st = "ok" => calls[<<a, i>>].st = "ok"
<1>1. CASE GetCircuit \/ GetCircuitFails
    <2>1. result # "ok"
        BY <1>1 DEF GetCircuit, GetCircuitFails, Reached
    <2>2. result' # "ok" /\ UNCHANGED <<calls, executed>>
        BY <1>1, <2>1 DEF GetCircuit, GetCircuitFails
    <2> QED BY <2>1, <2>2, CallsReached
<1>2. CASE SetupAcked
    <2>1. UNCHANGED <<result, attempt, executed>> /\ pc = "setup"
        BY <1>2 DEF SetupAcked
    <2>2. Kept
        <3>1. CASE hop < Hops
            BY <1>2, <3>1 DEF SetupAcked
        <3>2. CASE ~(hop < Hops)
            <4> DEFINE call == Sent(circuit[attempt][1].node,
                                    BuildOnion(attempt, circuit[attempt]))
            <4>1. calls' = [calls EXCEPT ![<<attempt, 1>>] = call]
                BY <1>2, <3>2 DEF SetupAcked
            <4>2. call.st = "sent"
                BY DEF Sent
            <4> HIDE DEF call
            <4>3. ASSUME NEW a \in Attempt, NEW i \in Pos, calls'[<<a, i>>].st = "ok"
                  PROVE  calls[<<a, i>>].st = "ok"
                <5>1. <<a, i>> \in Leg
                    BY DEF Leg
                <5>2. <<a, i>> # <<attempt, 1>>
                    BY <4>1, <4>2, <4>3, <5>1 DEF IInv, TypeOK
                <5> QED BY <4>1, <4>3, <5>1, <5>2 DEF IInv, TypeOK
            <4> QED BY <4>3
        <3> QED BY <3>1, <3>2
    <2>3. result # "ok"
        BY <2>1 DEF Reached
    <2> QED BY <2>1, <2>2, <2>3, CallsReached
<1>3. ASSUME NEW err, FailAttempt(err), pc # "done"
      PROVE  Reached'
    <2>1. result # "ok" /\ result' # "ok" /\ UNCHANGED <<calls, executed>>
        BY <1>3 DEF FailAttempt, Reached
    <2> QED BY <2>1, CallsReached
<1>4. CASE SetupFails \/ SendFails \/ SendTimesOut
    BY <1>3, <1>4 DEF SetupFails, SendFails, SendTimesOut
<1>5. CASE ReceiveResponse
    <2>1. attempt \in executed
        BY <1>5, PosFacts DEF ReceiveResponse, Reached, IInv, TypeOK
    <2>2. pc' = "done" /\ UNCHANGED <<attempt, calls, executed>>
        BY <1>5 DEF ReceiveResponse
    <2> QED BY <2>1, <2>2, CallsReached
<1>6. ASSUME NEW leg \in Leg, HandleSetup(leg) \/ HandleOpen(leg) \/ Execute(leg)
      PROVE  Reached'
    <2>1. UNCHANGED <<result, pc, attempt>> /\ executed \subseteq executed'
        BY <1>6 DEF HandleSetup, HandleOpen, Execute, client
    <2>2. Kept
        <3>1. CASE HandleSetup(leg) \/ Execute(leg)
            BY <3>1 DEF HandleSetup, Execute
        <3>2. CASE HandleOpen(leg)
            <4> SUFFICES ASSUME NEW a \in Attempt, NEW i \in Pos,
                                calls'[<<a, i>>].st = "ok"
                         PROVE  calls[<<a, i>>].st = "ok"
                OBVIOUS
            <4> DEFINE mine == Opened(calls[leg], keys[calls[leg].node])
                       next == Sent(Head(calls[leg].payload).next,
                                    Tail(calls[leg].payload))
            <4>1. calls' = [m \in Leg |-> CASE m = leg -> mine
                                            [] m = Inner(leg) -> next
                                            [] OTHER -> calls[m]]
                BY <3>2 DEF HandleOpen
            <4>2. mine.st = "open" /\ next.st = "sent"
                BY DEF Opened, Sent
            <4> HIDE DEF mine, next
            <4>3. leg # Inner(leg)
                <5>1. leg[2] \in Nat
                    BY PosFacts DEF Leg
                <5> QED BY <5>1 DEF Inner, Leg
            <4>4. <<a, i>> \in Leg
                BY DEF Leg
            <4>5. calls'[<<a, i>>] \in {mine, next, calls[<<a, i>>]}
                BY <4>1, <4>3, <4>4
            <4> QED BY <4>2, <4>5
        <3> QED BY <1>6, <3>1, <3>2
    <2> QED BY <2>1, <2>2, CallsReached
<1>7. ASSUME NEW leg \in Leg,
             HandleUnknown(leg) \/ HandleRejected(leg) \/ ForwardFails(leg) \/ ExitFails(leg)
      PROVE  Reached'
    <2>1. UNCHANGED executed /\ \E st \in Errors : Answer(leg, st, <<>>)
        BY <1>7 DEF HandleUnknown, HandleRejected, ForwardFails, ExitFails, Errors
    <2>2. "ok" \notin Errors
        BY DEF Errors
    <2> QED BY <2>1, <2>2, AnswerReached
<1>8. ASSUME NEW leg \in Leg, ForwardReply(leg)
      PROVE  Reached'
    <2>1. leg[1] \in Attempt /\ leg[2] \in Pos /\ leg[2] # Hops
        BY <1>8 DEF ForwardReply, IsLast, Leg
    <2>2. leg[2] + 1 \in Pos
        BY <2>1, PosFacts DEF Pos
    <2>3. calls[<<leg[1], leg[2] + 1>>].st = "ok"
        BY <1>8 DEF ForwardReply, Inner
    <2>4. leg[1] \in executed
        BY <2>1, <2>2, <2>3 DEF Reached
    <2> QED BY <1>8, <2>4, AnswerReached DEF ForwardReply
<1>9. ASSUME NEW leg \in Leg, ExitReply(leg)
      PROVE  Reached'
    BY <1>9, AnswerReached DEF ExitReply
<1>10. ASSUME NEW n \in Node, Crash(n) \/ Start(n)
       PROVE  Reached'
    <2>1. UNCHANGED <<result, pc, attempt, executed>>
        BY <1>10 DEF Crash, Start, client
    <2>2. ASSUME NEW a \in Attempt, NEW i \in Pos, calls'[<<a, i>>].st = "ok"
          PROVE  calls[<<a, i>>].st = "ok"
        <3>1. <<a, i>> \in Leg
            BY DEF Leg
        <3>2. calls'[<<a, i>>] \in {calls[<<a, i>>], Answered(calls[<<a, i>>], "dead", <<>>)}
            BY <1>10, <3>1 DEF Crash, Start
        <3> QED BY <2>2, <3>2 DEF Answered
    <2> QED BY <2>1, <2>2, CallsReached
<1>11. CASE UNCHANGED vars
    BY <1>11 DEF vars, Reached
<1> QED BY <1>1, <1>2, <1>4, <1>5, <1>6, <1>7, <1>8, <1>9, <1>10, <1>11 DEF Next

\* The client reports success only with the answer to this attempt's request,
\* executed by the destination, and not with that of an abandoned attempt.
THEOREM SuccessMeansExecuted == Spec => []SuccessIsThisAttempts
<1>1. Reached => SuccessIsThisAttempts
    BY DEF Reached, SuccessIsThisAttempts
<1> QED BY <1>1, InitReached, NextReached, Invariance, PTL DEF Spec

----------------------------------------------------------------------------
(* Rebuild events.                                                         *)

\* While the loop runs there is no result, so no event is a success yet.
Story == EventsMatchAttempts /\ (pc # "done" => result = "none")

\* Settling touches the last event only, and only its success.
LEMMA SettleStory ==
    ASSUME IInv, NEW b \in BOOLEAN, NEW j \in 1..Len(events)
    PROVE  /\ Settle(b)[j].attempt = events[j].attempt
           /\ Settle(b)[j].success = IF j = Len(events) THEN b ELSE events[j].success
<1>1. DOMAIN events = 1..Len(events) /\ events[j] \in Event
    BY DEF IInv, TypeOK
<1>2. Settle(b)[j] = IF j = Len(events) THEN [events[j] EXCEPT !.success = b]
                                        ELSE events[j]
    BY <1>1 DEF Settle
<1>3. /\ [events[j] EXCEPT !.success = b].attempt = events[j].attempt
      /\ [events[j] EXCEPT !.success = b].success = b
    BY <1>1 DEF Event
<1> QED BY <1>2, <1>3

LEMMA FailStory ==
    ASSUME IInv, Story, pc # "done", NEW err, FailAttempt(err)
    PROVE  Story'
<1> DEFINE x == Settle(FALSE)
           e == [attempt |-> attempt + 1, hop |-> identifyFailedHop(err),
                 cause |-> err.cause, success |-> FALSE]
<1>1. /\ result # "ok" /\ attempt \in Nat
      /\ Len(events) = attempt - 1 /\ Len(events) \in Nat
      /\ DOMAIN events = 1..Len(events)
    BY DEF Story, EventsMatchAttempts, IInv, TypeOK, Attempt
<1>2. x \in Seq(Event) /\ Len(x) = Len(events)
    BY SettleFacts DEF IInv, TypeOK
<1>3. \A j \in 1..Len(events) : x[j].attempt = j + 1 /\ x[j].success = FALSE
    <2> SUFFICES ASSUME NEW j \in 1..Len(events)
                 PROVE  x[j].attempt = j + 1 /\ x[j].success = FALSE
        OBVIOUS
    <2>1. events[j].attempt = j + 1 /\ ~events[j].success
        BY <1>1 DEF Story, EventsMatchAttempts
    <2>2. events[j].success \in BOOLEAN
        <3>1. events[j] \in Event
            BY <1>1 DEF IInv, TypeOK
        <3> QED BY <3>1 DEF Event
    <2>3. events[j].success = FALSE
        BY <2>1, <2>2
    <2>4. x[j].attempt = events[j].attempt
          /\ x[j].success = IF j = Len(events) THEN FALSE ELSE events[j].success
        BY SettleStory
    <2> QED BY <2>1, <2>3, <2>4
<1>4. CASE attempt < MaxAttempts
    <2>1. events' = Append(x, e) /\ attempt' = attempt + 1 /\ pc' = "get"
          /\ result' = result
        BY <1>4, Zenon DEF FailAttempt
    <2>2. e.attempt = attempt + 1 /\ e.success = FALSE
        OBVIOUS
    <2> HIDE DEF x, e
    <2>3. DOMAIN events' = 1..attempt /\ Len(events') = attempt
        BY <1>1, <1>2, <2>1
    <2>4. ASSUME NEW j \in 1..attempt
          PROVE  events'[j].attempt = j + 1 /\ ~events'[j].success
        <3> j \in 1..Len(x) \/ j = attempt
            BY <1>1, <1>2
        <3>1. CASE j \in 1..Len(x)
            <4>1. events'[j] = x[j]
                BY <1>2, <2>1, <3>1
            <4> QED BY <1>2, <1>3, <3>1, <4>1
        <3>2. CASE j = attempt
            <4>1. events'[j] = e
                BY <1>1, <1>2, <2>1, <3>2
            <4> QED BY <2>2, <3>2, <4>1
        <3> QED BY <3>1, <3>2
    <2>5. EventsMatchAttempts'
        BY <1>1, <2>1, <2>3, <2>4 DEF EventsMatchAttempts
    <2> QED BY <2>1, <2>5 DEF Story
<1>5. CASE ~(attempt < MaxAttempts)
    <2>1. events' = x /\ attempt' = attempt /\ pc' = "done" /\ result' = "exhausted"
        BY <1>5, Zenon DEF FailAttempt
    <2> HIDE DEF x
    <2>2. DOMAIN events' = 1..Len(events)
        BY <1>2, <2>1
    <2>3. EventsMatchAttempts'
        BY <1>1, <1>2, <1>3, <2>1, <2>2 DEF EventsMatchAttempts
    <2> QED BY <2>1, <2>3 DEF Story
<1> QED BY <1>4, <1>5

LEMMA NextStory == IInv /\ Story /\ [Next]_vars => Story'
<1> SUFFICES ASSUME IInv, Story, [Next]_vars PROVE Story'
    OBVIOUS
<1>1. CASE GetCircuit \/ SetupAcked
    BY <1>1 DEF GetCircuit, SetupAcked, Story, EventsMatchAttempts
<1>2. CASE GetCircuitFails
    BY <1>2 DEF GetCircuitFails, Story, EventsMatchAttempts
<1>3. CASE SetupFails
    BY <1>3, FailStory DEF SetupFails
<1>4. CASE SendFails
    BY <1>4, FailStory DEF SendFails
<1>5. CASE SendTimesOut
    BY <1>5, FailStory DEF SendTimesOut
<1>6. CASE ReceiveResponse
    <2>1. pc = "wait" /\ pc' = "done" /\ attempt' = attempt
        BY <1>6 DEF ReceiveResponse
    <2>2. \/ result' = "ok" /\ events' = Settle(TRUE)
          \/ result' = "undecryptable" /\ events' = events
        BY <1>6 DEF ReceiveResponse
    <2>3. CASE result' = "undecryptable" /\ events' = events
        BY <2>1, <2>3 DEF Story, EventsMatchAttempts
    <2>4. CASE result' = "ok" /\ events' = Settle(TRUE)
        <3>1. Settle(TRUE) \in Seq(Event) /\ Len(Settle(TRUE)) = Len(events)
            BY SettleFacts DEF IInv, TypeOK
        <3>2. DOMAIN events' = 1..Len(events) /\ Len(events') = Len(events)
            <4> DEFINE x == Settle(TRUE)
            <4>1. events' = x /\ x \in Seq(Event) /\ Len(x) = Len(events)
                BY <2>4, <3>1
            <4> HIDE DEF x
            <4> QED BY <4>1
        <3>3. ASSUME NEW j \in 1..Len(events)
              PROVE  events'[j].attempt = j + 1
                     /\ (events'[j].success <=> j = Len(events))
            <4>1. events[j].attempt = j + 1 /\ ~events[j].success
                BY <2>1 DEF Story, EventsMatchAttempts, IInv, TypeOK
            <4>2. events'[j].attempt = events[j].attempt
                BY <2>4, SettleStory
            <4>3. events'[j].success
                    = IF j = Len(events) THEN TRUE ELSE events[j].success
                BY <2>4, SettleStory
            <4> QED BY <4>1, <4>2, <4>3
        <3>4. EventsMatchAttempts'
            BY <2>1, <2>4, <3>2, <3>3 DEF EventsMatchAttempts, Story
        <3> QED BY <2>1, <3>4 DEF Story
    <2> QED BY <2>2, <2>3, <2>4
<1>7. ASSUME NEW leg \in Leg,
             \/ HandleSetup(leg)
             \/ HandleUnknown(leg) \/ HandleRejected(leg) \/ HandleOpen(leg)
             \/ ForwardReply(leg) \/ ForwardFails(leg)
             \/ Execute(leg) \/ ExitReply(leg) \/ ExitFails(leg)
      PROVE  Story'
    <2>1. UNCHANGED client
        BY <1>7 DEF HandleSetup, HandleUnknown, HandleRejected, HandleOpen, ForwardReply,
                    ForwardFails, Execute, ExitReply, ExitFails, Answer
    <2> QED BY <2>1 DEF client, Story, EventsMatchAttempts
<1>8. ASSUME NEW n \in Node, Crash(n) \/ Start(n)
      PROVE  Story'
    BY <1>8 DEF Crash, Start, client, Story, EventsMatchAttempts
<1>9. CASE UNCHANGED vars
    BY <1>9 DEF vars, Story, EventsMatchAttempts
<1> QED BY <1>1, <1>2, <1>3, <1>4, <1>5, <1>6, <1>7, <1>8, <1>9 DEF Next

LEMMA InitStory == Init => Story
BY DEF Init, Story, EventsMatchAttempts

\* Whatever fails and however often, the rebuild events are one for each
\* attempt after the first, in order, and only the last can be a success.
THEOREM EventsMatch == Spec => []EventsMatchAttempts
<1>1. Story => EventsMatchAttempts
    BY DEF Story
<1> QED BY <1>1, InitStory, NextStory, Invariance, PTL DEF Spec

----------------------------------------------------------------------------
(* One request: Circuit implements OneRequest.                             *)

\* Only attempts that have begun have calls.
Begun ==
    \A a \in Attempt, i \in Pos : calls[<<a, i>>] # NoCall => a <= attempt

LEMMA InitBegun == Init => Begun
<1> SUFFICES ASSUME Init, NEW a \in Attempt, NEW i \in Pos
             PROVE  calls[<<a, i>>] = NoCall
    BY DEF Begun
<1> QED BY DEF Init, Leg

LEMMA AnswerBegun ==
    ASSUME IInv, Begun, NEW leg \in Leg, NEW st, NEW reply,
           calls[leg].st # "none", Answer(leg, st, reply)
    PROVE  Begun'
<1>1. UNCHANGED attempt
    BY DEF Answer, client
<1>2. ASSUME NEW a \in Attempt, NEW i \in Pos, calls'[<<a, i>>] # NoCall
      PROVE  calls[<<a, i>>] # NoCall
    <2>1. <<a, i>> \in Leg
        BY DEF Leg
    <2>2. calls[leg] # NoCall
        BY DEF NoCall
    <2> QED BY <1>2, <2>1, <2>2 DEF Answer, IInv, TypeOK
<1> QED BY <1>1, <1>2 DEF Begun

LEMMA NextBegun == IInv /\ Begun /\ [Next]_vars => Begun'
<1> SUFFICES ASSUME IInv, Begun, [Next]_vars PROVE Begun'
    OBVIOUS
<1>0. attempt \in Attempt /\ \A a \in Attempt : a \in Nat
    BY DEF IInv, TypeOK, Attempt
<1>1. CASE GetCircuit \/ GetCircuitFails \/ ReceiveResponse
    BY <1>1 DEF GetCircuit, GetCircuitFails, ReceiveResponse, Begun
<1>2. CASE SetupAcked
    <2>1. UNCHANGED attempt
        BY <1>2 DEF SetupAcked
    <2>2. \A leg \in Leg : calls'[leg] = calls[leg] \/ leg[1] = attempt
        <3>1. CASE hop < Hops
            BY <1>2, <3>1 DEF SetupAcked
        <3>2. CASE ~(hop < Hops)
            <4> DEFINE call == Sent(circuit[attempt][1].node,
                                    BuildOnion(attempt, circuit[attempt]))
            <4>1. calls' = [calls EXCEPT ![<<attempt, 1>>] = call]
                BY <1>2, <3>2 DEF SetupAcked
            <4> HIDE DEF call
            <4> QED BY <4>1 DEF IInv, TypeOK
        <3> QED BY <3>1, <3>2
    <2>3. \A a \in Attempt, i \in Pos : <<a, i>> \in Leg /\ <<a, i>>[1] = a
        BY DEF Leg
    <2>4. \A a \in Attempt, i \in Pos :
              calls'[<<a, i>>] = calls[<<a, i>>] \/ a = attempt
        BY <2>2, <2>3
    <2> QED BY <1>0, <2>1, <2>4 DEF Begun
<1>3. ASSUME NEW err, FailAttempt(err)
      PROVE  Begun'
    <2>1. UNCHANGED calls
        BY <1>3 DEF FailAttempt
    <2>2. attempt' = attempt \/ attempt' = attempt + 1
        BY <1>3 DEF FailAttempt
    <2> QED BY <1>0, <2>1, <2>2 DEF Begun
<1>4. CASE SetupFails \/ SendFails \/ SendTimesOut
    BY <1>3, <1>4 DEF SetupFails, SendFails, SendTimesOut
<1>5. ASSUME NEW leg \in Leg, HandleSetup(leg) \/ Execute(leg)
      PROVE  Begun'
    BY <1>5 DEF HandleSetup, Execute, client, Begun
<1>6. ASSUME NEW leg \in Leg,
             \/ HandleUnknown(leg) \/ HandleRejected(leg)
             \/ ForwardReply(leg) \/ ForwardFails(leg)
             \/ ExitReply(leg) \/ ExitFails(leg)
      PROVE  Begun'
    <2>1. calls[leg].st # "none"
        BY <1>6 DEF HandleUnknown, HandleRejected, ForwardReply, ForwardFails,
                    ExitReply, ExitFails, Running
    <2>2. \E st, reply : Answer(leg, st, reply)
        BY <1>6 DEF HandleUnknown, HandleRejected, ForwardReply, ForwardFails,
                    ExitReply, ExitFails
    <2> QED BY <2>1, <2>2, AnswerBegun
<1>7. ASSUME NEW leg \in Leg, HandleOpen(leg)
      PROVE  Begun'
    <2> DEFINE mine == Opened(calls[leg], keys[calls[leg].node])
               next == Sent(Head(calls[leg].payload).next,
                            Tail(calls[leg].payload))
    <2>1. calls' = [m \in Leg |-> CASE m = leg -> mine
                                    [] m = Inner(leg) -> next
                                    [] OTHER -> calls[m]]
        BY <1>7 DEF HandleOpen
    <2>2. UNCHANGED attempt /\ calls[leg].st # "none"
        BY <1>7 DEF HandleOpen, client
    <2> HIDE DEF mine, next
    <2>3. PICK b \in Attempt, j \in Pos : leg = <<b, j>>
        BY DEF Leg
    <2>4. b <= attempt
        BY <2>2, <2>3 DEF Begun, NoCall
    <2>5. ASSUME NEW a \in Attempt, NEW i \in Pos, calls'[<<a, i>>] # NoCall
          PROVE  a <= attempt
        <3>1. <<a, i>> \in Leg
            BY DEF Leg
        <3>2. CASE <<a, i>> = leg \/ <<a, i>> = Inner(leg)
            BY <2>3, <2>4, <3>2 DEF Inner
        <3>3. CASE <<a, i>> # leg /\ <<a, i>> # Inner(leg)
            <4>1. calls'[<<a, i>>] = calls[<<a, i>>]
                BY <2>1, <3>1, <3>3
            <4> QED BY <2>5, <4>1 DEF Begun
        <3> QED BY <3>2, <3>3
    <2> QED BY <2>2, <2>5 DEF Begun
<1>8. ASSUME NEW n \in Node, Crash(n) \/ Start(n)
      PROVE  Begun'
    <2>1. UNCHANGED attempt
        BY <1>8 DEF Crash, Start, client
    <2>2. ASSUME NEW a \in Attempt, NEW i \in Pos, calls'[<<a, i>>] # NoCall
          PROVE  calls[<<a, i>>] # NoCall
        <3>1. <<a, i>> \in Leg
            BY DEF Leg
        <3>2. calls'[<<a, i>>] = calls[<<a, i>>] \/ calls[<<a, i>>].st = "open"
            BY <1>8, <3>1 DEF Crash, Start
        <3> QED BY <2>2, <3>2 DEF NoCall
    <2> QED BY <2>1, <2>2 DEF Begun
<1>9. CASE UNCHANGED vars
    BY <1>9 DEF vars, Begun
<1> QED BY <1>1, <1>2, <1>4, <1>5, <1>6, <1>7, <1>8, <1>9 DEF Next

\* A step that a caller does not see.
LEMMA Unseen ==
    ASSUME UNCHANGED <<attempt, executed, result>>
    PROVE  UNCHANGED Request!vars
BY DEF Request!vars, Outcome

\* An attempt that fails is the end, or a retry.
LEMMA FailRefines ==
    ASSUME NEW err, FailAttempt(err), result = "none"
    PROVE  Request!Next
<1>1. CASE attempt < MaxAttempts
    BY <1>1 DEF FailAttempt, Request!Next, Request!Retry, Outcome
<1>2. CASE ~(attempt < MaxAttempts)
    BY <1>2 DEF FailAttempt, Request!Next, Request!Fail, Outcome
<1> QED BY <1>1, <1>2

LEMMA NextRefines ==
    IInv /\ Reached /\ Story /\ Begun /\ [Next]_vars
        => [Request!Next]_(Request!vars)
<1> SUFFICES ASSUME IInv, Reached, Story, Begun, [Next]_vars
             PROVE  Request!Next \/ UNCHANGED Request!vars
    OBVIOUS
<1>0. pc # "done" => result = "none"
    BY DEF Story
<1>1. CASE GetCircuit \/ SetupAcked
    BY <1>1, Unseen DEF GetCircuit, SetupAcked
<1>2. CASE GetCircuitFails
    BY <1>0, <1>2 DEF GetCircuitFails, Request!Next, Request!Fail, Outcome
<1>3. CASE SetupFails \/ SendFails \/ SendTimesOut
    BY <1>0, <1>3, FailRefines DEF SetupFails, SendFails, SendTimesOut
<1>4. CASE ReceiveResponse
    <2>1. result = "none" /\ UNCHANGED <<attempt, executed>>
        BY <1>0, <1>4 DEF ReceiveResponse
    <2>2. attempt \in executed
        BY <1>4, PosFacts DEF ReceiveResponse, Reached, IInv, TypeOK
    <2>3. CASE result' = "ok"
        BY <2>1, <2>2, <2>3 DEF Request!Next, Request!Succeed, Outcome
    <2>4. CASE result' = "undecryptable"
        BY <2>1, <2>4 DEF Request!Next, Request!Fail, Outcome
    <2> QED BY <1>4, <2>3, <2>4 DEF ReceiveResponse
<1>5. ASSUME NEW leg \in Leg, Execute(leg)
      PROVE  Request!Next
    <2>1. PICK a \in Attempt, i \in Pos : leg = <<a, i>>
        BY DEF Leg
    <2>2. a \in 1..attempt
        BY <1>5, <2>1 DEF Execute, Begun, NoCall, Attempt, IInv, TypeOK
    <2>3. Request!Execute(a)
        BY <1>5, <2>1 DEF Execute, Request!Execute, Outcome, client
    <2> QED BY <2>2, <2>3 DEF Request!Next
<1>6. ASSUME NEW leg \in Leg,
             \/ HandleSetup(leg)
             \/ HandleUnknown(leg) \/ HandleRejected(leg) \/ HandleOpen(leg)
             \/ ForwardReply(leg) \/ ForwardFails(leg)
             \/ ExitReply(leg) \/ ExitFails(leg)
      PROVE  UNCHANGED Request!vars
    <2>1. UNCHANGED <<attempt, executed, result>>
        BY <1>6 DEF HandleSetup, HandleUnknown, HandleRejected, HandleOpen,
                    ForwardReply, ForwardFails, ExitReply, ExitFails, Answer, client
    <2> QED BY <2>1, Unseen
<1>7. ASSUME NEW n \in Node, Crash(n) \/ Start(n)
      PROVE  UNCHANGED Request!vars
    BY <1>7, Unseen DEF Crash, Start, client
<1>8. CASE UNCHANGED vars
    BY <1>8, Unseen DEF vars
<1> QED BY <1>1, <1>2, <1>3, <1>4, <1>5, <1>6, <1>7, <1>8 DEF Next

\* A caller may rely on OneRequest: although attempts share a circuit id and go
\* on at the nodes after they were given up, each is executed once at most and
\* only after it has begun, an answer is that of the attempt under way, and the
\* outcome stands.
THEOREM OneRequestImplemented == Spec => ImplementsOneRequest
<1>1. Init => Request!Init
    BY DEF Init, Request!Init, Outcome
<1> QED BY <1>1, InitReached, NextReached, InitStory, NextStory, InitBegun, NextBegun,
           NextRefines, Invariance, PTL DEF Spec, ImplementsOneRequest, Request!Spec

----------------------------------------------------------------------------
(* What is sent, and in which order.                                       *)

\* The hops of an attempt are set up one after the other; no attempt is ahead
\* of the client.
LessAhead ==
    /\ \A a \in Attempt, i \in Pos :
          setups[<<a, i>>] # "none" =>
             /\ a <= attempt
             /\ a = attempt => pc # "get" /\ (pc = "setup" => i <= hop)
    /\ pc = "setup" =>
          /\ \A i \in Pos : i < hop => setups[<<attempt, i>>] = "stored"
          /\ setups[<<attempt, hop>>] # "none"
          /\ calls[<<attempt, 1>>].st = "none"

\* A hop is called only after the guard, and that only after every hop has
\* acknowledged its key.
SentInOrder ==
    \A a \in Attempt :
       /\ \A i \in Pos : calls[<<a, i>>].st # "none" => calls[<<a, 1>>].st # "none"
       /\ calls[<<a, 1>>].st # "none" => \A i \in Pos : setups[<<a, i>>] = "stored"

\* A call is at its hop's node, and its payload points at those of the hops
\* to come.
AddressOK(a, i, call) ==
    call.st # "none" =>
       /\ call.node = circuit[a][i].node
       /\ \A j \in 1..(Hops - i) : call.payload[j].next = circuit[a][i + j].node

Addresses == \A a \in Attempt, i \in Pos : AddressOK(a, i, calls[<<a, i>>])

\* A node that has acknowledged a key and has not been restarted since has one.
KeysKept ==
    \A a \in Attempt, i \in Pos :
       /\ setups[<<a, i>>] = "stored"
       /\ circuit[a][i].node \in up
       /\ circuit[a][i].pair = pair[circuit[a][i].node]
       => keys[circuit[a][i].node] # None

\* The key of an attempt that was sent does not come back after that of a
\* later attempt: none of its setups is still on its way.
Fenced ==
    \A a, b \in Attempt, i \in Pos :
       /\ a < b /\ calls[<<a, 1>>].st # "none"
       /\ setups[<<b, i>>] = "stored"
       /\ circuit[b][i].node = circuit[a][i].node
       => keys[circuit[a][i].node] # <<a, i>>

Order == LessAhead /\ SentInOrder

\* How the setup of a hop changes in a step.
SetupStep(a, i) ==
    \/ setups'[<<a, i>>] = setups[<<a, i>>]
    \/ HandleSetup(<<a, i>>)
    \/ a = attempt /\ setups'[<<a, i>>] = "sent" /\ GetCircuit /\ i = 1
    \/ a = attempt /\ setups'[<<a, i>>] = "sent" /\ SetupAcked /\ hop < Hops /\ i = hop + 1

LEMMA SetupSteps ==
    ASSUME IInv, [Next]_vars, NEW a \in Attempt, NEW i \in Pos
    PROVE  SetupStep(a, i)
<1>0. <<a, i>> \in Leg /\ attempt \in Attempt
    BY DEF Leg, IInv, TypeOK
<1>1. CASE GetCircuit
    <2>1. setups' = [setups EXCEPT ![<<attempt, 1>>] = "sent"]
        BY <1>1 DEF GetCircuit
    <2> QED BY <1>0, <1>1, <2>1 DEF SetupStep, IInv, TypeOK
<1>2. CASE SetupAcked
    <2>1. CASE hop < Hops
        <3>1. setups' = [setups EXCEPT ![<<attempt, hop + 1>>] = "sent"]
            BY <1>2, <2>1 DEF SetupAcked
        <3> QED BY <1>0, <1>2, <2>1, <3>1 DEF SetupStep, IInv, TypeOK
    <2>2. CASE ~(hop < Hops)
        BY <1>2, <2>2 DEF SetupAcked, SetupStep
    <2> QED BY <2>1, <2>2
<1>3. ASSUME NEW leg \in Leg, HandleSetup(leg)
      PROVE  SetupStep(a, i)
    <2>1. CASE leg = <<a, i>>
        BY <1>3, <2>1 DEF SetupStep
    <2>2. CASE leg # <<a, i>>
        <3>1. \E st : setups' = [setups EXCEPT ![leg] = st]
            BY <1>3 DEF HandleSetup
        <3> QED BY <1>0, <2>2, <3>1 DEF SetupStep, IInv, TypeOK
    <2> QED BY <2>1, <2>2
<1>4. CASE GetCircuitFails \/ SetupFails \/ SendFails \/ SendTimesOut \/ ReceiveResponse
    BY <1>4 DEF GetCircuitFails, SetupFails, SendFails, SendTimesOut, ReceiveResponse,
                FailAttempt, SetupStep
<1>5. ASSUME NEW leg \in Leg,
             \/ HandleUnknown(leg) \/ HandleRejected(leg) \/ HandleOpen(leg)
             \/ ForwardReply(leg) \/ ForwardFails(leg)
             \/ Execute(leg) \/ ExitReply(leg) \/ ExitFails(leg)
      PROVE  SetupStep(a, i)
    BY <1>5 DEF HandleUnknown, HandleRejected, HandleOpen, ForwardReply, ForwardFails,
                Execute, ExitReply, ExitFails, Answer, SetupStep
<1>6. ASSUME NEW n \in Node, Crash(n) \/ Start(n)
      PROVE  SetupStep(a, i)
    BY <1>6 DEF Crash, Start, SetupStep
<1>7. CASE UNCHANGED vars
    BY <1>7 DEF vars, SetupStep
<1> QED BY <1>1, <1>2, <1>3, <1>4, <1>5, <1>6, <1>7 DEF Next

\* How a call changes in a step.
Onion(a) == Sent(circuit[a][1].node, BuildOnion(a, circuit[a]))
Forwarded(call) == Sent(Head(call.payload).next, Tail(call.payload))

CallStep(a, i) ==
    \/ calls'[<<a, i>>] = calls[<<a, i>>]
    \/ /\ calls[<<a, i>>].st # "none" /\ calls'[<<a, i>>].st # "none"
       /\ calls'[<<a, i>>].node = calls[<<a, i>>].node
       /\ calls'[<<a, i>>].payload = calls[<<a, i>>].payload
       /\ calls'[<<a, i>>].st = "unknown" => HandleUnknown(<<a, i>>)
       /\ calls'[<<a, i>>].st = "open" => HandleOpen(<<a, i>>)
    \/ /\ i = 1 /\ a = attempt /\ SetupAcked /\ hop = Hops
       /\ calls'[<<a, i>>] = Onion(a)
    \/ /\ i - 1 \in Pos /\ HandleOpen(<<a, i - 1>>)
       /\ calls'[<<a, i>>] = Forwarded(calls[<<a, i - 1>>])

LEMMA AnswerCallSteps ==
    ASSUME IInv, NEW leg \in Leg, NEW st \in {"ok"} \cup Errors, NEW reply,
           calls[leg].st # "none", Answer(leg, st, reply),
           st = "unknown" => HandleUnknown(leg),
           NEW a \in Attempt, NEW i \in Pos
    PROVE  CallStep(a, i)
<1>1. <<a, i>> \in Leg
    BY DEF Leg
<1>2. calls' = [calls EXCEPT ![leg] = Answered(calls[leg], st, reply)]
    BY DEF Answer
<1>3. CASE leg = <<a, i>>
    <2>1. calls'[<<a, i>>] = Answered(calls[<<a, i>>], st, reply)
        BY <1>1, <1>2, <1>3 DEF IInv, TypeOK
    <2> QED BY <1>3, <2>1 DEF Answered, CallStep, Errors
<1>4. CASE leg # <<a, i>>
    BY <1>1, <1>2, <1>4 DEF IInv, TypeOK, CallStep
<1> QED BY <1>3, <1>4

LEMMA CallSteps ==
    ASSUME IInv, [Next]_vars, NEW a \in Attempt, NEW i \in Pos
    PROVE  CallStep(a, i)
<1>0. <<a, i>> \in Leg /\ attempt \in Attempt /\ hop \in Pos
    BY DEF Leg, IInv, TypeOK
<1>1. CASE SetupAcked
    <2>1. CASE hop < Hops
        BY <1>1, <2>1 DEF SetupAcked, CallStep
    <2>2. CASE ~(hop < Hops)
        <3> DEFINE call == Onion(attempt)
        <3>1. calls' = [calls EXCEPT ![<<attempt, 1>>] = call]
            BY <1>1, <2>2 DEF SetupAcked, Onion
        <3>2. hop = Hops
            BY <1>0, <2>2, PosFacts
        <3> HIDE DEF call
        <3>3. calls'[<<a, i>>] = calls[<<a, i>>]
              \/ (i = 1 /\ a = attempt /\ calls'[<<a, i>>] = call)
            BY <1>0, <3>1 DEF IInv, TypeOK
        <3> QED BY <1>1, <3>2, <3>3 DEF CallStep, call
    <2> QED BY <2>1, <2>2
<1>2. ASSUME NEW leg \in Leg, HandleOpen(leg)
      PROVE  CallStep(a, i)
    <2> DEFINE mine == Opened(calls[leg], keys[calls[leg].node])
               next == Forwarded(calls[leg])
    <2>1. calls' = [m \in Leg |-> CASE m = leg -> mine
                                    [] m = Inner(leg) -> next
                                    [] OTHER -> calls[m]]
        BY <1>2 DEF HandleOpen, Forwarded
    <2>2. calls[leg].st = "sent"
        BY <1>2 DEF HandleOpen
    <2>3. mine.st = "open" /\ mine.node = calls[leg].node
          /\ mine.payload = calls[leg].payload
        BY DEF Opened
    <2> HIDE DEF mine, next
    <2>4. PICK b \in Attempt, j \in Pos : leg = <<b, j>>
        BY DEF Leg
    <2>5. CASE leg = <<a, i>>
        <3>1. calls'[<<a, i>>] = mine
            <4>1. leg # Inner(leg)
                BY <2>4, PosFacts DEF Inner
            <4>2. calls'[leg] = mine
                BY <2>1, <4>1
            <4> QED BY <2>5, <4>2, Zenon
        <3>2. mine.st # "none" /\ mine.st # "unknown"
            BY <2>3
        <3> QED BY <1>2, <2>2, <2>3, <2>5, <3>1, <3>2 DEF CallStep
    <2>6. CASE leg # <<a, i>> /\ <<a, i>> = Inner(leg)
        <3>1. calls'[<<a, i>>] = next
            BY <1>0, <2>1, <2>6
        <3>2. b = a /\ i = j + 1
            BY <2>4, <2>6 DEF Inner
        <3>3. j = i - 1
            BY <3>2, PosFacts
        <3> QED BY <1>2, <2>4, <3>1, <3>2, <3>3 DEF CallStep, next
    <2>7. CASE leg # <<a, i>> /\ <<a, i>> # Inner(leg)
        <3>1. calls'[<<a, i>>] = calls[<<a, i>>]
            BY <1>0, <2>1, <2>7
        <3> QED BY <3>1 DEF CallStep
    <2> QED BY <2>5, <2>6, <2>7
<1>3. ASSUME NEW leg \in Leg,
             \/ HandleUnknown(leg) \/ HandleRejected(leg)
             \/ ForwardReply(leg) \/ ForwardFails(leg)
             \/ ExitReply(leg) \/ ExitFails(leg)
      PROVE  CallStep(a, i)
    <2>1. calls[leg].st # "none"
        BY <1>3 DEF HandleUnknown, HandleRejected, ForwardReply, ForwardFails,
                    ExitReply, ExitFails, Running
    <2>2. \E st \in {"ok"} \cup Errors : \E reply :
             Answer(leg, st, reply) /\ (st = "unknown" => HandleUnknown(leg))
        BY <1>3 DEF HandleUnknown, HandleRejected, ForwardReply, ForwardFails,
                    ExitReply, ExitFails, Errors
    <2> QED BY <2>1, <2>2, AnswerCallSteps
<1>4. ASSUME NEW leg \in Leg, HandleSetup(leg) \/ Execute(leg)
      PROVE  CallStep(a, i)
    BY <1>4 DEF HandleSetup, Execute, CallStep
<1>5. CASE \/ GetCircuit \/ GetCircuitFails \/ SetupFails
           \/ SendFails \/ SendTimesOut \/ ReceiveResponse
    BY <1>5 DEF GetCircuit, GetCircuitFails, SetupFails, SendFails, SendTimesOut,
                ReceiveResponse, FailAttempt, CallStep
<1>6. ASSUME NEW n \in Node, Crash(n)
      PROVE  CallStep(a, i)
    <2>1. calls'[<<a, i>>] = calls[<<a, i>>]
          \/ (calls[<<a, i>>].st = "open"
              /\ calls'[<<a, i>>] = Answered(calls[<<a, i>>], "dead", <<>>))
        BY <1>0, <1>6 DEF Crash
    <2> QED BY <2>1 DEF Answered, CallStep
<1>7. ASSUME NEW n \in Node, Start(n)
      PROVE  CallStep(a, i)
    BY <1>7 DEF Start, CallStep
<1>8. CASE UNCHANGED vars
    BY <1>8 DEF vars, CallStep
<1> QED BY <1>1, <1>2, <1>3, <1>4, <1>5, <1>6, <1>7, <1>8 DEF Next

LEMMA InitOrder == Init => Order
<1> SUFFICES ASSUME Init PROVE Order
    OBVIOUS
<1>1. \A a \in Attempt, i \in Pos : setups[<<a, i>>] = "none" /\ calls[<<a, i>>] = NoCall
    BY DEF Init, Leg
<1>2. \A a \in Attempt, i \in Pos : calls[<<a, i>>].st = "none"
    <2>1. NoCall.st = "none"
        BY DEF NoCall
    <2> QED BY <1>1, <2>1
<1>3. pc = "get"
    BY DEF Init
<1>4. 1 \in Pos
    BY PosFacts
<1> QED BY <1>1, <1>2, <1>3, <1>4 DEF Order, LessAhead, SentInOrder

\* The client moves: where it is, next to where it was.
ClientStep ==
    \/ UNCHANGED <<pc, attempt, hop>>
    \/ GetCircuit \/ SetupAcked
    \/ pc' = "done" /\ UNCHANGED <<attempt, hop>>
    \/ pc' = "get" /\ attempt' = attempt + 1

LEMMA ClientMoves == [Next]_vars => ClientStep
<1> SUFFICES ASSUME [Next]_vars PROVE ClientStep
    OBVIOUS
<1>1. CASE GetCircuit \/ GetCircuitFails \/ SetupAcked \/ ReceiveResponse
    BY <1>1 DEF GetCircuitFails, ReceiveResponse, ClientStep
<1>2. CASE SetupFails \/ SendFails \/ SendTimesOut
    <2>1. \E err : FailAttempt(err)
        BY <1>2 DEF SetupFails, SendFails, SendTimesOut
    <2> QED BY <2>1 DEF FailAttempt, ClientStep
<1>3. ASSUME NEW leg \in Leg,
             \/ HandleSetup(leg)
             \/ HandleUnknown(leg) \/ HandleRejected(leg) \/ HandleOpen(leg)
             \/ ForwardReply(leg) \/ ForwardFails(leg)
             \/ Execute(leg) \/ ExitReply(leg) \/ ExitFails(leg)
      PROVE  ClientStep
    BY <1>3 DEF HandleSetup, HandleUnknown, HandleRejected, HandleOpen, ForwardReply,
                ForwardFails, Execute, ExitReply, ExitFails, Answer, client, ClientStep
<1>4. ASSUME NEW n \in Node, Crash(n) \/ Start(n)
      PROVE  ClientStep
    BY <1>4 DEF Crash, Start, client, ClientStep
<1>5. CASE UNCHANGED vars
    BY <1>5 DEF vars, ClientStep
<1> QED BY <1>1, <1>2, <1>3, <1>4, <1>5 DEF Next

\* A setup that was sent stays sent, and one that is stored stays stored.
LEMMA SetupsStay ==
    ASSUME IInv, Order, [Next]_vars, NEW a \in Attempt, NEW i \in Pos
    PROVE  /\ setups[<<a, i>>] # "none" => setups'[<<a, i>>] # "none"
           /\ setups[<<a, i>>] = "stored" => setups'[<<a, i>>] = "stored"
           /\ setups'[<<a, i>>] # "none" =>
                \/ setups[<<a, i>>] # "none"
                \/ a = attempt /\ GetCircuit /\ i = 1
                \/ a = attempt /\ SetupAcked /\ hop < Hops /\ i = hop + 1
<1>1. attempt \in Attempt /\ hop \in Pos /\ attempt \in Nat /\ hop \in Nat
    BY PosFacts DEF IInv, TypeOK, Attempt
<1>2. <<a, i>> \in Leg
    BY DEF Leg
<1>3. SetupStep(a, i)
    BY SetupSteps
<1>4. CASE HandleSetup(<<a, i>>)
    <2>1. setups[<<a, i>>] = "sent" /\ setups'[<<a, i>>] \in {"stored", "refused"}
        BY <1>2, <1>4 DEF HandleSetup, IInv, TypeOK
    <2> QED BY <2>1
<1>5. CASE a = attempt /\ GetCircuit /\ i = 1 /\ setups'[<<a, i>>] = "sent"
    <2>1. setups[<<a, i>>] = "none"
        BY <1>5 DEF GetCircuit, Order, LessAhead
    <2> QED BY <1>5, <2>1
<1>6. CASE a = attempt /\ SetupAcked /\ hop < Hops /\ i = hop + 1 /\ setups'[<<a, i>>] = "sent"
    <2>1. setups[<<a, i>>] = "none"
        BY <1>1, <1>6 DEF SetupAcked, Order, LessAhead
    <2> QED BY <1>6, <2>1
<1> QED BY <1>3, <1>4, <1>5, <1>6 DEF SetupStep

\* A call begins when the client sends it, or when the hop before forwards it.
LEMMA CallsBegin ==
    ASSUME IInv, [Next]_vars, NEW a \in Attempt, NEW i \in Pos
    PROVE  /\ calls[<<a, i>>].st # "none" => calls'[<<a, i>>].st # "none"
           /\ calls'[<<a, i>>].st # "none" =>
                \/ calls[<<a, i>>].st # "none"
                \/ i = 1 /\ a = attempt /\ SetupAcked /\ hop = Hops
                \/ i # 1 /\ i - 1 \in Pos /\ calls[<<a, i - 1>>].st # "none"
<1>1. CallStep(a, i)
    BY CallSteps
<1>2. Onion(a).st = "sent"
    BY DEF Onion, Sent
<1>3. i - 1 \in Pos => i # 1 /\ Forwarded(calls[<<a, i - 1>>]).st = "sent"
    BY PosFacts DEF Forwarded, Sent
<1>4. HandleOpen(<<a, i - 1>>) => calls[<<a, i - 1>>].st = "sent"
    BY DEF HandleOpen
<1> QED BY <1>1, <1>2, <1>3, <1>4 DEF CallStep

LEMMA NextOrder == IInv /\ Order /\ [Next]_vars => Order'
<1> SUFFICES ASSUME IInv, Order, [Next]_vars PROVE Order'
    OBVIOUS
<1>0. /\ attempt \in Attempt /\ hop \in Pos /\ 1 \in Pos
      /\ attempt \in Nat /\ hop \in Nat /\ Hops \in Nat /\ 1 <= hop /\ hop <= Hops
      /\ \A a \in Attempt : a \in Nat
      /\ \A i \in Pos : i \in Nat /\ 1 <= i /\ i <= Hops
    BY PosFacts DEF IInv, TypeOK, Attempt
<1>1. ClientStep
    BY ClientMoves
<1>2. ASSUME NEW a \in Attempt, NEW i \in Pos, setups'[<<a, i>>] # "none"
      PROVE  a <= attempt' /\ (a = attempt' => pc' # "get" /\ (pc' = "setup" => i <= hop'))
    <2>1. CASE GetCircuit
        <3>1. pc = "get" /\ pc' = "setup" /\ hop' = 1 /\ attempt' = attempt
            BY <2>1 DEF GetCircuit
        <3>2. ~SetupAcked
            BY <3>1 DEF SetupAcked
        <3>3. setups[<<a, i>>] # "none" \/ (a = attempt /\ i = 1)
            BY <1>2, <3>2, SetupsStay
        <3> QED BY <1>0, <3>1, <3>3 DEF Order, LessAhead
    <2>2. CASE SetupAcked
        <3>1. pc = "setup" /\ attempt' = attempt
              /\ (hop < Hops => hop' = hop + 1 /\ pc' = "setup")
              /\ (~(hop < Hops) => pc' = "wait")
            BY <2>2 DEF SetupAcked
        <3>2. ~GetCircuit
            BY <3>1 DEF GetCircuit
        <3>3. setups[<<a, i>>] # "none" \/ (a = attempt /\ i = hop + 1)
            BY <1>2, <3>2, SetupsStay
        <3> QED BY <1>0, <3>1, <3>3 DEF Order, LessAhead
    <2>3. CASE ~GetCircuit /\ ~SetupAcked
        <3>1. setups[<<a, i>>] # "none"
            BY <1>2, <2>3, SetupsStay
        <3> QED BY <1>0, <1>1, <2>3, <3>1 DEF Order, LessAhead, ClientStep
    <2> QED BY <2>1, <2>2, <2>3
<1>3. ASSUME NEW a \in Attempt
      PROVE  /\ \A i \in Pos : calls'[<<a, i>>].st # "none" => calls'[<<a, 1>>].st # "none"
             /\ calls'[<<a, 1>>].st # "none" => \A i \in Pos : setups'[<<a, i>>] = "stored"
    <2>1. ASSUME NEW i \in Pos, calls'[<<a, i>>].st # "none"
          PROVE  calls'[<<a, 1>>].st # "none"
        <3>1. \/ i = 1 \/ calls[<<a, i>>].st # "none"
              \/ i - 1 \in Pos /\ calls[<<a, i - 1>>].st # "none"
            BY <2>1, CallsBegin
        <3>2. CASE i = 1
            BY <2>1, <3>2
        <3>3. CASE i # 1
            <4>1. calls[<<a, 1>>].st # "none"
                BY <3>1, <3>3 DEF Order, SentInOrder
            <4> QED BY <1>0, <4>1, CallsBegin
        <3> QED BY <3>2, <3>3
    <2>2. ASSUME NEW i \in Pos, calls'[<<a, 1>>].st # "none"
          PROVE  setups'[<<a, i>>] = "stored"
        <3>1. calls[<<a, 1>>].st # "none" \/ (a = attempt /\ SetupAcked /\ hop = Hops)
            BY <1>0, <2>2, CallsBegin
        <3>2. setups[<<a, i>>] = "stored"
            <4>1. CASE calls[<<a, 1>>].st # "none"
                BY <4>1 DEF Order, SentInOrder
            <4>2. CASE a = attempt /\ SetupAcked /\ hop = Hops
                <5>1. pc = "setup" /\ setups[<<attempt, hop>>] = "stored"
                    BY <4>2 DEF SetupAcked
                <5>2. i < hop \/ i = hop
                    BY <1>0, <4>2
                <5> QED BY <4>2, <5>1, <5>2 DEF Order, LessAhead
            <4> QED BY <3>1, <4>1, <4>2
        <3> QED BY <3>2, SetupsStay
    <2> QED BY <2>1, <2>2
<1>4. ASSUME pc' = "setup"
      PROVE  /\ \A i \in Pos : i < hop' => setups'[<<attempt', i>>] = "stored"
             /\ setups'[<<attempt', hop'>>] # "none"
             /\ calls'[<<attempt', 1>>].st = "none"
    <2>1. CASE GetCircuit
        <3>1. pc = "get" /\ hop' = 1 /\ attempt' = attempt /\ calls' = calls
              /\ setups' = [setups EXCEPT ![<<attempt, 1>>] = "sent"]
            BY <2>1 DEF GetCircuit
        <3>2. setups[<<attempt, 1>>] = "none"
            BY <1>0, <3>1 DEF Order, LessAhead
        <3>3. calls[<<attempt, 1>>].st = "none"
            BY <1>0, <3>2 DEF Order, SentInOrder
        <3>4. setups'[<<attempt, 1>>] = "sent"
            BY <1>0, <3>1 DEF IInv, TypeOK, Leg
        <3> QED BY <1>0, <3>1, <3>3, <3>4
    <2>2. CASE SetupAcked
        <3>1. /\ pc = "setup" /\ attempt' = attempt
              /\ setups[<<attempt, hop>>] = "stored"
              /\ hop < Hops /\ hop' = hop + 1
              /\ setups' = [setups EXCEPT ![<<attempt, hop + 1>>] = "sent"]
              /\ calls' = calls
            BY <1>4, <2>2 DEF SetupAcked
        <3>2. ASSUME NEW i \in Pos, i < hop'
              PROVE  setups'[<<attempt, i>>] = "stored"
            <4>1. i < hop \/ i = hop
                BY <1>0, <3>1, <3>2
            <4>2. setups[<<attempt, i>>] = "stored"
                BY <3>1, <4>1 DEF Order, LessAhead
            <4> QED BY <1>0, <4>2, SetupsStay
        <3>3. hop + 1 \in Pos
            BY <1>0, <3>1 DEF Pos
        <3>4. setups'[<<attempt, hop + 1>>] = "sent"
            BY <1>0, <3>1, <3>3 DEF IInv, TypeOK, Leg
        <3> QED BY <3>1, <3>2, <3>4 DEF Order, LessAhead
    <2>3. CASE ~GetCircuit /\ ~SetupAcked
        <3>1. pc = "setup" /\ attempt' = attempt /\ hop' = hop
            BY <1>1, <1>4, <2>3 DEF ClientStep
        <3>2. \A i \in Pos : i < hop => setups'[<<attempt, i>>] = "stored"
            BY <1>0, <3>1, SetupsStay DEF Order, LessAhead
        <3>3. setups'[<<attempt, hop>>] # "none"
            BY <1>0, <3>1, SetupsStay DEF Order, LessAhead
        <3>4. calls'[<<attempt, 1>>].st = "none"
            BY <1>0, <2>3, <3>1, CallsBegin DEF Order, LessAhead
        <3> QED BY <3>1, <3>2, <3>3, <3>4
    <2> QED BY <2>1, <2>2, <2>3
<1>5. LessAhead'
    BY <1>2, <1>4 DEF LessAhead
<1>6. SentInOrder'
    BY <1>3 DEF SentInOrder
<1> QED BY <1>5, <1>6 DEF Order

\* A circuit some hop of which was called is not replaced.
LEMMA CircuitStays ==
    ASSUME IInv, Order, [Next]_vars, NEW a \in Attempt, NEW i \in Pos,
           setups[<<a, i>>] # "none"
    PROVE  /\ circuit'[a] = circuit[a]
           /\ \A j \in Pos : circuit[a][j] \in Record
<1>1. <<a, i>> \in Leg /\ <<a, i>>[1] = a
    BY DEF Leg
<1>2. circuit[a] \in [Pos -> Record]
    BY <1>1 DEF IInv, Fetched
<1>3. CASE GetCircuit
    <2>1. a # attempt
        BY <1>3 DEF GetCircuit, Order, LessAhead
    <2>2. \E c : circuit' = [circuit EXCEPT ![attempt] = c]
        BY <1>3 DEF GetCircuit
    <2> QED BY <1>2, <2>1, <2>2 DEF IInv, TypeOK
<1>4. CASE ~GetCircuit
    <2>1. UNCHANGED circuit
        <3>1. CASE \/ GetCircuitFails \/ SetupAcked \/ SetupFails
                   \/ SendFails \/ SendTimesOut \/ ReceiveResponse
            BY <3>1 DEF GetCircuitFails, SetupAcked, SetupFails, SendFails, SendTimesOut,
                        ReceiveResponse, FailAttempt
        <3>2. ASSUME NEW leg \in Leg,
                     \/ HandleSetup(leg)
                     \/ HandleUnknown(leg) \/ HandleRejected(leg) \/ HandleOpen(leg)
                     \/ ForwardReply(leg) \/ ForwardFails(leg)
                     \/ Execute(leg) \/ ExitReply(leg) \/ ExitFails(leg)
              PROVE  UNCHANGED circuit
            BY <3>2 DEF HandleSetup, HandleUnknown, HandleRejected, HandleOpen,
                        ForwardReply, ForwardFails, Execute, ExitReply, ExitFails,
                        Answer, client
        <3>3. ASSUME NEW n \in Node, Crash(n) \/ Start(n)
              PROVE  UNCHANGED circuit
            BY <3>3 DEF Crash, Start, client
        <3>4. CASE UNCHANGED vars
            BY <3>4 DEF vars
        <3> QED BY <1>4, <3>1, <3>2, <3>3, <3>4 DEF Next
    <2> QED BY <1>2, <2>1
<1> QED BY <1>2, <1>3, <1>4

\* How a node changes in a step.
NodeStep(n) ==
    \/ keys'[n] = keys[n] /\ pair'[n] = pair[n] /\ (n \in up' <=> n \in up)
    \/ keys'[n] = None /\ pair'[n] = pair[n] /\ n \notin up'
    \/ keys'[n] = keys[n] /\ pair'[n] = pair[n] + 1 /\ n \notin up
    \/ /\ pair'[n] = pair[n] /\ (n \in up' <=> n \in up)
       /\ \E leg \in Leg : HandleSetup(leg) /\ keys'[n] = leg

LEMMA NodeMoves ==
    ASSUME IInv, [Next]_vars, NEW n \in Node
    PROVE  NodeStep(n)
<1>1. CASE \/ GetCircuit \/ GetCircuitFails \/ SetupAcked \/ SetupFails
           \/ SendFails \/ SendTimesOut \/ ReceiveResponse
    BY <1>1 DEF GetCircuit, GetCircuitFails, SetupAcked, SetupFails, SendFails,
                SendTimesOut, ReceiveResponse, FailAttempt, process, NodeStep
<1>2. ASSUME NEW leg \in Leg, HandleSetup(leg)
      PROVE  NodeStep(n)
    <2> DEFINE m == circuit[leg[1]][leg[2]].node
    <2>1. UNCHANGED process
        BY <1>2 DEF HandleSetup
    <2>2. keys' = keys \/ keys' = [keys EXCEPT ![m] = leg]
        BY <1>2 DEF HandleSetup, Store
    <2> HIDE DEF m
    <2>3. keys'[n] = keys[n] \/ keys'[n] = leg
        BY <2>2 DEF IInv, TypeOK
    <2> QED BY <1>2, <2>1, <2>3 DEF process, NodeStep
<1>3. ASSUME NEW leg \in Leg,
             \/ HandleUnknown(leg) \/ HandleRejected(leg) \/ HandleOpen(leg)
             \/ ForwardReply(leg) \/ ForwardFails(leg)
             \/ Execute(leg) \/ ExitReply(leg) \/ ExitFails(leg)
      PROVE  NodeStep(n)
    BY <1>3 DEF HandleUnknown, HandleRejected, HandleOpen, ForwardReply, ForwardFails,
                Execute, ExitReply, ExitFails, Answer, process, NodeStep
<1>4. ASSUME NEW m \in Node, Crash(m)
      PROVE  NodeStep(n)
    BY <1>4 DEF Crash, NodeStep, IInv, TypeOK
<1>5. ASSUME NEW m \in Node, Start(m)
      PROVE  NodeStep(n)
    BY <1>5 DEF Start, NodeStep, IInv, TypeOK
<1>6. CASE UNCHANGED vars
    BY <1>6 DEF vars, NodeStep
<1> QED BY <1>1, <1>2, <1>3, <1>4, <1>5, <1>6 DEF Next

LEMMA InitAddresses == Init => Addresses
<1> SUFFICES ASSUME Init, NEW a \in Attempt, NEW i \in Pos
             PROVE  calls[<<a, i>>].st = "none"
    BY DEF Addresses, AddressOK
<1>1. calls[<<a, i>>] = NoCall
    BY DEF Init, Leg
<1> QED BY <1>1 DEF NoCall

LEMMA NextAddresses == IInv /\ Order /\ Addresses /\ [Next]_vars => Addresses'
<1> SUFFICES ASSUME IInv, Order, Addresses, [Next]_vars,
                    NEW a \in Attempt, NEW i \in Pos, calls'[<<a, i>>].st # "none"
             PROVE  /\ calls'[<<a, i>>].node = circuit'[a][i].node
                    /\ \A j \in 1..(Hops - i) :
                          calls'[<<a, i>>].payload[j].next = circuit'[a][i + j].node
    BY DEF Addresses, AddressOK
<1>0. i \in Nat /\ 1 <= i /\ i <= Hops /\ Hops \in Nat /\ 1 \in Pos
    BY PosFacts
<1>1. CASE calls[<<a, i>>].st # "none" /\ calls'[<<a, i>>].node = calls[<<a, i>>].node
           /\ calls'[<<a, i>>].payload = calls[<<a, i>>].payload
    <2>1. setups[<<a, 1>>] = "stored"
        BY <1>0, <1>1 DEF Order, SentInOrder
    <2>2. circuit'[a] = circuit[a]
        BY <1>0, <2>1, CircuitStays
    <2> QED BY <1>1, <2>2 DEF Addresses, AddressOK
<1>2. CASE i = 1 /\ a = attempt /\ SetupAcked /\ calls'[<<a, i>>] = Onion(a)
    <2>1. UNCHANGED circuit
        BY <1>2 DEF SetupAcked
    <2>2. Onion(a).node = circuit[a][1].node /\ Onion(a).payload = BuildOnion(a, circuit[a])
        BY DEF Onion, Sent
    <2>3. ASSUME NEW j \in 1..(Hops - 1)
          PROVE  BuildOnion(a, circuit[a])[j].next = circuit[a][1 + j].node
        <3>1. j \in Pos /\ j # Hops /\ 1 + j = j + 1
            BY <1>0 DEF Pos
        <3> QED BY <3>1 DEF BuildOnion
    <2> QED BY <1>2, <2>1, <2>2, <2>3
<1>3. CASE i - 1 \in Pos /\ HandleOpen(<<a, i - 1>>)
           /\ calls'[<<a, i>>] = Forwarded(calls[<<a, i - 1>>])
    <2> DEFINE call == calls[<<a, i - 1>>]
               s == call.payload
    <2>1. call.st = "sent" /\ <<a, i - 1>> \in Leg
        BY <1>3 DEF HandleOpen, Leg
    <2>2. UNCHANGED circuit
        BY <1>3 DEF HandleOpen, client
    <2>3. s \in Seq(Layer) /\ Len(s) = Hops - i + 2
        <3>1. call \in Call /\ LegOK(a, i - 1, call)
            BY <1>3, <2>1 DEF IInv, TypeOK, Legs
        <3>2. Depth(i - 1) = Hops - i + 2
            BY <1>0 DEF Depth
        <3> QED BY <2>1, <3>1, <3>2 DEF LegOK, Call, RequestLayers
    <2>4. \A j \in 1..(Hops - (i - 1)) : s[j].next = circuit[a][i - 1 + j].node
        BY <1>3, <2>1 DEF Addresses, AddressOK
    <2>5. Forwarded(call).node = Head(s).next /\ Forwarded(call).payload = Tail(s)
        BY DEF Forwarded, Sent
    <2> HIDE DEF call, s
    <2>6. Head(s) = s[1] /\ \A j \in 1..(Hops - i) : Tail(s)[j] = s[j + 1]
        BY <1>0, <2>3
    <2>7. 1 \in 1..(Hops - (i - 1)) /\ i - 1 + 1 = i
        BY <1>0
    <2>8. Head(s).next = circuit[a][i].node
        BY <2>4, <2>6, <2>7
    <2>9. ASSUME NEW j \in 1..(Hops - i)
          PROVE  Tail(s)[j].next = circuit[a][i + j].node
        <3>1. j + 1 \in 1..(Hops - (i - 1)) /\ i - 1 + (j + 1) = i + j
            BY <1>0
        <3>2. s[j + 1].next = circuit[a][i - 1 + (j + 1)].node
            BY <2>4, <3>1
        <3> QED BY <2>6, <3>1, <3>2
    <2>10. calls'[<<a, i>>] = Forwarded(call)
        BY <1>3 DEF call
    <2> QED BY <2>2, <2>5, <2>8, <2>9, <2>10
<1>4. CallStep(a, i)
    BY CallSteps
<1>5. CASE calls'[<<a, i>>] = calls[<<a, i>>]
    BY <1>1, <1>5
<1> QED BY <1>1, <1>2, <1>3, <1>4, <1>5 DEF CallStep

\* The key pair a circuit names is not newer than the node's.
PairsKnown ==
    \A a \in Attempt, i, j \in Pos :
       setups[<<a, j>>] # "none" => circuit[a][i].pair <= pair[circuit[a][i].node]

LEMMA NextPairs == IInv /\ Order /\ PairsKnown /\ [Next]_vars => PairsKnown'
<1> SUFFICES ASSUME IInv, Order, PairsKnown, [Next]_vars,
                    NEW a \in Attempt, NEW i \in Pos, NEW j \in Pos,
                    setups'[<<a, j>>] # "none"
             PROVE  circuit'[a][i].pair <= pair'[circuit'[a][i].node]
    BY DEF PairsKnown
<1>1. CASE \E k \in Pos : setups[<<a, k>>] # "none"
    <2>1. circuit'[a] = circuit[a] /\ circuit[a][i] \in Record
        BY <1>1, CircuitStays
    <2>2. circuit[a][i].node \in Node /\ circuit[a][i].pair \in Nat
        BY <2>1 DEF Record
    <2>3. circuit[a][i].pair <= pair[circuit[a][i].node]
        BY <1>1 DEF PairsKnown
    <2>4. NodeStep(circuit[a][i].node)
        BY <2>2, NodeMoves
    <2> QED BY <2>1, <2>2, <2>3, <2>4 DEF NodeStep, IInv, TypeOK
<1>2. CASE a = attempt /\ GetCircuit
    <2>1. UNCHANGED pair
        BY <1>2 DEF GetCircuit, process
    <2>2. PICK c : /\ \A k \in Pos : c[k].pair <= pair[c[k].node]
                   /\ circuit' = [circuit EXCEPT ![attempt] = c]
        BY <1>2 DEF GetCircuit
    <2>3. circuit'[a] = c
        BY <1>2, <2>2 DEF IInv, TypeOK
    <2> QED BY <2>1, <2>2, <2>3
<1>3. CASE a = attempt /\ SetupAcked
    <2>1. hop \in Pos /\ setups[<<a, hop>>] # "none"
        BY <1>3 DEF SetupAcked, IInv, TypeOK
    <2> QED BY <1>1, <2>1
<1>4. setups[<<a, j>>] # "none" \/ (a = attempt /\ GetCircuit) \/ (a = attempt /\ SetupAcked)
    BY SetupsStay
<1> QED BY <1>1, <1>2, <1>3, <1>4

LEMMA NextKeysKept ==
    IInv /\ Order /\ PairsKnown /\ KeysKept /\ [Next]_vars => KeysKept'
<1> SUFFICES ASSUME IInv, Order, PairsKnown, KeysKept, [Next]_vars,
                    NEW a \in Attempt, NEW i \in Pos,
                    setups'[<<a, i>>] = "stored",
                    circuit'[a][i].node \in up',
                    circuit'[a][i].pair = pair'[circuit'[a][i].node]
             PROVE  keys'[circuit'[a][i].node] # None
    BY DEF KeysKept
<1> DEFINE n == circuit[a][i].node
<1>0. \A leg \in Leg : leg # None
    BY NodeAssumption
<1>1. setups[<<a, i>>] = "stored" \/ HandleSetup(<<a, i>>)
    BY SetupSteps DEF SetupStep
<1>2. setups[<<a, i>>] # "none"
    BY <1>1 DEF HandleSetup
<1>3. circuit'[a] = circuit[a] /\ n \in Node /\ circuit[a][i].pair \in Nat
    BY <1>2, CircuitStays DEF Record
<1>4. CASE HandleSetup(<<a, i>>)
    <2>1. <<a, i>> \in Leg /\ <<a, i>>[1] = a /\ <<a, i>>[2] = i
        BY DEF Leg
    <2>2. UNCHANGED pair
        BY <1>4 DEF HandleSetup, process
    <2>3. keys' = [keys EXCEPT ![n] = <<a, i>>]
        BY <1>3, <1>4, <2>1, <2>2 DEF HandleSetup, Store
    <2> QED BY <1>0, <1>3, <2>1, <2>3 DEF IInv, TypeOK
<1>5. CASE setups[<<a, i>>] = "stored"
    <2>1. circuit[a][i].pair <= pair[n]
        BY <1>5 DEF PairsKnown
    <2>2. NodeStep(n)
        BY <1>3, NodeMoves
    <2>3. pair[n] \in Nat
        BY <1>3 DEF IInv, TypeOK
    <2> QED BY <1>0, <1>3, <1>5, <2>1, <2>2, <2>3 DEF NodeStep, KeysKept
<1> QED BY <1>1, <1>4, <1>5

LEMMA NextUnknown ==
    IInv /\ Order /\ Addresses /\ PairsKnown /\ KeysKept /\ UnknownOnlyAfterRestart
       /\ [Next]_vars => UnknownOnlyAfterRestart'
<1> SUFFICES ASSUME IInv, Order, Addresses, PairsKnown, KeysKept,
                    UnknownOnlyAfterRestart, [Next]_vars,
                    NEW a \in Attempt, NEW i \in Pos, calls'[<<a, i>>].st = "unknown"
             PROVE  circuit'[a][i].pair < pair'[calls'[<<a, i>>].node]
    BY DEF UnknownOnlyAfterRestart
<1> DEFINE n == circuit[a][i].node
<1>0. 1 \in Pos
    BY PosFacts
<1>1. calls[<<a, i>>].st # "none" /\ calls'[<<a, i>>].node = calls[<<a, i>>].node
      /\ (calls[<<a, i>>].st = "unknown" \/ HandleUnknown(<<a, i>>))
    <2>1. CallStep(a, i)
        BY CallSteps
    <2>2. \A m, s : Sent(m, s).st # "unknown"
        BY DEF Sent
    <2> QED BY <2>1, <2>2 DEF CallStep, Onion, Forwarded
<1>2. setups[<<a, i>>] = "stored"
    BY <1>0, <1>1 DEF Order, SentInOrder
<1>3. circuit'[a] = circuit[a] /\ n \in Node /\ circuit[a][i].pair \in Nat
    BY <1>2, CircuitStays DEF Record
<1>4. calls[<<a, i>>].node = n
    BY <1>1 DEF Addresses, AddressOK
<1>5. pair[n] \in Nat /\ circuit[a][i].pair <= pair[n]
    BY <1>2, <1>3 DEF IInv, TypeOK, PairsKnown
<1>6. circuit[a][i].pair < pair[n]
    <2>1. CASE calls[<<a, i>>].st = "unknown"
        BY <1>4, <2>1 DEF UnknownOnlyAfterRestart
    <2>2. CASE HandleUnknown(<<a, i>>)
        <3>1. n \in up /\ keys[n] = None
            BY <1>4, <2>2 DEF HandleUnknown
        <3>2. circuit[a][i].pair # pair[n]
            BY <1>2, <3>1 DEF KeysKept
        <3> QED BY <1>3, <1>5, <3>2
    <2> QED BY <1>1, <2>1, <2>2
<1>7. pair'[n] = pair[n] \/ pair'[n] = pair[n] + 1
    BY <1>3, NodeMoves DEF NodeStep
<1> QED BY <1>1, <1>3, <1>4, <1>5, <1>6, <1>7

LEMMA NextFenced == IInv /\ Order /\ Fenced /\ [Next]_vars => Fenced'
<1> SUFFICES ASSUME IInv, Order, Fenced, [Next]_vars,
                    NEW a \in Attempt, NEW b \in Attempt, NEW i \in Pos,
                    a < b, calls'[<<a, 1>>].st # "none",
                    setups'[<<b, i>>] = "stored",
                    circuit'[b][i].node = circuit'[a][i].node
             PROVE  keys'[circuit'[a][i].node] # <<a, i>>
    BY DEF Fenced
<1> DEFINE n == circuit[a][i].node
<1>0. a \in Nat /\ b \in Nat /\ attempt \in Nat /\ attempt \in Attempt /\ 1 \in Pos
    BY PosFacts DEF IInv, TypeOK, Attempt
<1>1. setups[<<b, i>>] = "stored" \/ HandleSetup(<<b, i>>)
    BY SetupSteps DEF SetupStep
<1>2. setups[<<b, i>>] # "none"
    BY <1>1 DEF HandleSetup
<1>3. calls[<<a, 1>>].st # "none"
    <2>1. a # attempt
        BY <1>0, <1>2 DEF Order, LessAhead
    <2> QED BY <1>0, <2>1, CallsBegin
<1>4. setups[<<a, i>>] = "stored"
    BY <1>3 DEF Order, SentInOrder
<1>5. circuit'[a] = circuit[a] /\ circuit'[b] = circuit[b] /\ n \in Node
    BY <1>2, <1>4, CircuitStays DEF Record
<1>6. <<a, i>> \in Leg /\ <<b, i>> \in Leg /\ <<b, i>> # <<a, i>>
      /\ <<a, i>> # None /\ <<b, i>>[1] = b /\ <<b, i>>[2] = i
    BY <1>0, NodeAssumption DEF Leg
<1>7. CASE HandleSetup(<<b, i>>)
    <2>1. setups' = [setups EXCEPT ![<<b, i>>] = "refused"] \/ Store(circuit[b][i].node, <<b, i>>)
        BY <1>6, <1>7 DEF HandleSetup
    <2>2. Store(circuit[b][i].node, <<b, i>>)
        BY <1>6, <2>1 DEF IInv, TypeOK
    <2>3. keys'[n] = <<b, i>>
        BY <1>5, <2>2 DEF Store, IInv, TypeOK
    <2> QED BY <1>5, <1>6, <2>3
<1>8. CASE setups[<<b, i>>] = "stored"
    <2>1. keys[n] # <<a, i>>
        BY <1>3, <1>5, <1>8 DEF Fenced
    <2>2. ~HandleSetup(<<a, i>>)
        BY <1>4 DEF HandleSetup
    <2>3. NodeStep(n)
        BY <1>5, NodeMoves
    <2> QED BY <1>5, <1>6, <2>1, <2>2, <2>3 DEF NodeStep
<1> QED BY <1>1, <1>7, <1>8

\* A payload opens under the key of its own leg only.
LEMMA OpensOwnKey ==
    ASSUME IInv, NEW a \in Attempt, NEW i \in Pos, HandleOpen(<<a, i>>)
    PROVE  keys[calls[<<a, i>>].node] = <<a, i>>
<1> DEFINE call == calls[<<a, i>>]
           key == keys[call.node]
<1>1. call \in Call /\ LegOK(a, i, call) /\ call.st = "sent"
    BY DEF IInv, TypeOK, Legs, Leg, HandleOpen
<1>2. RequestLayers(a, i, call.payload) /\ call.payload \in Seq(Layer)
    BY <1>1 DEF LegOK, Call
<1>3. call.payload # <<>> /\ Head(call.payload).key = key
    BY DEF HandleOpen, Opens
<1>4. 1 \in 1..Depth(i) /\ i + 1 - 1 = i
    BY PosFacts DEF Depth
<1>5. call.payload[1].key = <<a, i>>
    BY <1>2, <1>4 DEF RequestLayers
<1>6. Head(call.payload) = call.payload[1]
    BY <1>2, <1>3
<1> QED BY <1>3, <1>5, <1>6

LEMMA StepFencesOff ==
    ASSUME IInv, Order, Addresses, Fenced, [Next]_vars, NEW leg \in Leg,
           calls[leg].st = "sent", calls'[leg].st = "open",
           NEW b \in Attempt, b > leg[1], setups[<<b, leg[2]>>] = "stored"
    PROVE  circuit[b][leg[2]].node # calls[leg].node
<1>1. PICK a \in Attempt, i \in Pos : leg = <<a, i>>
    BY DEF Leg
<1>2. HandleOpen(<<a, i>>)
    <2>1. CallStep(a, i)
        BY CallSteps
    <2>2. \A m, s : Sent(m, s).st # "open"
        BY DEF Sent
    <2> QED BY <1>1, <2>1, <2>2 DEF CallStep, Onion, Forwarded
<1>3. keys[calls[<<a, i>>].node] = <<a, i>>
    BY <1>2, OpensOwnKey
<1>4. calls[<<a, i>>].node = circuit[a][i].node /\ calls[<<a, 1>>].st # "none"
    BY <1>1 DEF Addresses, AddressOK, Order, SentInOrder
<1>5. a < b
    BY <1>1 DEF Attempt
<1> QED BY <1>1, <1>3, <1>4, <1>5 DEF Fenced

LEMMA InitKeys == Init => PairsKnown /\ KeysKept /\ Fenced /\ UnknownOnlyAfterRestart
<1> SUFFICES ASSUME Init PROVE PairsKnown /\ KeysKept /\ Fenced /\ UnknownOnlyAfterRestart
    OBVIOUS
<1>1. \A a \in Attempt, i \in Pos : setups[<<a, i>>] = "none" /\ calls[<<a, i>>] = NoCall
    BY DEF Init, Leg
<1>2. NoCall.st = "none"
    BY DEF NoCall
<1>3. UnknownOnlyAfterRestart
    BY <1>1, <1>2 DEF UnknownOnlyAfterRestart
<1> QED BY <1>1, <1>3 DEF PairsKnown, KeysKept, Fenced

LEMMA OrderInvariance == Spec => [](IInv /\ Order /\ Addresses)
BY Invariance, InitOrder, NextOrder, InitAddresses, NextAddresses, PTL DEF Spec

\* A node that runs never forgets the key of a circuit in use: whatever the
\* order of setups, time-outs and retries, "unknown circuit" means a restart.
THEOREM UnknownMeansRestart == Spec => []UnknownOnlyAfterRestart
<1>1. Init => PairsKnown /\ KeysKept /\ UnknownOnlyAfterRestart
    BY InitKeys
<1> QED BY <1>1, OrderInvariance, NextPairs, NextKeysKept, NextUnknown, PTL DEF Spec

\* Once a node has acknowledged a key of a retry, it opens no onion of the
\* attempts before.
THEOREM RetriesFenceOff == Spec => RetryFencesOff
<1>1. Init => Fenced
    BY InitKeys
<1>2. IInv /\ Order /\ Addresses /\ Fenced /\ [Next]_vars =>
         [\A leg \in Leg :
             calls[leg].st = "sent" /\ calls'[leg].st = "open"
                => \A b \in Attempt :
                      /\ b > leg[1]
                      /\ setups[<<b, leg[2]>>] = "stored"
                      => circuit[b][leg[2]].node # calls[leg].node]_vars
    BY StepFencesOff
<1> QED BY <1>1, <1>2, OrderInvariance, NextFenced, PTL DEF Spec, RetryFencesOff

----------------------------------------------------------------------------
(* Who is blamed.                                                          *)

\* What the error of the attempt under way says.
ErrorOK(err) ==
    \/ err.step = "send"
    \/ err.step = "setup" /\ err.hop = hop /\ pc = "setup"

LEMMA BlameFacts ==
    ASSUME IInv, NEW err, ErrorOK(err), NEW i \in Pos, i > 1,
           identifyFailedHop(err) = Role[i]
    PROVE  pc = "setup" /\ i = hop
<1>1. hop \in {1, 2, 3} /\ i \in {2, 3}
    BY PosFacts DEF IInv, TypeOK
<1>2. Role[1] = "guard" /\ Role[2] = "relay" /\ Role[3] = "exit"
    BY DEF Role
<1>3. err.step # "send"
    BY <1>1, <1>2 DEF identifyFailedHop
<1>4. err.hop = hop /\ pc = "setup" /\ Role[hop] = Role[i]
    BY <1>3 DEF identifyFailedHop, ErrorOK
<1> QED BY <1>1, <1>2, <1>4

\* The blame of an earlier attempt stands: nothing of it is sent any more.
BlameOK(j, i) ==
    /\ setups[<<j, i>>] # "none"
    /\ i < Hops => setups[<<j, i + 1>>] = "none"
    /\ calls[<<j, 1>>].st = "none"

LEMMA BlameStays ==
    ASSUME IInv, Order, [Next]_vars, NEW j \in Attempt, j < attempt, NEW i \in Pos,
           BlameOK(j, i)
    PROVE  BlameOK(j, i)'
<1>0. 1 \in Pos /\ j # attempt /\ (i < Hops => i + 1 \in Pos)
    BY PosFacts DEF IInv, TypeOK, Attempt, Pos
<1>1. setups'[<<j, i>>] # "none"
    BY SetupsStay DEF BlameOK
<1>2. i < Hops => setups'[<<j, i + 1>>] = "none"
    BY <1>0, SetupsStay DEF BlameOK
<1>3. calls'[<<j, 1>>].st = "none"
    BY <1>0, CallsBegin DEF BlameOK
<1> QED BY <1>1, <1>2, <1>3 DEF BlameOK

LEMMA SettleHop ==
    ASSUME IInv, NEW b \in BOOLEAN, NEW j \in 1..Len(events)
    PROVE  Settle(b)[j].hop = events[j].hop
<1>1. DOMAIN events = 1..Len(events) /\ events[j] \in Event
    BY DEF IInv, TypeOK
<1>2. Settle(b)[j] = IF j = Len(events) THEN [events[j] EXCEPT !.success = b]
                                        ELSE events[j]
    BY <1>1 DEF Settle
<1>3. [events[j] EXCEPT !.success = b].hop = events[j].hop
    BY <1>1 DEF Event
<1> QED BY <1>2, <1>3

\* How the events change in a step: what they blame stands, and a new one
\* blames the hop of the error of the attempt under way.
EventStep ==
    /\ \A j \in DOMAIN events : events'[j].hop = events[j].hop
    /\ \/ DOMAIN events' = DOMAIN events
       \/ /\ DOMAIN events' = DOMAIN events \cup {attempt}
          /\ UNCHANGED <<setups, calls>>
          /\ \E err : ErrorOK(err) /\ events'[attempt].hop = identifyFailedHop(err)

LEMMA FailEvents ==
    ASSUME IInv, Story, NEW err, ErrorOK(err), FailAttempt(err)
    PROVE  EventStep
<1> DEFINE x == Settle(FALSE)
           e == [attempt |-> attempt + 1, hop |-> identifyFailedHop(err),
                 cause |-> err.cause, success |-> FALSE]
<1>1. /\ attempt \in Nat /\ Len(events) = attempt - 1 /\ Len(events) \in Nat
      /\ DOMAIN events = 1..Len(events)
    BY DEF Story, EventsMatchAttempts, IInv, TypeOK, Attempt
<1>2. x \in Seq(Event) /\ Len(x) = Len(events)
    BY SettleFacts DEF IInv, TypeOK
<1>3. \A j \in 1..Len(events) : x[j].hop = events[j].hop
    BY SettleHop
<1>4. UNCHANGED <<setups, calls>>
    BY DEF FailAttempt
<1>5. CASE attempt < MaxAttempts
    <2>1. events' = Append(x, e)
        BY <1>5, Zenon DEF FailAttempt
    <2>2. e.hop = identifyFailedHop(err)
        OBVIOUS
    <2> HIDE DEF x, e
    <2>3. /\ DOMAIN events' = 1..attempt
          /\ events'[attempt] = e
          /\ \A j \in 1..Len(events) : events'[j] = x[j]
        BY <1>1, <1>2, <2>1
    <2>4. 1..attempt = 1..Len(events) \cup {attempt}
        BY <1>1
    <2> QED BY <1>1, <1>3, <1>4, <2>2, <2>3, <2>4 DEF EventStep
<1>6. CASE ~(attempt < MaxAttempts)
    <2>1. events' = x
        BY <1>6, Zenon DEF FailAttempt
    <2> HIDE DEF x
    <2>2. DOMAIN events' = 1..Len(events)
        BY <1>2, <2>1
    <2> QED BY <1>1, <1>3, <2>1, <2>2 DEF EventStep
<1> QED BY <1>5, <1>6

LEMMA EventSteps == IInv /\ Story /\ [Next]_vars => EventStep
<1> SUFFICES ASSUME IInv, Story, [Next]_vars PROVE EventStep
    OBVIOUS
<1>1. CASE SetupFails
    BY <1>1, FailEvents DEF SetupFails, ErrorOK
<1>2. CASE SendFails \/ SendTimesOut
    BY <1>2, FailEvents DEF SendFails, SendTimesOut, ErrorOK
<1>3. CASE ReceiveResponse
    <2>1. events' = Settle(TRUE) \/ events' = events
        BY <1>3 DEF ReceiveResponse
    <2>2. DOMAIN events = 1..Len(events)
        BY DEF IInv, TypeOK
    <2>3. DOMAIN Settle(TRUE) = DOMAIN events
        BY DEF Settle
    <2> QED BY <2>1, <2>2, <2>3, SettleHop DEF EventStep
<1>4. CASE UNCHANGED events
    BY <1>4 DEF EventStep
<1>5. CASE GetCircuit \/ GetCircuitFails \/ SetupAcked
    BY <1>4, <1>5 DEF GetCircuit, GetCircuitFails, SetupAcked
<1>6. ASSUME NEW leg \in Leg,
             \/ HandleSetup(leg)
             \/ HandleUnknown(leg) \/ HandleRejected(leg) \/ HandleOpen(leg)
             \/ ForwardReply(leg) \/ ForwardFails(leg)
             \/ Execute(leg) \/ ExitReply(leg) \/ ExitFails(leg)
      PROVE  EventStep
    <2>1. UNCHANGED client
        BY <1>6 DEF HandleSetup, HandleUnknown, HandleRejected, HandleOpen, ForwardReply,
                    ForwardFails, Execute, ExitReply, ExitFails, Answer
    <2> QED BY <1>4, <2>1 DEF client
<1>7. ASSUME NEW n \in Node, Crash(n) \/ Start(n)
      PROVE  EventStep
    BY <1>4, <1>7 DEF Crash, Start, client
<1>8. CASE UNCHANGED vars
    BY <1>4, <1>8 DEF vars
<1> QED BY <1>1, <1>2, <1>3, <1>5, <1>6, <1>7, <1>8 DEF Next

LEMMA NextBlamed ==
    IInv /\ Order /\ Story /\ BlamedHopIsTheLastCalled /\ [Next]_vars
       => BlamedHopIsTheLastCalled'
<1> SUFFICES ASSUME IInv, Order, Story, BlamedHopIsTheLastCalled, [Next]_vars,
                    NEW j \in DOMAIN events', NEW i \in Pos,
                    events'[j].hop = Role[i], i > 1
             PROVE  BlameOK(j, i)'
    BY DEF BlamedHopIsTheLastCalled, BlameOK
<1>1. /\ attempt \in Attempt /\ attempt \in Nat /\ DOMAIN events = 1..(attempt - 1)
    BY DEF Story, EventsMatchAttempts, IInv, TypeOK, Attempt
<1>2. EventStep
    BY EventSteps
<1>3. CASE j \in DOMAIN events
    <2>1. j \in Attempt /\ j < attempt
        BY <1>1, <1>3, CircuitAssumption DEF Attempt
    <2>2. events[j].hop = Role[i]
        BY <1>2, <1>3 DEF EventStep
    <2>3. BlameOK(j, i)
        BY <1>3, <2>2 DEF BlamedHopIsTheLastCalled, BlameOK
    <2> QED BY <2>1, <2>3, BlameStays
<1>4. CASE j \notin DOMAIN events
    <2>1. /\ j = attempt /\ UNCHANGED <<setups, calls>>
          /\ \E err : ErrorOK(err) /\ events'[j].hop = identifyFailedHop(err)
        BY <1>2, <1>4 DEF EventStep
    <2>2. pc = "setup" /\ i = hop
        BY <2>1, BlameFacts
    <2>3. BlameOK(j, i)
        <3>1. setups[<<j, i>>] # "none" /\ calls[<<j, 1>>].st = "none"
            BY <2>1, <2>2 DEF Order, LessAhead
        <3>2. ASSUME i < Hops PROVE setups[<<j, i + 1>>] = "none"
            <4>1. i + 1 \in Pos /\ ~(i + 1 <= hop)
                BY <2>2, <3>2, PosFacts DEF Pos
            <4> QED BY <1>1, <2>1, <2>2, <4>1 DEF Order, LessAhead
        <3> QED BY <3>1, <3>2 DEF BlameOK
    <2> QED BY <2>1, <2>3 DEF BlameOK
<1> QED BY <1>3, <1>4

\* A relay or an exit is never blamed for an attempt whose request was sent, or
\* for one that had passed its setup.
THEOREM BlameIsRight == Spec => []BlamedHopIsTheLastCalled
<1>1. Init => BlamedHopIsTheLastCalled
    BY DEF Init, BlamedHopIsTheLastCalled
<1> QED BY <1>1, OrderInvariance, InitStory, NextStory, NextBlamed, PTL DEF Spec
=============================================================================
