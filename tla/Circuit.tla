------------------------------- MODULE Circuit -------------------------------
(***************************************************************************)
(* One client request over onion circuits: the retry loop of               *)
(* ExecuteRequestWithRebuildTracking (client/client.go) with the POST      *)
(* /setup and POST /onion handlers of the guards, relays and exits         *)
(* (shared/onion), their per-circuit key stores, and the destination.      *)
(*                                                                         *)
(* Every attempt of a request uses the SAME circuit id, so a node's key    *)
(* store has one slot for all of them: setups and onions of an abandoned   *)
(* attempt, still travelling or held by a slow node, meet the keys of the  *)
(* next attempt.  A time-out may strike a caller at any moment, and what   *)
(* it called goes on regardless; a node may crash and be started again at  *)
(* the same address (registration.go falls back to the host name), with a  *)
(* new identity, a new RSA key pair and an empty key store.                *)
(*                                                                         *)
(* A leg <<a, i>> is hop i of attempt a.  It has a fresh session key, so   *)
(* the leg also names that key.  A ciphertext is the sequence of its       *)
(* layers, outermost first: for a request each layer has its key and the   *)
(* next hop, for a response only its key.                                  *)
(***************************************************************************)
EXTENDS Integers, Sequences, FiniteSets

CONSTANTS
    Guard, Relay, Exit, \* the nodes of each type
    Destination,        \* where the exit layer points
    None,               \* no node, no key
    Hops,               \* hops of the circuit: 1 or 3
    MaxAttempts,        \* attempts of the client
    MaxCrashes          \* bound on the number of crashes

ASSUME CircuitAssumption ==
    /\ Hops \in {1, 3}
    /\ MaxAttempts \in Nat \ {0}
    /\ MaxCrashes \in Nat

Node == Guard \cup Relay \cup Exit
Role == <<"guard", "relay", "exit">>
NodesOf == <<Guard, Relay, Exit>>
Attempt == 1..MaxAttempts
Pos == 1..Hops
Leg == Attempt \X Pos

ASSUME NodeAssumption ==
    /\ Guard \cap Relay = {} /\ Guard \cap Exit = {} /\ Relay \cap Exit = {}
    /\ None \notin Node \cup Leg
    /\ Destination \notin Node

VARIABLES
    pc,        \* where the client is: "get", "setup", "wait" or "done"
    attempt,   \* the loop counter
    hop,       \* the hop whose /setup the client waits for
    circuit,   \* [Attempt -> the circuit fetched for it, or <<>>]: for each
               \* hop a node and the RSA key pair it is recorded with
    events,    \* result.RebuildEvents
    result,    \* how the request ended
    up,        \* the nodes that run
    pair,      \* [Node -> number of its RSA key pair: one for each start]
    crashes,   \* number of crashes so far
    keys,      \* [Node -> KeyStore entry of this circuit id, or None]
    setups,    \* [Leg -> its POST /setup: "none", "sent", "stored", "refused"]
    calls,     \* [Leg -> its POST /onion]
    executed   \* the attempts whose request the destination has executed

client == <<pc, attempt, hop, circuit, events, result>>
process == <<up, pair, crashes>>
vars == <<pc, attempt, hop, circuit, events, result,
          up, pair, crashes, keys, setups, calls, executed>>

----------------------------------------------------------------------------
(* The data.                                                               *)

Inner(leg) == <<leg[1], leg[2] + 1>>
IsLast(leg) == leg[2] = Hops

\* The answers a handler can give.
Errors == {"unknown",    \* 401 unknown circuit
           "rejected",   \* 400 decryption failed
           "badgateway"} \* 502 next hop unreachable, next hop error, ...
NoCall == [st |-> "none", node |-> None, payload |-> <<>>, key |-> None,
           reply |-> <<>>]
Sent(node, payload) ==
    [st |-> "sent", node |-> node, payload |-> payload, key |-> None,
     reply |-> <<>>]
Opened(call, key) ==
    [st |-> "open", node |-> call.node, payload |-> call.payload, key |-> key,
     reply |-> <<>>]
Answered(call, st, reply) ==
    [st |-> st, node |-> call.node, payload |-> call.payload,
     key |-> call.key, reply |-> reply]

\* BuildOnionWithHops: every layer under the key of its leg, naming the next
\* hop; the innermost one is the exit layer.
BuildOnion(a, c) ==
    [i \in Pos |-> [key  |-> <<a, i>>,
                    next |-> IF i = Hops THEN Destination ELSE c[i + 1].node]]

\* One more layer around a response.
Encrypt(key, inner) == <<key>> \o inner

\* UnwrapLayer and UnwrapExitLayer: AES-GCM authenticates, so a layer opens
\* under its own key only.
Opens(key, payload) == payload # <<>> /\ Head(payload).key = key

\* DecryptResponseWithHops peels with the keys of the attempt, in order.
Decrypts(a, reply) == reply = [i \in Pos |-> <<a, i>>]

\* Mutant: the hop after the one that failed is named.
identifyNextHop(err) ==
    IF err.step = "send" \/ err.hop = Hops THEN "guard" ELSE Role[err.hop + 1]

\* The hop identifyFailedHop reads off an error message.  "send onion request
\* via guard ..." names the guard whatever the guard answered; a setup error
\* names the node it was for.
identifyFailedHop(err) == IF err.step = "send" THEN "guard" ELSE Role[err.hop]

----------------------------------------------------------------------------
Init ==
    /\ pc = "get" /\ attempt = 1 /\ hop = 1
    /\ circuit = [a \in Attempt |-> <<>>]
    /\ events = <<>>
    /\ result = "none"
    /\ up = Node
    /\ pair = [n \in Node |-> 0]
    /\ crashes = 0
    /\ keys = [n \in Node |-> None]
    /\ setups = [leg \in Leg |-> "none"]
    /\ calls = [leg \in Leg |-> NoCall]
    /\ executed = {}

----------------------------------------------------------------------------
(* The client.                                                             *)

\* GET /circuit?hops=N answers with a node of each type.  The directory may
\* still list a node that is down, or the identity it had before a restart.
\* The first POST /setup follows at once.
Listed(i) == [node : NodesOf[i], pair : 0..crashes]

GetCircuit ==
    /\ pc = "get"
    /\ \E c \in [Pos -> UNION {Listed(i) : i \in Pos}] :
          /\ \A i \in Pos : c[i] \in Listed(i) /\ c[i].pair <= pair[c[i].node]
          /\ circuit' = [circuit EXCEPT ![attempt] = c]
    /\ pc' = "setup" /\ hop' = 1
    /\ setups' = [setups EXCEPT ![<<attempt, 1>>] = "sent"]
    /\ UNCHANGED <<attempt, events, result, process, keys, calls, executed>>

\* The directory cannot be reached or has not enough nodes: not retried.
GetCircuitFails ==
    /\ pc = "get"
    /\ pc' = "done" /\ result' = "nocircuit"
    /\ UNCHANGED <<attempt, hop, circuit, events, process, keys, setups, calls, executed>>

\* The hop has answered 204: on to the next hop, or to POST /onion.
SetupAcked ==
    /\ pc = "setup"
    /\ setups[<<attempt, hop>>] = "stored"
    /\ IF hop < Hops
       THEN /\ hop' = hop + 1
            /\ setups' = [setups EXCEPT ![<<attempt, hop + 1>>] = "sent"]
            /\ UNCHANGED <<pc, calls>>
       ELSE /\ pc' = "wait"
            /\ calls' = [calls EXCEPT ![<<attempt, 1>>] =
                           Sent(circuit[attempt][1].node,
                                BuildOnion(attempt, circuit[attempt]))]
            /\ UNCHANGED <<hop, setups>>
    /\ UNCHANGED <<attempt, circuit, events, result, process, keys, executed>>

\* An attempt has failed with `err`: `continue`, and the top of the loop, or
\* the end of it.
Settle(success) ==
    [j \in DOMAIN events |->
        IF j = Len(events) THEN [events[j] EXCEPT !.success = success]
                           ELSE events[j]]

\* Mutant: the event has the number of the attempt that failed.
FailMisnumbered(err) ==
    /\ IF attempt < MaxAttempts
       THEN /\ attempt' = attempt + 1
            /\ pc' = "get"
            /\ events' = Append(Settle(FALSE),
                                [attempt |-> attempt,
                                 hop |-> identifyFailedHop(err),
                                 cause |-> err.cause, success |-> FALSE])
            /\ UNCHANGED result
       ELSE /\ pc' = "done" /\ result' = "exhausted"
            /\ events' = Settle(FALSE)
            /\ UNCHANGED attempt
    /\ UNCHANGED <<hop, circuit, process, keys, setups, calls, executed>>

FailAttempt(err) ==
    /\ IF attempt < MaxAttempts
       THEN /\ attempt' = attempt + 1
            /\ pc' = "get"
            /\ events' = Append(Settle(FALSE),
                                [attempt |-> attempt + 1,
                                 hop |-> identifyFailedHop(err),
                                 cause |-> err.cause, success |-> FALSE])
            /\ UNCHANGED result
       ELSE /\ pc' = "done" /\ result' = "exhausted"
            /\ events' = Settle(FALSE)
            /\ UNCHANGED attempt
    /\ UNCHANGED <<hop, circuit, process, keys, setups, calls, executed>>

\* Mutant: the client's HTTP client has no time-out.
SetupWaitsForever ==
    /\ pc = "setup"
    /\ setups[<<attempt, hop>>] = "refused"
    /\ FailAttempt([step |-> "setup", hop |-> hop, cause |-> "setup"])

\* POST /setup fails: the node is down, or slow, or its answer is lost.  (That
\* the listed public key does not parse fails the attempt before anything is
\* sent; the nodes cannot tell it from a setup that never reaches them.)
SetupFails ==
    /\ pc = "setup"
    /\ FailAttempt([step |-> "setup", hop |-> hop, cause |-> "setup"])

\* The guard answers POST /onion with an error ...
SendFails ==
    /\ pc = "wait"
    /\ calls[<<attempt, 1>>].st \in Errors
    /\ FailAttempt([step |-> "send", hop |-> 1,
                    cause |-> calls[<<attempt, 1>>].st])

\* ... or the client's own time-out strikes first.
SendTimesOut ==
    /\ pc = "wait"
    /\ FailAttempt([step |-> "send", hop |-> 1, cause |-> "timeout"])

\* The guard answers 200.
ReceiveResponse ==
    /\ pc = "wait"
    /\ calls[<<attempt, 1>>].st = "ok"
    /\ pc' = "done"
    /\ IF Decrypts(attempt, calls[<<attempt, 1>>].reply)
       THEN result' = "ok" /\ events' = Settle(TRUE)
       ELSE result' = "undecryptable" /\ UNCHANGED events
    /\ UNCHANGED <<attempt, hop, circuit, process, keys, setups, calls, executed>>

----------------------------------------------------------------------------
(* The nodes.                                                              *)

\* Mutant: the first key of a circuit id stays.
HandleSetupKeepsFirst(leg) ==
    LET hopOf == circuit[leg[1]][leg[2]]
    IN  /\ setups[leg] = "sent"
        /\ hopOf.node \in up
        /\ IF hopOf.pair = pair[hopOf.node]
           THEN /\ keys' = [keys EXCEPT ![hopOf.node] = IF @ = None THEN leg ELSE @]
                /\ setups' = [setups EXCEPT ![leg] = "stored"]
           ELSE /\ setups' = [setups EXCEPT ![leg] = "refused"]
                /\ UNCHANGED keys
        /\ UNCHANGED <<client, process, calls, executed>>

\* The key store has one key for a circuit id.
Store(node, key) == keys' = [keys EXCEPT ![node] = key]

\* HandleSetup: the key replaces whatever the circuit id had, provided it is
\* encrypted for the key pair the node has now; otherwise 400.
HandleSetup(leg) ==
    LET hopOf == circuit[leg[1]][leg[2]]
    IN  /\ setups[leg] = "sent"
        /\ hopOf.node \in up
        /\ IF hopOf.pair = pair[hopOf.node]
           THEN /\ Store(hopOf.node, leg)
                /\ setups' = [setups EXCEPT ![leg] = "stored"]
           ELSE /\ setups' = [setups EXCEPT ![leg] = "refused"]
                /\ UNCHANGED keys
        /\ UNCHANGED <<client, process, calls, executed>>

Answer(leg, st, reply) ==
    /\ calls' = [calls EXCEPT ![leg] = Answered(calls[leg], st, reply)]
    /\ UNCHANGED <<client, process, keys, setups>>

\* HandleOnion, when the circuit id has no key: 401.
HandleUnknown(leg) ==
    /\ calls[leg].st = "sent" /\ calls[leg].node \in up
    /\ keys[calls[leg].node] = None
    /\ Answer(leg, "unknown", <<>>)
    /\ UNCHANGED executed

\* HandleOnion, when the payload does not open under the stored key: 400.
HandleRejected(leg) ==
    /\ calls[leg].st = "sent" /\ calls[leg].node \in up
    /\ keys[calls[leg].node] # None
    /\ ~Opens(keys[calls[leg].node], calls[leg].payload)
    /\ Answer(leg, "rejected", <<>>)
    /\ UNCHANGED executed

\* HandleOnion, when it opens: the handler keeps the key it has read and, at
\* a guard or relay, posts the inner payload to the next hop.
HandleOpen(leg) ==
    LET call == calls[leg]
        key == keys[call.node]
    IN  /\ call.st = "sent" /\ call.node \in up
        /\ key # None
        /\ Opens(key, call.payload)
        /\ calls' = [m \in Leg |->
              CASE m = leg -> Opened(call, key)
                [] m = Inner(leg) -> Sent(Head(call.payload).next,
                                          Tail(call.payload))
                [] OTHER -> calls[m]]
        /\ UNCHANGED <<client, process, keys, setups, executed>>

Running(leg) == calls[leg].st = "open" /\ calls[leg].node \in up

\* Mutant: the key is read again after the call.
ForwardReplyRereads(leg) ==
    /\ Running(leg) /\ ~IsLast(leg)
    /\ calls[Inner(leg)].st = "ok"
    /\ Answer(leg, "ok", Encrypt(keys[calls[leg].node], calls[Inner(leg)].reply))
    /\ UNCHANGED executed

\* The next hop has answered 200: wrap its payload once more, with the key
\* read before the call.
ForwardReply(leg) ==
    /\ Running(leg) /\ ~IsLast(leg)
    /\ calls[Inner(leg)].st = "ok"
    /\ Answer(leg, "ok", Encrypt(calls[leg].key, calls[Inner(leg)].reply))
    /\ UNCHANGED executed

\* Mutant: a failed circuit is torn down, by its id.
ForwardFailsForgets(leg) ==
    /\ Running(leg) /\ ~IsLast(leg)
    /\ calls' = [calls EXCEPT ![leg] = Answered(calls[leg], "badgateway", <<>>)]
    /\ keys' = [keys EXCEPT ![calls[leg].node] = None]
    /\ UNCHANGED <<client, process, setups, executed>>

\* The next hop has answered an error, is down, or the handler's HTTP client
\* has timed out: 502.  The next hop is not told.
ForwardFails(leg) ==
    /\ Running(leg) /\ ~IsLast(leg)
    /\ Answer(leg, "badgateway", <<>>)
    /\ UNCHANGED executed

\* The destination executes the request of the last hop, which has opened its
\* onion and may have given up or died since.  It does so once: the exit's HTTP
\* transport is taken to deliver what it is given at most once.
Execute(leg) ==
    /\ IsLast(leg)
    /\ calls[leg].key # None
    /\ leg[1] \notin executed
    /\ executed' = executed \cup {leg[1]}
    /\ UNCHANGED <<client, process, keys, setups, calls>>

\* The destination's response is encrypted and returned.
ExitReply(leg) ==
    /\ Running(leg) /\ IsLast(leg)
    /\ leg[1] \in executed
    /\ Answer(leg, "ok", Encrypt(calls[leg].key, <<>>))
    /\ UNCHANGED executed

\* Mutant: the failure is wrapped and returned like a response.
ExitFailsWrapped(leg) ==
    /\ Running(leg) /\ IsLast(leg)
    /\ Answer(leg, "ok", Encrypt(calls[leg].key, <<>>))
    /\ UNCHANGED executed

\* The destination cannot be reached, its answer is lost, or the caller has
\* gone: 502 from an exit, 400 from a guard that is the only hop.
ExitFails(leg) ==
    /\ Running(leg) /\ IsLast(leg)
    /\ Answer(leg, IF Hops = 1 THEN "rejected" ELSE "badgateway", <<>>)
    /\ UNCHANGED executed

\* A node dies, and its keys and handlers with it ...
Crash(n) ==
    /\ n \in up
    /\ crashes < MaxCrashes
    /\ crashes' = crashes + 1
    /\ up' = up \ {n}
    /\ keys' = [keys EXCEPT ![n] = None]
    /\ calls' = [leg \in Leg |->
                   IF calls[leg].st = "open" /\ calls[leg].node = n
                   THEN Answered(calls[leg], "dead", <<>>) ELSE calls[leg]]
    /\ UNCHANGED <<client, pair, setups, executed>>

\* ... and is started again: NewIdentity, NewKeyStore.
Start(n) ==
    /\ n \notin up
    /\ up' = up \cup {n}
    /\ pair' = [pair EXCEPT ![n] = @ + 1]
    /\ UNCHANGED <<client, crashes, keys, setups, calls, executed>>

----------------------------------------------------------------------------
\* The system stops when the client is done and no handler has work left.
Next ==
    \/ GetCircuit \/ GetCircuitFails
    \/ SetupAcked \/ SetupFails
    \/ SendFails \/ SendTimesOut \/ ReceiveResponse
    \/ \E leg \in Leg :
          \/ HandleSetup(leg)
          \/ HandleUnknown(leg) \/ HandleRejected(leg) \/ HandleOpen(leg)
          \/ ForwardReply(leg) \/ ForwardFails(leg)
          \/ Execute(leg) \/ ExitReply(leg) \/ ExitFails(leg)
    \/ \E n \in Node : Crash(n) \/ Start(n)

Spec == Init /\ [][Next]_vars

\* http.Client.Timeout bounds every wait: the client's 15 s, a handler's 10 s.
\* Nothing else is sure to happen.
Fairness ==
    /\ WF_vars(GetCircuit \/ GetCircuitFails)
    /\ WF_vars(SetupAcked \/ SetupFails)
    /\ WF_vars(SendFails \/ SendTimesOut \/ ReceiveResponse)
    /\ \A leg \in Leg : WF_vars(ForwardReply(leg) \/ ForwardFails(leg)
                                  \/ ExitReply(leg) \/ ExitFails(leg))

FairSpec == Spec /\ Fairness

----------------------------------------------------------------------------
(* Properties.                                                             *)

Layer == [key : Leg, next : Node \cup {Destination}]
Call == [st : {"none", "sent", "open", "ok", "dead"} \cup Errors,
         node : Node \cup {None, Destination}, payload : Seq(Layer),
         key : Leg \cup {None}, reply : Seq(Leg)]
Record == [node : Node, pair : Nat]
Event == [attempt : Attempt, hop : {"guard", "relay", "exit"},
          cause : {"setup", "timeout"} \cup Errors, success : BOOLEAN]

TypeOK ==
    /\ pc \in {"get", "setup", "wait", "done"}
    /\ attempt \in Attempt /\ hop \in Pos
    /\ circuit \in [Attempt -> {<<>>} \cup [Pos -> Record]]
    /\ events \in Seq(Event)
    /\ result \in {"none", "ok", "nocircuit", "exhausted", "undecryptable"}
    /\ up \subseteq Node /\ pair \in [Node -> Nat] /\ crashes \in 0..MaxCrashes
    /\ keys \in [Node -> Leg \cup {None}]
    /\ setups \in [Leg -> {"none", "sent", "stored", "refused"}]
    /\ calls \in [Leg -> Call]
    /\ executed \subseteq Attempt

\* A 200 from the guard always opens under the client's keys.  A handler that
\* waits for the next hop can have its stored key replaced by another
\* attempt's setup, or lose its node's key store; the response it wraps
\* afterwards still has the layers of ITS attempt, because the key it wraps
\* with is the one it has read before the call.
ResponseDecrypts ==
    \A a \in Attempt : calls[<<a, 1>>].st = "ok"
                          => Decrypts(a, calls[<<a, 1>>].reply)

\* The client reports success only with the answer to this attempt's request:
\* the destination has executed it, not merely that of an earlier attempt.
SuccessIsThisAttempts == result = "ok" => attempt \in executed

\* The keys of a retry fence off the attempt it replaces: a node that has
\* acknowledged a key of a later attempt never again opens an onion of an
\* earlier one, although that onion may still be on its way, although all
\* attempts share the circuit id, and although a delayed setup of a failed
\* attempt may overwrite the key.
RetryFencesOff ==
    [][\A leg \in Leg :
          calls[leg].st = "sent" /\ calls'[leg].st = "open"
             => \A b \in Attempt :
                   /\ b > leg[1]
                   /\ setups[<<b, leg[2]>>] = "stored"
                   => circuit[b][leg[2]].node # calls[leg].node]_vars

\* A node answers "unknown circuit" to an onion only if it was restarted
\* since it acknowledged the key: no order of setups, time-outs and retries
\* makes a running node forget a circuit in use.
UnknownOnlyAfterRestart ==
    \A a \in Attempt, i \in Pos :
        calls[<<a, i>>].st = "unknown"
           => circuit[a][i].pair < pair[calls[<<a, i>>].node]

\* Rebuild events tell the story of the loop: one for every attempt after the
\* first, in order, none but the last ever a success, and the last one
\* exactly when the request succeeded.
EventsMatchAttempts ==
    /\ Len(events) = attempt - 1
    /\ \A j \in DOMAIN events :
          /\ events[j].attempt = j + 1
          /\ events[j].success <=> (result = "ok" /\ j = Len(events))

\* A relay or an exit is only blamed for an attempt that had got as far as its
\* /setup and got no further.  (The guard is also blamed for every error of
\* POST /onion, whichever hop it comes from.)
BlamedHopIsTheLastCalled ==
    \A j \in DOMAIN events : \A i \in Pos :
        events[j].hop = Role[i] /\ i > 1 =>
            /\ setups[<<j, i>>] # "none"
            /\ i < Hops => setups[<<j, i + 1>>] = "none"
            /\ calls[<<j, 1>>].st = "none"

\* How the request ended, for a caller.
Outcome == CASE result = "none" -> "none"
             [] result = "ok"   -> "ok"
             [] OTHER           -> "failed"

\* The promise of OneRequest, kept over circuits that share an id: however
\* attempts overlap at the nodes, each is executed once at most and only after
\* it has begun, an answer is that of the attempt under way, and the outcome
\* stands.
Request == INSTANCE OneRequest WITH outcome <- Outcome
ImplementsOneRequest == Request!Spec

\* The client always comes to an end, however many callers time out.
Termination == <>(pc = "done")
=============================================================================
