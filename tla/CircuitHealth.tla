---------------------------- MODULE CircuitHealth ----------------------------
(***************************************************************************)
(* The Go client's background health checker (StartHealthChecker and       *)
(* checkAndRebuildCircuit in client/client.go): at every tick it compares  *)
(* the circuit in CircuitState with GET /nodes and, when a node of it is   *)
(* missing there, fetches another circuit, sets up keys hop by hop and     *)
(* publishes circuit and keys in CircuitState.                             *)
(*                                                                         *)
(* All circuits of a CircuitState have the SAME circuit id.  A node's key  *)
(* store has one slot for it, so a rebuild overwrites keys of the circuit  *)
(* in use while it is still in use, and a setup that its sender has given  *)
(* up may still arrive.                                                    *)
(*                                                                         *)
(* Keys are told apart by the circuit they were made for: "current", the   *)
(* one in CircuitState; "new", the one under construction; "former", one   *)
(* that was in CircuitState before; "stray", one whose rebuild was given   *)
(* up.  That makes any number of rebuilds a finite system.                 *)
(***************************************************************************)
EXTENDS Integers, FiniteSets

CONSTANTS
    Guard, Relay, Exit, \* the nodes of each type
    Hops                \* CircuitState.Hops: 1 or 3

Node == Guard \cup Relay \cup Exit
Pos == 1..Hops
NodesOf == <<Guard, Relay, Exit>>

ASSUME HealthAssumption ==
    /\ Hops \in {1, 3}
    /\ Guard \cap Relay = {} /\ Guard \cap Exit = {} /\ Relay \cap Exit = {}

VARIABLES
    ready,   \* CircuitState.Ready
    circuit, \* CircuitState.Circuit, with the "current" keys
    pc,      \* where the goroutine is: "idle", "get" or "setup"
    fresh,   \* the circuit it builds, or else the one it has
    hop,     \* the hop whose POST /setup it waits for, or else 1
    holds,   \* [Node -> KeyStore entry of the circuit id]
    flying,  \* [Node -> the keys in POST /setup requests on their way to it]
    running, \* the nodes that run
    listed,  \* the nodes GET /nodes and GET /circuit know as HEALTHY
    calm     \* nothing goes wrong any more

state == <<ready, circuit>>
world == <<running, listed, calm>>
vars == <<ready, circuit, pc, fresh, hop, holds, flying, running, listed, calm>>

Circuit == {c \in [Pos -> Node] : \A i \in Pos : c[i] \in NodesOf[i]}
Ids(c) == {c[i] : i \in Pos}

\* CircuitState is filled in, with keys set up, before the checker starts.
Init ==
    /\ ready = TRUE
    /\ circuit \in Circuit
    /\ pc = "idle" /\ fresh = circuit /\ hop = 1
    /\ holds = [n \in Node |-> IF n \in Ids(circuit) THEN "current" ELSE "none"]
    /\ flying = [n \in Node |-> {}]
    /\ running = Node /\ listed = Node
    /\ calm = FALSE

----------------------------------------------------------------------------
(* The goroutine.                                                          *)

\* At a tick, if CircuitState is Ready: a node of the circuit is not in the
\* answer to GET /nodes.  If all are, or the call fails, nothing happens until
\* the next tick.  Nobody else writes CircuitState, so what the goroutine has
\* read of it before the call is what it finds after it.
Judge ==
    /\ pc = "idle" /\ ready
    /\ ~(Ids(circuit) \subseteq listed)
    /\ pc' = "get"
    /\ UNCHANGED <<state, fresh, hop, holds, flying, world>>

\* GetCircuitWithHops; the POST /setup to the first hop follows at once.
GetCircuit ==
    /\ pc = "get"
    /\ \E c \in Circuit :
          /\ Ids(c) \subseteq listed
          /\ fresh' = c
          /\ flying' = [flying EXCEPT ![c[1]] = @ \cup {"new"}]
    /\ pc' = "setup"
    /\ UNCHANGED <<state, hop, holds, world>>

\* 503, or the call fails: nothing has happened, until the next tick.
GetCircuitFails ==
    /\ pc = "get"
    /\ calm => \E i \in Pos : NodesOf[i] \cap listed = {}
    /\ pc' = "idle"
    /\ UNCHANGED <<state, fresh, hop, holds, flying, world>>

Answers(n) == "new" \notin flying[n]

\* The hop has answered 204, another one follows.
SetupHop ==
    /\ pc = "setup" /\ hop < Hops
    /\ Answers(fresh[hop])
    /\ hop' = hop + 1
    /\ flying' = [flying EXCEPT ![fresh[hop + 1]] = @ \cup {"new"}]
    /\ UNCHANGED <<state, pc, fresh, holds, world>>

\* Mutant: circuit and keys are published one hop too early.
PublishEarly ==
    /\ pc = "setup" /\ hop = Hops
    /\ pc' = "idle" /\ circuit' = fresh /\ ready' = TRUE
    /\ holds' = [n \in Node |-> CASE holds[n] = "current" -> "former"
                                  [] holds[n] = "new"     -> "current"
                                  [] OTHER                -> holds[n]]
    /\ hop' = 1
    /\ UNCHANGED <<fresh, flying, world>>

\* The last hop has: circuit and keys go to CircuitState together.
Publish ==
    /\ pc = "setup" /\ hop = Hops
    /\ Answers(fresh[hop])
    /\ pc' = "idle" /\ circuit' = fresh /\ ready' = TRUE
    /\ holds' = [n \in Node |-> CASE holds[n] = "current" -> "former"
                                  [] holds[n] = "new"     -> "current"
                                  [] OTHER                -> holds[n]]
    /\ hop' = 1
    /\ UNCHANGED <<fresh, flying, world>>

\* What can still arrive at n of the setups nobody waits for.
Late(n) == IF n \in running THEN {"stray"} ELSE {}

\* Mutant: CircuitState is not Ready while it cannot be rebuilt.
SetupFailsUnready ==
    /\ pc = "setup"
    /\ calm => fresh[hop] \notin running
    /\ pc' = "idle" /\ ready' = FALSE
    /\ holds' = [n \in Node |-> IF holds[n] = "new" THEN "stray" ELSE holds[n]]
    /\ flying' = [n \in Node |-> IF "new" \in flying[n] THEN Late(n) ELSE flying[n]]
    /\ fresh' = circuit /\ hop' = 1
    /\ UNCHANGED <<circuit, world>>

\* A hop is down or slow, or its answer is lost: CircuitState stays as it is,
\* and so do the keys that have been or still will be overwritten.
SetupFails ==
    /\ pc = "setup"
    /\ calm => fresh[hop] \notin running
    /\ pc' = "idle"
    /\ holds' = [n \in Node |-> IF holds[n] = "new" THEN "stray" ELSE holds[n]]
    /\ flying' = [n \in Node |-> IF "new" \in flying[n] THEN Late(n) ELSE flying[n]]
    /\ fresh' = circuit /\ hop' = 1
    /\ UNCHANGED <<state, world>>

----------------------------------------------------------------------------
(* The nodes and the directory.                                            *)

\* HandleSetup stores the key, whatever the circuit id had.  There may be
\* several stray ones: one more may be left.
HandleSetup(n, key) ==
    /\ n \in running /\ key \in flying[n]
    /\ holds' = [holds EXCEPT ![n] = key]
    /\ \/ flying' = [flying EXCEPT ![n] = @ \ {key}]
       \/ key = "stray" /\ UNCHANGED flying
    /\ UNCHANGED <<state, pc, fresh, hop, world>>

\* It never runs again: what is started in its place has a new id.  Setups
\* that nobody waits for are gone.
Kill(n) ==
    /\ ~calm /\ n \in running
    /\ running' = running \ {n}
    /\ holds' = [holds EXCEPT ![n] = "none"]
    /\ flying' = [flying EXCEPT ![n] = @ \ {"stray"}]
    /\ UNCHANGED <<state, pc, fresh, hop, listed, calm>>

\* The directory's list follows the nodes that run, late; it may also lose
\* one that does run, and hear of it again, or never: an agent that has
\* registered does not register again with a directory that was restarted.
List(n) ==
    /\ n \in running \ listed
    /\ listed' = listed \cup {n}
    /\ UNCHANGED <<state, pc, fresh, hop, holds, flying, running, calm>>

Unlist(n) ==
    /\ n \in listed
    /\ calm => n \notin running
    /\ listed' = listed \ {n}
    /\ UNCHANGED <<state, pc, fresh, hop, holds, flying, running, calm>>

\* From now on only dead nodes fail, and one of each type runs.
CalmDown ==
    /\ ~calm
    /\ \A i \in Pos : NodesOf[i] \cap running # {}
    /\ calm' = TRUE
    /\ UNCHANGED <<state, pc, fresh, hop, holds, flying, running, listed>>

Checker ==
    \/ Judge
    \/ GetCircuit \/ GetCircuitFails
    \/ SetupHop \/ Publish \/ SetupFails

Next ==
    \/ Checker
    \/ \E n \in Node :
          \/ \E key \in flying[n] : HandleSetup(n, key)
          \/ Kill(n) \/ List(n) \/ Unlist(n)
    \/ CalmDown

Spec == Init /\ [][Next]_vars

\* The ticker ticks and every call ends; a node that runs answers; the
\* directory suspects the dead.
Fairness ==
    /\ WF_vars(Checker)
    /\ \A n \in Node : /\ WF_vars(HandleSetup(n, "new"))
                       /\ WF_vars(Unlist(n) /\ n \notin running)

FairSpec == Spec /\ Fairness

----------------------------------------------------------------------------
(* Properties.                                                             *)

Key == {"none", "current", "new", "former", "stray"}

TypeOK ==
    /\ ready \in BOOLEAN
    /\ circuit \in Circuit /\ fresh \in Circuit
    /\ pc \in {"idle", "get", "setup"} /\ hop \in Pos
    /\ holds \in [Node -> Key]
    /\ flying \in [Node -> SUBSET {"new", "stray"}]
    /\ running \subseteq Node /\ listed \subseteq Node /\ calm \in BOOLEAN

\* The nodes of the published circuit have its keys, except where a rebuild
\* that was given up has left its own: neither a rebuild that succeeds nor one
\* that finds no other circuit ever separates CircuitState from its nodes,
\* although it shares circuit id and nodes with those before and after it.
OnlyStraysDisplace ==
    \A n \in Ids(circuit) \cap running :
        \/ holds[n] \in {"current", "stray"}
        \/ pc = "setup" /\ holds[n] = "new"

\* In the end the directory lists a running node of each type for good.  No code
\* sees to that: after a restart of the directory it takes new processes.
DirectoryOffers ==
    \A i \in Pos : \E n \in NodesOf[i] : <>[](n \in running \cap listed)

\* A dead node does not stay in CircuitState: once nothing new goes wrong and
\* the directory has nodes to offer, the circuit consists of nodes that run, for
\* good, whatever the rebuilds that were given up have left behind, and although
\* other running nodes may never be listed again.
StaleCircuitIsReplaced ==
    <>calm /\ DirectoryOffers => <>[](Ids(circuit) \subseteq running)

\* What client.go:42 says of CircuitState, that it "holds the current active
\* circuit and its session keys": between two checks, while all its nodes run,
\* the keys in it are the keys its nodes have.
HoldsItsSessionKeys ==
    pc = "idle" /\ ready /\ Ids(circuit) \subseteq running
       => \A n \in Ids(circuit) : holds[n] = "current"
=============================================================================
