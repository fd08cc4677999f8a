--------------------------- MODULE FailureRecovery ---------------------------
(***************************************************************************)
(* A Locust user of experiment 3 (experiments/experiment3/locustfile.py    *)
(* over experiments/locust/circuit_client.py): it keeps one circuit for    *)
(* all its requests and rebuilds it when a request fails or, with          *)
(* HEALTH_CHECK, when its HealthChecker has seen one of its nodes missing  *)
(* from GET /nodes.                                                        *)
(*                                                                         *)
(* The user and the checker's poll loop are two threads that share         *)
(* `checked` and `needsRebuild` under a lock.  The poll loop does not hold *)
(* it while it waits for the directory, so it judges the circuit it finds  *)
(* afterwards by an answer from before.                                    *)
(*                                                                         *)
(* The directory is modelled by what it lists: with a delay, the nodes     *)
(* that run, and now and then not even those.  Every circuit has a circuit *)
(* id of its own, so the nodes' keys for the ids of former circuits never  *)
(* matter again.                                                           *)
(***************************************************************************)
EXTENDS Integers, FiniteSets

CONSTANTS
    Guard, Relay, Exit, \* the nodes of each type
    Hops,               \* HOPS: 1 or 3
    HealthCheck,        \* HEALTH_CHECK
    Late                \* nodes that have not registered yet at first

Node == Guard \cup Relay \cup Exit
Hop == 1..Hops
NodesOf == <<Guard, Relay, Exit>>

ASSUME RecoveryAssumption ==
    /\ Hops \in {1, 3}
    /\ HealthCheck \in BOOLEAN
    /\ Guard \cap Relay = {} /\ Guard \cap Exit = {} /\ Relay \cap Exit = {}
    /\ Late \subseteq Node

VARIABLES
    pc,           \* where the user is
    why,          \* why it builds a circuit: "start", "proactive" or "failure"
    circuit,      \* self._circuit: [Hop -> Node], or <<>> for None
    hop,          \* the hop whose /setup it waits for
    keyed,        \* self._guard_key, ... are there
    row,          \* status of the last row of the CSV file
    acked,        \* the nodes that hold the keys of this circuit id
    checked,      \* HealthChecker._current_node_ids
    needsRebuild, \* HealthChecker._needs_rebuild
    answer,       \* GET /nodes of the poll loop: [st, ids]
    running,      \* the nodes that run
    listed,       \* the nodes the directory lists
    failed,       \* history: a request over this circuit has failed
    calm          \* nothing goes wrong any more

user == <<pc, why, circuit, hop, keyed, row, failed>>
checker == <<checked, needsRebuild, answer>>
world == <<running, listed, calm>>
vars == <<pc, why, circuit, hop, keyed, row, failed,
          checked, needsRebuild, answer, running, listed, calm, acked>>

Ids == {circuit[i] : i \in DOMAIN circuit}
NoAnswer == [st |-> "none", ids |-> {}]

----------------------------------------------------------------------------
\* on_start builds the first circuit.
Init ==
    /\ pc = "get" /\ why = "start"
    /\ circuit = <<>> /\ hop = 1 /\ keyed = FALSE
    /\ row = "none" /\ failed = FALSE
    /\ acked = {}
    /\ checked = {} /\ needsRebuild = FALSE /\ answer = NoAnswer
    /\ running = Node
    /\ listed = Node \ Late
    /\ calm = FALSE

----------------------------------------------------------------------------
(* Building a circuit: _setup_circuit and _rebuild_circuit.                *)

\* Mutant: the keys of the old circuit stay until they are replaced.
DiscardCircuitOnly == circuit' = <<>> /\ keyed' = keyed

\* The old circuit is discarded before anything else.
Discard == circuit' = <<>> /\ keyed' = FALSE

\* get_circuit, and a new circuit id; one POST /setup for each hop follows.
GetCircuit ==
    /\ pc = "get"
    /\ \E c \in [Hop -> listed] :
          /\ \A i \in Hop : c[i] \in NodesOf[i]
          /\ circuit' = c
    /\ acked' = {} /\ failed' = FALSE
    /\ pc' = "setup" /\ hop' = 1
    /\ UNCHANGED <<why, keyed, row, checker, running, listed, calm>>

\* set_circuit_nodes.
SetCircuitNodes == checked' = Ids /\ needsRebuild' = FALSE

\* Mutant: the checker learns of the first circuit only.
SetupHopUnchecked ==
    /\ pc = "setup"
    /\ circuit[hop] \in running
    /\ acked' = acked \cup {circuit[hop]}
    /\ IF hop < Hops
       THEN hop' = hop + 1 /\ UNCHANGED <<pc, keyed, checked, needsRebuild>>
       ELSE /\ keyed' = TRUE
            /\ pc' = IF why = "proactive" THEN "send" ELSE "idle"
            /\ needsRebuild' = FALSE
            /\ checked' = IF HealthCheck /\ why = "start" THEN Ids ELSE checked
            /\ UNCHANGED hop
    /\ row' = IF hop = Hops /\ why = "failure" THEN "failed_rebuilt" ELSE row
    /\ UNCHANGED <<why, circuit, answer, failed, world>>

\* The next hop has answered 204.  After the last one the circuit is there,
\* and the checker, if there is one, is told its nodes.
SetupHop ==
    /\ pc = "setup"
    /\ circuit[hop] \in running
    /\ acked' = acked \cup {circuit[hop]}
    /\ IF hop < Hops
       THEN hop' = hop + 1 /\ UNCHANGED <<pc, keyed, checked, needsRebuild>>
       ELSE /\ keyed' = TRUE
            /\ pc' = IF why = "proactive" THEN "send" ELSE "idle"
            /\ IF HealthCheck THEN SetCircuitNodes
                              ELSE UNCHANGED <<checked, needsRebuild>>
            /\ UNCHANGED hop
    /\ row' = IF hop = Hops /\ why = "failure" THEN "failed_rebuilt" ELSE row
    /\ UNCHANGED <<why, circuit, answer, failed, world>>

\* It raises: the user is back between two tasks, with whatever it has got so
\* far; without a first circuit it is gone.
BuildFails ==
    /\ pc' = IF why = "start" THEN "gone" ELSE "idle"
    /\ row' = CASE why = "start"     -> row
                [] why = "proactive" -> "rebuild_failed"
                [] why = "failure"   -> "failed_rebuild_failed"

\* 503: a type has no node listed; or the call fails.
GetCircuitFails ==
    /\ pc = "get"
    /\ calm => \E i \in Hop : listed \cap NodesOf[i] = {}
    /\ BuildFails
    /\ UNCHANGED <<why, circuit, hop, keyed, failed, acked, checker, world>>

\* A hop does not run, or its answer is lost: it may have the key or not.
SetupFails ==
    /\ pc = "setup"
    /\ calm => circuit[hop] \notin running
    /\ BuildFails
    /\ acked' \in {acked, acked \cup ({circuit[hop]} \cap running)}
    /\ UNCHANGED <<why, circuit, hop, keyed, failed, checker, world>>

----------------------------------------------------------------------------
(* The task send_request.                                                  *)

\* It rebuilds first if the checker says so.
BeginTask ==
    /\ pc = "idle"
    /\ IF needsRebuild
       THEN pc' = "get" /\ why' = "proactive" /\ Discard
       ELSE pc' = "send" /\ UNCHANGED <<why, circuit, keyed>>
    /\ UNCHANGED <<hop, row, failed, acked, checker, world>>

\* build_onion, send_onion, decrypt_response: every hop must run and hold the
\* keys of this circuit.
Carried == keyed /\ Ids \subseteq running \cap acked

SendSucceeds ==
    /\ pc = "send"
    /\ Carried
    /\ pc' = "idle" /\ row' = "success"
    /\ UNCHANGED <<why, circuit, hop, keyed, failed, acked, checker, world>>

\* Mutant: a circuit is kept when a request over it fails.
SendFailsKeeping ==
    /\ pc = "send"
    /\ calm => ~Carried
    /\ pc' = "idle" /\ failed' = TRUE
    /\ row' = "failed_rebuild_failed"
    /\ UNCHANGED <<why, circuit, keyed, hop, acked, checker, world>>

\* Any exception, one for missing keys included: rebuild at once.
SendFails ==
    /\ pc = "send"
    /\ calm => ~Carried
    /\ pc' = "get" /\ why' = "failure" /\ failed' = TRUE
    /\ Discard
    /\ UNCHANGED <<hop, row, acked, checker, world>>

----------------------------------------------------------------------------
(* HealthChecker._poll_loop, once on_start is through.                     *)

Poll ==
    /\ HealthCheck /\ checked # {} /\ pc # "gone"
    /\ answer.st = "none"
    /\ answer' = [st |-> "there", ids |-> listed]
    /\ UNCHANGED <<user, acked, checked, needsRebuild, world>>

\* With the lock: is every node of the circuit in the answer?
Compare ==
    /\ answer.st = "there"
    /\ needsRebuild' = (needsRebuild \/ ~(checked \subseteq answer.ids))
    /\ answer' = NoAnswer
    /\ UNCHANGED <<user, acked, checked, world>>

PollFails ==
    /\ ~calm
    /\ answer.st = "there"
    /\ answer' = NoAnswer
    /\ UNCHANGED <<user, acked, checked, needsRebuild, world>>

----------------------------------------------------------------------------
(* The nodes and the directory.                                            *)

\* kill_relay.py, or any crash.  What is started in its place has a new id: it
\* is one of the nodes that register late.
Kill(n) ==
    /\ ~calm /\ n \in running
    /\ running' = running \ {n}
    /\ acked' = acked \ {n}
    /\ UNCHANGED <<user, checker, listed, calm>>

\* The directory's list follows the nodes that run, late; it may also lose
\* one that does run, until it hears of it again.
List(n) ==
    /\ n \in running \ listed
    /\ listed' = listed \cup {n}
    /\ UNCHANGED <<user, acked, checker, running, calm>>

Unlist(n) ==
    /\ n \in listed
    /\ calm => n \notin running
    /\ listed' = listed \ {n}
    /\ UNCHANGED <<user, acked, checker, running, calm>>

\* From now on only dead nodes fail, and one of each type runs.
CalmDown ==
    /\ ~calm
    /\ \A i \in Hop : running \cap NodesOf[i] # {}
    /\ calm' = TRUE
    /\ UNCHANGED <<user, acked, checker, running, listed>>

User ==
    \/ GetCircuit \/ SetupHop \/ GetCircuitFails \/ SetupFails
    \/ BeginTask \/ SendSucceeds \/ SendFails

Next ==
    \/ User
    \/ Poll \/ Compare \/ PollFails
    \/ \E n \in Node : Kill(n) \/ List(n) \/ Unlist(n)
    \/ CalmDown

Spec == Init /\ [][Next]_vars

\* The user runs: every call of it ends.
UserSpec == Spec /\ WF_vars(User)

\* The poll loop runs, and some polls succeed, again and again.
PollsSucceed == WF_vars(Poll) /\ SF_vars(Compare)

\* The directory suspects the dead and hears the living.
DirectoryFollows ==
    \A n \in Node : WF_vars(Unlist(n) /\ n \notin running) /\ WF_vars(List(n))

----------------------------------------------------------------------------
(* Properties.                                                             *)

TypeOK ==
    /\ pc \in {"get", "setup", "idle", "send", "gone"}
    /\ why \in {"start", "proactive", "failure"}
    /\ circuit \in {<<>>} \cup [Hop -> Node]
    /\ hop \in Hop /\ keyed \in BOOLEAN
    /\ row \in {"none", "success", "failed_rebuilt", "failed_rebuild_failed",
                "rebuild_failed"}
    /\ acked \subseteq Node /\ running \subseteq Node /\ listed \subseteq Node
    /\ checked \subseteq Node
    /\ needsRebuild \in BOOLEAN /\ failed \in BOOLEAN /\ calm \in BOOLEAN
    /\ answer \in [st : {"none", "there"}, ids : SUBSET Node]

\* An onion is only ever built with keys that all three hops have under its
\* circuit id, or had when they died: a rebuild that fails half-way never
\* leaves the keys of one circuit with the nodes of another.
KeysMatchCircuit ==
    keyed => circuit # <<>> /\ Ids \cap running \subseteq acked

\* A circuit over which a request has failed is never used again, not even
\* when no other could be had.
FailedIsDiscarded == pc = "send" /\ keyed => ~failed

\* Once nothing new goes wrong, and the directory lists what runs, the user
\* recovers for good: the rows of the CSV file are all "success" from some
\* time on, whether polls raise alarms or not.  (Without a first circuit the
\* user never starts.)
Recovers ==
    DirectoryFollows /\ <>calm => <>[](pc = "gone" \/ row = "success")

\* If polls go on, a node that the directory lists no more, for good, drops
\* out of the circuit for good, even if every request over it would succeed.
UnlistedIsReplaced ==
    PollsSucceed =>
    \A n \in Node :
        <>[](n \notin listed) => <>[](n \notin Ids \/ pc = "gone")
=============================================================================
