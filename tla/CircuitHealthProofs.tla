------------------------- MODULE CircuitHealthProofs -------------------------
(***************************************************************************)
(* Proofs about the health checker, for any nodes and circuits of one or   *)
(* three hops.                                                             *)
(*                                                                         *)
(* That the published circuit and its nodes part only where a rebuild was  *)
(* given up is inductive with what the rebuild under way has reached: only *)
(* the hop it waits for has a new key on the way to it, and a hop that has *)
(* answered holds its new key, or a stray one that came later (Reached).   *)
(***************************************************************************)
EXTENDS CircuitHealth, TLAPS

\* Nothing is new outside a rebuild; inside one, only the hop waited for has
\* not got its key yet, and what the others got is still there, or displaced.
Reached ==
    /\ pc # "setup" => hop = 1 /\ \A n \in Node : holds[n] # "new"
    /\ \A n \in Node :
          "new" \in flying[n] => pc = "setup" /\ n = fresh[hop]
    /\ pc = "setup" =>
          \A i \in 1..hop :
             fresh[i] \in running /\ "new" \notin flying[fresh[i]]
                => holds[fresh[i]] \in {"new", "stray"}

Displaced ==
    \A i \in Pos : circuit[i] \in running
                      => holds[circuit[i]] \in {"current", "stray", "new"}

IInv == TypeOK /\ Reached /\ Displaced

----------------------------------------------------------------------------
LEMMA PosFacts ==
    /\ Hops \in Nat /\ 1 \in Pos /\ Hops \in Pos
    /\ \A i \in Pos : i \in Nat /\ 1..i \subseteq Pos
    /\ 1..Hops = Pos
BY HealthAssumption DEF Pos

LEMMA CircuitFacts ==
    ASSUME NEW c \in Circuit
    PROVE  /\ c \in [Pos -> Node]
           /\ \A i \in Pos : c[i] \in Node
BY DEF Circuit

LEMMA InitIInv == Init => IInv
<1> SUFFICES ASSUME Init PROVE IInv
    OBVIOUS
<1>1. circuit \in [Pos -> Node]
    BY CircuitFacts DEF Init
<1>2. TypeOK
    BY PosFacts DEF Init, TypeOK, Key
<1>3. Reached
    BY DEF Init, Reached
<1>4. Displaced
    BY <1>1 DEF Init, Displaced, Ids
<1> QED BY <1>2, <1>3, <1>4 DEF IInv

----------------------------------------------------------------------------
(* One lemma for each step.                                                *)

LEMMA IdleSteps ==
    ASSUME IInv, Judge \/ GetCircuitFails
    PROVE  IInv'
<1> USE DEF IInv
<1>1. TypeOK'
    BY DEF TypeOK, Judge, GetCircuitFails, state, world
<1>2. Reached'
    BY DEF Reached, Judge, GetCircuitFails, state, world
<1>3. Displaced'
    BY DEF Displaced, Judge, GetCircuitFails, state, world
<1> QED BY <1>1, <1>2, <1>3

LEMMA GetCircuitStep ==
    ASSUME IInv, GetCircuit
    PROVE  IInv'
<1> USE DEF IInv
<1>1. PICK c \in Circuit : /\ fresh' = c
                           /\ flying' = [flying EXCEPT ![c[1]] = @ \cup {"new"}]
    BY DEF GetCircuit
<1>2. c \in [Pos -> Node] /\ c[1] \in Node /\ 1 \in Pos
    BY CircuitFacts, PosFacts
<1>3. /\ flying \in [Node -> SUBSET {"new", "stray"}]
      /\ flying' \in [Node -> SUBSET {"new", "stray"}]
      /\ "new" \in flying'[c[1]]
      /\ \A n \in Node : n # c[1] => flying'[n] = flying[n]
    BY <1>1, <1>2 DEF TypeOK
<1>4. pc = "get" /\ pc' = "setup" /\ hop' = hop
      /\ UNCHANGED <<ready, circuit, holds, running, listed, calm>>
    BY DEF GetCircuit, state, world
<1>5. hop = 1
    BY <1>4 DEF Reached
<1>6. TypeOK'
    BY <1>1, <1>3, <1>4 DEF TypeOK
<1>7. Reached'
    <2>1. \A n \in Node : "new" \in flying'[n] => n = c[1]
        BY <1>3, <1>4 DEF Reached
    <2> QED BY <2>1, <1>1, <1>3, <1>4, <1>5 DEF Reached
<1>8. Displaced'
    BY <1>4 DEF Displaced
<1> QED BY <1>6, <1>7, <1>8

LEMMA SetupHopStep ==
    ASSUME IInv, SetupHop
    PROVE  IInv'
<1> USE DEF IInv
<1>1. /\ hop \in Pos /\ hop \in Nat /\ hop + 1 \in Pos /\ hop' = hop + 1
      /\ 1..(hop + 1) = (1..hop) \cup {hop + 1}
    BY PosFacts DEF SetupHop, TypeOK, Pos
<1>2. fresh \in [Pos -> Node] /\ fresh[hop] \in Node /\ fresh[hop + 1] \in Node
    BY <1>1, CircuitFacts DEF TypeOK
<1>3. flying' = [flying EXCEPT ![fresh[hop + 1]] = @ \cup {"new"}]
    BY DEF SetupHop
<1>4. /\ flying' \in [Node -> SUBSET {"new", "stray"}]
      /\ "new" \in flying'[fresh[hop + 1]]
      /\ \A n \in Node : n # fresh[hop + 1] => flying'[n] = flying[n]
    BY <1>2, <1>3 DEF TypeOK
<1>5. /\ pc = "setup" /\ pc' = "setup" /\ "new" \notin flying[fresh[hop]]
      /\ UNCHANGED <<ready, circuit, fresh, holds, running, listed, calm>>
    BY DEF SetupHop, Answers, state, world
<1>6. TypeOK'
    BY <1>1, <1>4, <1>5 DEF TypeOK
<1>7. \A n \in Node : "new" \notin flying[n]
    BY <1>5 DEF Reached
<1>8. Reached'
    <2>1. \A n \in Node : "new" \in flying'[n] => n = fresh[hop + 1]
        BY <1>4, <1>7
    <2>2. ASSUME NEW i \in 1..(hop + 1), fresh[i] \in running,
                 "new" \notin flying'[fresh[i]]
          PROVE  holds[fresh[i]] \in {"new", "stray"}
        <3>1. fresh[i] \in Node /\ i \in 1..hop
            BY <1>1, <1>2, <1>4, <2>2, PosFacts
        <3> QED BY <3>1, <2>2, <1>5, <1>7 DEF Reached
    <2> QED BY <2>1, <2>2, <1>1, <1>5 DEF Reached
<1>9. Displaced'
    BY <1>5 DEF Displaced
<1> QED BY <1>6, <1>8, <1>9

LEMMA PublishStep ==
    ASSUME IInv, Publish
    PROVE  IInv'
<1> USE DEF IInv
<1>1. /\ pc = "setup" /\ hop = Hops /\ "new" \notin flying[fresh[hop]]
      /\ pc' = "idle" /\ circuit' = fresh /\ ready' = TRUE /\ hop' = 1
      /\ UNCHANGED <<fresh, flying, running, listed, calm>>
    BY DEF Publish, Answers, world
<1>2. holds' = [n \in Node |-> CASE holds[n] = "current" -> "former"
                                  [] holds[n] = "new"     -> "current"
                                  [] OTHER                -> holds[n]]
    BY DEF Publish
<1>3. /\ holds' \in [Node -> Key]
      /\ \A n \in Node :
            /\ holds'[n] # "new"
            /\ holds[n] = "new" => holds'[n] = "current"
            /\ holds[n] = "stray" => holds'[n] = "stray"
    BY <1>2 DEF TypeOK, Key
<1>4. TypeOK'
    BY <1>1, <1>3, PosFacts DEF TypeOK
<1>5. \A n \in Node : "new" \notin flying[n]
    BY <1>1 DEF Reached
<1>6. Reached'
    BY <1>1, <1>3, <1>5 DEF Reached
<1>7. Displaced'
    <2> SUFFICES ASSUME NEW i \in Pos, fresh[i] \in running
                 PROVE  holds'[fresh[i]] \in {"current", "stray", "new"}
        BY <1>1 DEF Displaced
    <2>1. fresh[i] \in Node
        BY CircuitFacts DEF TypeOK
    <2>2. holds[fresh[i]] \in {"new", "stray"}
        BY <1>1, <1>5, <2>1, PosFacts DEF Reached
    <2> QED BY <2>1, <2>2, <1>3
<1> QED BY <1>4, <1>6, <1>7

LEMMA SetupFailsStep ==
    ASSUME IInv, SetupFails
    PROVE  IInv'
<1> USE DEF IInv
<1>1. /\ pc' = "idle" /\ fresh' = circuit /\ hop' = 1
      /\ UNCHANGED <<ready, circuit, running, listed, calm>>
    BY DEF SetupFails, state, world
<1>2. holds' = [n \in Node |-> IF holds[n] = "new" THEN "stray" ELSE holds[n]]
    BY DEF SetupFails
<1>3. /\ holds' \in [Node -> Key]
      /\ \A n \in Node :
            /\ holds'[n] # "new"
            /\ holds[n] \in {"current", "stray", "new"}
                  => holds'[n] \in {"current", "stray", "new"}
    BY <1>2 DEF TypeOK, Key
<1>4. flying' = [n \in Node |-> IF "new" \in flying[n] THEN Late(n) ELSE flying[n]]
    BY DEF SetupFails
<1>5. /\ flying' \in [Node -> SUBSET {"new", "stray"}]
      /\ \A n \in Node : "new" \notin flying'[n]
    BY <1>4 DEF TypeOK, Late
<1>6. TypeOK'
    BY <1>1, <1>3, <1>5, PosFacts DEF TypeOK
<1>7. Reached'
    BY <1>1, <1>3, <1>5 DEF Reached
<1>8. Displaced'
    BY <1>1, <1>3, CircuitFacts DEF Displaced, TypeOK
<1> QED BY <1>6, <1>7, <1>8

LEMMA HandleSetupStep ==
    ASSUME IInv, NEW n \in Node, NEW key \in flying[n], HandleSetup(n, key)
    PROVE  IInv'
<1> USE DEF IInv
<1>1. /\ n \in running /\ holds' = [holds EXCEPT ![n] = key]
      /\ UNCHANGED <<ready, circuit, pc, fresh, hop, running, listed, calm>>
    BY DEF HandleSetup, state, world
<1>2. key \in {"new", "stray"}
    BY DEF TypeOK
<1>3. /\ holds' \in [Node -> Key] /\ holds'[n] = key
      /\ \A m \in Node : m # n => holds'[m] = holds[m]
    BY <1>1, <1>2 DEF TypeOK, Key
<1>4. /\ flying' \in [Node -> SUBSET {"new", "stray"}]
      /\ \A m \in Node : "new" \in flying'[m] => "new" \in flying[m]
      /\ \A m \in Node : m # n => flying'[m] = flying[m]
    BY DEF HandleSetup, TypeOK
<1>5. key = "new" => pc = "setup"
    BY DEF Reached
<1>6. TypeOK'
    BY <1>1, <1>3, <1>4 DEF TypeOK
<1>7. Reached'
    <2>1. ASSUME pc = "setup", NEW i \in 1..hop, fresh[i] \in running,
                 "new" \notin flying'[fresh[i]]
          PROVE  holds'[fresh[i]] \in {"new", "stray"}
        <3>1. fresh[i] \in Node
            BY CircuitFacts, PosFacts DEF TypeOK
        <3>2. CASE fresh[i] = n
            BY <3>2, <1>2, <1>3
        <3>3. CASE fresh[i] # n
            BY <3>1, <3>3, <1>3, <1>4, <2>1 DEF Reached
        <3> QED BY <3>2, <3>3
    <2>2. pc # "setup" => \A m \in Node : holds'[m] # "new"
        BY <1>2, <1>3, <1>5 DEF Reached
    <2> QED BY <2>1, <2>2, <1>1, <1>4 DEF Reached
<1>8. Displaced'
    BY <1>1, <1>2, <1>3, CircuitFacts DEF Displaced, TypeOK
<1> QED BY <1>6, <1>7, <1>8

LEMMA KillStep ==
    ASSUME IInv, NEW n \in Node, Kill(n)
    PROVE  IInv'
<1> USE DEF IInv
<1>1. /\ running' = running \ {n} /\ holds' = [holds EXCEPT ![n] = "none"]
      /\ flying' = [flying EXCEPT ![n] = @ \ {"stray"}]
      /\ UNCHANGED <<ready, circuit, pc, fresh, hop, listed, calm>>
    BY DEF Kill, state
<1>2. /\ holds' \in [Node -> Key] /\ holds'[n] = "none"
      /\ \A m \in Node : m # n => holds'[m] = holds[m]
    BY <1>1 DEF TypeOK, Key
<1>3. /\ flying' \in [Node -> SUBSET {"new", "stray"}]
      /\ \A m \in Node : "new" \in flying'[m] <=> "new" \in flying[m]
    BY <1>1 DEF TypeOK
<1>4. TypeOK'
    BY <1>1, <1>2, <1>3 DEF TypeOK
<1>5. Reached'
    <2>1. ASSUME pc = "setup", NEW i \in 1..hop, fresh[i] \in running',
                 "new" \notin flying'[fresh[i]]
          PROVE  holds'[fresh[i]] \in {"new", "stray"}
        <3>1. fresh[i] \in Node /\ fresh[i] \in running /\ fresh[i] # n
            BY <1>1, <2>1, CircuitFacts, PosFacts DEF TypeOK
        <3> QED BY <3>1, <1>2, <1>3, <2>1 DEF Reached
    <2>2. pc # "setup" => \A m \in Node : holds'[m] # "new"
        BY <1>2 DEF Reached
    <2> QED BY <2>1, <2>2, <1>1, <1>3 DEF Reached
<1>6. Displaced'
    BY <1>1, <1>2, CircuitFacts DEF Displaced, TypeOK
<1> QED BY <1>4, <1>5, <1>6

LEMMA ListSteps ==
    ASSUME IInv, NEW n \in Node, List(n) \/ Unlist(n) \/ CalmDown
    PROVE  IInv'
<1> USE DEF IInv
<1>1. /\ UNCHANGED <<ready, circuit, pc, fresh, hop, holds, flying, running>>
      /\ listed' \subseteq Node /\ calm' \in BOOLEAN
    BY DEF List, Unlist, CalmDown, TypeOK, state
<1>2. TypeOK'
    BY <1>1 DEF TypeOK
<1>3. Reached'
    BY <1>1 DEF Reached
<1>4. Displaced'
    BY <1>1 DEF Displaced
<1> QED BY <1>2, <1>3, <1>4

LEMMA StepIInv == IInv /\ [Next]_vars => IInv'
<1> SUFFICES ASSUME IInv, [Next]_vars PROVE IInv'
    OBVIOUS
<1>1. CASE Checker
    BY <1>1, IdleSteps, GetCircuitStep, SetupHopStep, PublishStep, SetupFailsStep
       DEF Checker
<1>2. ASSUME NEW n \in Node, NEW key \in flying[n], HandleSetup(n, key)
      PROVE  IInv'
    BY <1>2, HandleSetupStep
<1>3. ASSUME NEW n \in Node, Kill(n)
      PROVE  IInv'
    BY <1>3, KillStep
<1>4. ASSUME NEW n \in Node, List(n) \/ Unlist(n)
      PROVE  IInv'
    BY <1>4, ListSteps
<1>5. CASE CalmDown
    <2>1. 1 \in Pos /\ circuit \in Circuit
        BY PosFacts DEF IInv, TypeOK
    <2>2. circuit[1] \in Node
        BY <2>1, CircuitFacts
    <2> QED BY <2>2, <1>5, ListSteps
<1>6. CASE UNCHANGED vars
    BY <1>6 DEF vars, IInv, TypeOK, Reached, Displaced
<1> QED BY <1>1, <1>2, <1>3, <1>4, <1>5, <1>6 DEF Next

THEOREM Invariant == Spec => []IInv
BY InitIInv, StepIInv, PTL DEF Spec

----------------------------------------------------------------------------
\* The state of the checker, the key stores and the setups on their way keep
\* their types, for any nodes and any number of rebuilds.
THEOREM TypeCorrect == Spec => []TypeOK
<1>1. IInv => TypeOK
    BY DEF IInv
<1> QED BY <1>1, Invariant, PTL

\* For any nodes, and however many rebuilds succeed, fail or are overtaken by
\* late setups: only a rebuild that was given up separates the published
\* circuit from the keys of its nodes.
THEOREM StraysDisplace == Spec => []OnlyStraysDisplace
<1>1. IInv => OnlyStraysDisplace
    <2> SUFFICES ASSUME IInv, NEW n \in Ids(circuit) \cap running
                 PROVE  \/ holds[n] \in {"current", "stray"}
                        \/ pc = "setup" /\ holds[n] = "new"
        BY DEF OnlyStraysDisplace
    <2>1. PICK i \in Pos : n = circuit[i]
        BY DEF Ids
    <2>2. n \in Node /\ holds[n] \in {"current", "stray", "new"}
        BY <2>1, CircuitFacts DEF IInv, TypeOK, Displaced
    <2> QED BY <2>2 DEF IInv, Reached
<1> QED BY <1>1, Invariant, PTL
=============================================================================
