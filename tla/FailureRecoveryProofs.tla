------------------------ MODULE FailureRecoveryProofs ------------------------
(***************************************************************************)
(* Proofs about the failure-recovery user, for one hop and for three, any  *)
(* nodes, with and without pre-detection.                                  *)
(*                                                                         *)
(* The invariants are about a user that has keys (keyed).  They are not    *)
(* inductive because a circuit gets its keys at the end of a series of     *)
(* /setup calls; Building says what such a series has achieved before: the *)
(* hops up to the one it waits for hold their keys, or have died, and no   *)
(* key of an earlier circuit is left with the user.                        *)
(***************************************************************************)
EXTENDS FailureRecovery, TLAPS

Circuits == [Hop -> Node]

Building ==
    /\ pc \in {"get", "setup"} => ~keyed
    /\ pc = "setup" =>
          /\ circuit \in Circuits /\ ~failed
          /\ \A i \in Hop : i < hop /\ circuit[i] \in running => circuit[i] \in acked

Keyed ==
    keyed => /\ circuit \in Circuits /\ ~failed
             /\ \A i \in Hop : circuit[i] \in running => circuit[i] \in acked

IInv == TypeOK /\ Building /\ Keyed

----------------------------------------------------------------------------
LEMMA HopFacts ==
    Hops \in Nat /\ 1 \in Hop
BY RecoveryAssumption DEF Hop

\* Once there is a circuit, its nodes are one for each hop.
LEMMA IdsOfCircuit ==
    ASSUME circuit \in Circuits
    PROVE  /\ circuit # <<>>
           /\ Ids = {circuit[i] : i \in Hop} /\ Ids \subseteq Node
<1>1. DOMAIN circuit = Hop
    BY DEF Circuits
<1>2. DOMAIN <<>> = {}
    OBVIOUS
<1> QED BY <1>1, <1>2, HopFacts DEF Ids, Circuits

LEMMA InitIInv == Init => IInv
<1> SUFFICES ASSUME Init PROVE IInv
    OBVIOUS
<1>1. hop \in Hop /\ running \subseteq Node /\ listed \subseteq Node
    BY HopFacts DEF Init
<1>2. answer \in [st : {"none", "there"}, ids : SUBSET Node]
    BY DEF Init, NoAnswer
<1>3. TypeOK
    BY <1>1, <1>2 DEF Init, TypeOK
<1> QED BY <1>3 DEF Init, IInv, Building, Keyed

----------------------------------------------------------------------------
(* One lemma for each group of actions.                                    *)

LEMMA BuildStep ==
    ASSUME IInv, GetCircuit \/ SetupHop
    PROVE  IInv'
<1> USE HopFacts DEF IInv, checker, world
<1>1. CASE GetCircuit
    <2>1. circuit' \in Circuits
        <3>1. PICK c \in [Hop -> listed] : circuit' = c
            BY <1>1 DEF GetCircuit
        <3> QED BY <3>1 DEF TypeOK, Circuits
    <2>2. TypeOK'
        BY <1>1, <2>1 DEF GetCircuit, TypeOK, Circuits
    <2>3. Building' /\ Keyed'
        BY <1>1, <2>1 DEF GetCircuit, Building, Keyed, Hop
    <2> QED BY <2>2, <2>3
<1>2. CASE SetupHop
    <2>1. circuit \in Circuits /\ circuit' = circuit /\ ~failed /\ ~failed'
          /\ pc = "setup" /\ hop \in Hop /\ running' = running
        BY <1>2 DEF SetupHop, Building, TypeOK
    <2>2. acked' = acked \cup {circuit[hop]} /\ acked' \subseteq Node
        BY <1>2, <2>1 DEF SetupHop, TypeOK, Circuits
    <2>3. CASE hop < Hops
        <3>1. hop' = hop + 1 /\ pc' = pc /\ keyed' = keyed /\ ~keyed
              /\ checked' = checked /\ needsRebuild' = needsRebuild /\ row' = row
            BY <1>2, <2>3 DEF SetupHop, Building
        <3>2. hop' \in Hop
            BY <3>1, <2>3, <2>1 DEF Hop
        <3>3. TypeOK'
            BY <1>2, <2>1, <2>2, <3>1, <3>2 DEF SetupHop, TypeOK
        <3>4. \A i \in Hop : i < hop' => i < hop \/ i = hop
            BY <3>1, <2>1 DEF Hop
        <3> QED BY <2>1, <2>2, <3>1, <3>3, <3>4 DEF Building, Keyed
    <2>4. CASE ~(hop < Hops)
        <3>1. hop = Hops
            BY <2>1, <2>4 DEF Hop
        <3>2. keyed' = TRUE /\ hop' = hop /\ pc' \in {"send", "idle"}
              /\ row' \in {row, "failed_rebuilt"}
            BY <1>2, <2>4 DEF SetupHop
        <3>3. checked' \subseteq Node /\ needsRebuild' \in BOOLEAN
            BY <1>2, <2>1, <2>4, IdsOfCircuit DEF SetupHop, SetCircuitNodes, TypeOK
        <3>4. TypeOK'
            BY <1>2, <2>1, <2>2, <3>2, <3>3 DEF SetupHop, TypeOK
        <3>5. \A i \in Hop : i < hop \/ i = hop
            BY <3>1 DEF Hop
        <3> QED BY <2>1, <2>2, <3>2, <3>4, <3>5 DEF Building, Keyed
    <2> QED BY <2>3, <2>4
<1> QED BY <1>1, <1>2

LEMMA FailStep ==
    ASSUME IInv, GetCircuitFails \/ SetupFails
    PROVE  IInv'
<1> USE DEF IInv, checker, world
<1>1. pc \in {"get", "setup"} /\ ~keyed /\ ~keyed' /\ pc' \in {"gone", "idle"}
    BY DEF GetCircuitFails, SetupFails, BuildFails, Building
<1>2. row' \in {"none", "success", "failed_rebuilt", "failed_rebuild_failed",
                "rebuild_failed"}
    BY DEF GetCircuitFails, SetupFails, BuildFails, TypeOK
<1>3. acked' \subseteq Node
    BY DEF GetCircuitFails, SetupFails, TypeOK
<1>4. TypeOK'
    BY <1>1, <1>2, <1>3 DEF GetCircuitFails, SetupFails, TypeOK
<1> QED BY <1>1, <1>4 DEF Building, Keyed

LEMMA TaskStep ==
    ASSUME IInv, BeginTask \/ SendSucceeds \/ SendFails
    PROVE  IInv'
<1> USE DEF IInv, checker, world
<1>1. CASE BeginTask
    <2>1. TypeOK'
        BY <1>1 DEF BeginTask, Discard, TypeOK
    <2> QED BY <1>1, <2>1 DEF BeginTask, Discard, Building, Keyed
<1>2. CASE SendSucceeds
    <2>1. TypeOK'
        BY <1>2 DEF SendSucceeds, TypeOK
    <2> QED BY <1>2, <2>1 DEF SendSucceeds, Building, Keyed
<1>3. CASE SendFails
    <2>1. TypeOK'
        BY <1>3 DEF SendFails, Discard, TypeOK
    <2> QED BY <1>3, <2>1 DEF SendFails, Discard, Building, Keyed
<1> QED BY <1>1, <1>2, <1>3

LEMMA PollStep ==
    ASSUME IInv, Poll \/ Compare \/ PollFails
    PROVE  IInv'
<1> USE DEF IInv, user, world
<1>1. Building' /\ Keyed'
    BY DEF Poll, Compare, PollFails, Building, Keyed
<1>2. answer' \in [st : {"none", "there"}, ids : SUBSET Node]
    <2>1. CASE Poll
        BY <2>1 DEF Poll, TypeOK
    <2>2. CASE Compare \/ PollFails
        BY <2>2 DEF Compare, PollFails, NoAnswer
    <2> QED BY <2>1, <2>2
<1>3. needsRebuild' \in BOOLEAN
    BY DEF Poll, Compare, PollFails, TypeOK
<1>4. TypeOK'
    BY <1>2, <1>3 DEF Poll, Compare, PollFails, TypeOK
<1> QED BY <1>1, <1>4

LEMMA WorldStep ==
    ASSUME IInv, CalmDown \/ \E n \in Node : Kill(n) \/ List(n) \/ Unlist(n)
    PROVE  IInv'
<1> USE DEF IInv, user, checker
<1>1. running' \subseteq running /\ running \cap acked \cap running' \subseteq acked'
    BY DEF CalmDown, Kill, List, Unlist
<1>2. Building' /\ Keyed'
    BY <1>1 DEF CalmDown, Kill, List, Unlist, Building, Keyed
<1>3. /\ acked' \subseteq Node /\ running' \subseteq Node /\ listed' \subseteq Node
      /\ calm' \in BOOLEAN
    BY DEF CalmDown, Kill, List, Unlist, TypeOK
<1>4. UNCHANGED <<user, checker>>
    BY DEF CalmDown, Kill, List, Unlist
<1>5. TypeOK'
    BY <1>3, <1>4 DEF TypeOK
<1> QED BY <1>2, <1>5

LEMMA NextIInv == IInv /\ [Next]_vars => IInv'
<1> SUFFICES ASSUME IInv, [Next]_vars PROVE IInv'
    OBVIOUS
<1>1. CASE User
    BY <1>1, BuildStep, FailStep, TaskStep DEF User
<1>2. CASE Poll \/ Compare \/ PollFails
    BY <1>2, PollStep
<1>3. CASE CalmDown \/ \E n \in Node : Kill(n) \/ List(n) \/ Unlist(n)
    BY <1>3, WorldStep
<1>4. CASE UNCHANGED vars
    BY <1>4 DEF vars, IInv, TypeOK, Building, Keyed, Hop
<1> QED BY <1>1, <1>2, <1>3, <1>4 DEF Next

LEMMA Invariance == Spec => []IInv
BY InitIInv, NextIInv, PTL DEF Spec

----------------------------------------------------------------------------
(* The theorems.                                                           *)

\* In every behaviour of the user, its checker and the nodes, the variables of
\* the two threads have their types; the user never waits for a hop it has not.
THEOREM TypesOK == Spec => []TypeOK
<1>1. IInv => TypeOK
    BY DEF IInv
<1> QED BY <1>1, Invariance, PTL

\* Whatever fails while a circuit is built, and whoever dies: keys the user has
\* are those of the nodes of its circuit, and these hold them too.
THEOREM KeysStayWithCircuit == Spec => []KeysMatchCircuit
<1>1. ASSUME Keyed PROVE KeysMatchCircuit
    BY <1>1, IdsOfCircuit DEF Keyed, KeysMatchCircuit
<1>2. IInv => KeysMatchCircuit
    BY <1>1 DEF IInv
<1> QED BY <1>2, Invariance, PTL

\* No request is sent over a circuit over which one has failed.
THEOREM FailedCircuitsAreDiscarded == Spec => []FailedIsDiscarded
<1>1. IInv => FailedIsDiscarded
    BY DEF IInv, Keyed, FailedIsDiscarded
<1> QED BY <1>1, Invariance, PTL
=============================================================================
