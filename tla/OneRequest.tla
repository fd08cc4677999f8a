----------------------------- MODULE OneRequest -----------------------------
(***************************************************************************)
(* What a caller may rely on who sends one request over circuits and has   *)
(* it retried: the destination executes it at most once for each attempt,  *)
(* and not for one that has not begun; an answer is the answer to the      *)
(* attempt under way; and the outcome stands once it is there.  No more    *)
(* than that: an attempt that was given up may be executed later, even     *)
(* when the request has failed.                                            *)
(***************************************************************************)
EXTENDS Integers

CONSTANT MaxAttempts

VARIABLES
    attempt,  \* the attempt under way, or the last one
    executed, \* the attempts whose request the destination has executed
    outcome   \* "none", "ok" or "failed"

vars == <<attempt, executed, outcome>>

Init == attempt = 1 /\ executed = {} /\ outcome = "none"

Retry ==
    /\ outcome = "none" /\ attempt < MaxAttempts
    /\ attempt' = attempt + 1
    /\ UNCHANGED <<executed, outcome>>

Execute(a) ==
    /\ a \notin executed
    /\ executed' = executed \cup {a}
    /\ UNCHANGED <<attempt, outcome>>

Succeed ==
    /\ outcome = "none" /\ attempt \in executed
    /\ outcome' = "ok"
    /\ UNCHANGED <<attempt, executed>>

Fail ==
    /\ outcome = "none"
    /\ outcome' = "failed"
    /\ UNCHANGED <<attempt, executed>>

Next ==
    \/ Retry \/ Succeed \/ Fail
    \/ \E a \in 1..attempt : Execute(a)

Spec == Init /\ [][Next]_vars
=============================================================================
