----------------------------- MODULE SteppedLoad -----------------------------
(***************************************************************************)
(* A test of experiment 1: the same stepped load on the echo server itself *)
(* (experiments/locust/echo_baseline.py) or over circuits of one or three  *)
(* hops (circuit_1hop.py, circuit_3hop.py), and the samples that           *)
(* experiments/scripts/generate_exp1_charts.py takes from its history file *)
(* for each level.  Each test is a process of its own.                     *)
(*                                                                         *)
(* Time is in seconds.  What a call returns, and when, is not determined   *)
(* here.  Locust (a library) calls tick() at most TickDelay seconds apart, *)
(* has the users asked for at most SpawnDelay seconds later, and once a    *)
(* second appends to stats_history.csv the number of users and statistics  *)
(* over ALL events since the start of the test, percentiles among them:    *)
(* N/A as long as there are none.                                          *)
(***************************************************************************)
EXTENDS Integers, Sequences, FiniteSets

CONSTANTS
    Scenarios,     \* the tests: "direct", "1-hop", "3-hop"
    Levels,        \* CONCURRENCY_LEVELS, the same in all three files
    StageDuration, \* STAGE_DURATION
    TickDelay, SpawnDelay,
    MaxEvents      \* bound on the events of a test, for TLC

\* The levels grow, and a stage is long enough to be seen.
ASSUME SteppedAssumption ==
    /\ Scenarios \subseteq {"direct", "1-hop", "3-hop"} /\ Levels \in Seq(Nat \ {0})
    /\ \A i, j \in DOMAIN Levels : i < j => Levels[i] < Levels[j]
    /\ {TickDelay, SpawnDelay, MaxEvents} \subseteq Nat /\ TickDelay > 0
    /\ StageDuration \in Nat /\ StageDuration > TickDelay + SpawnDelay

VARIABLES
    scenario, \* which test it is
    running,  \* it is under way
    now,      \* get_run_time()
    lastTick, \* when tick() was called last, or -1
    asked,    \* users that tick() asked for
    askedAt,  \* when it asked for another number than before
    users,    \* users there are
    waiting,  \* of these, how many wait for the answer to their request
    stats,    \* the number of events by name
    history   \* stats_history.csv

load == <<lastTick, asked, askedAt, users>>
vars == <<scenario, running, now, lastTick, asked, askedAt, users, waiting,
          stats, history>>

Name == {"target", "circuit_setup", "circuit_request"}
Total(s) == s["target"] + s["circuit_setup"] + s["circuit_request"]

Init ==
    /\ scenario \in Scenarios /\ running = TRUE /\ now = 0
    /\ lastTick = -1 /\ asked = 0 /\ askedAt = 0 /\ users = 0
    /\ waiting = 0 /\ stats = [name \in Name |-> 0]
    /\ history = <<>>

----------------------------------------------------------------------------
(* SteppedLoadShape.tick().                                                *)

\* The first stage that has not ended.
StageAt(t) == t \div StageDuration + 1

Begun(stage) == (stage - 1) * StageDuration

TickDue == running /\ lastTick < now

\* Mutant: every stage has the users of the first.
TickStageFirst ==
    /\ TickDue /\ StageAt(now) <= Len(Levels)
    /\ asked' = Levels[1]
    /\ askedAt' = IF asked' = asked THEN askedAt ELSE now
    /\ lastTick' = now
    /\ UNCHANGED <<scenario, running, now, users, waiting, stats, history>>

TickStage ==
    /\ TickDue /\ StageAt(now) <= Len(Levels)
    /\ asked' = Levels[StageAt(now)]
    /\ askedAt' = IF asked' = asked THEN askedAt ELSE now
    /\ lastTick' = now
    /\ UNCHANGED <<scenario, running, now, users, waiting, stats, history>>

\* Mutant: after the last level the load goes on.
TickEndHolds ==
    /\ TickDue /\ StageAt(now) > Len(Levels)
    /\ lastTick' = now
    /\ UNCHANGED <<scenario, running, now, asked, askedAt, users, waiting, stats,
                   history>>

\* All stages are over: Locust stops its users.
TickEnd ==
    /\ TickDue /\ StageAt(now) > Len(Levels)
    /\ running' = FALSE
    /\ users' = 0 /\ waiting' = 0
    /\ UNCHANGED <<scenario, now, lastTick, asked, askedAt, stats, history>>

Tick == TickStage \/ TickEnd

\* Locust starts the users asked for, all at once or one after the other.
Spawn ==
    /\ running /\ users < asked
    /\ users' \in (users + 1)..asked
    /\ UNCHANGED <<scenario, running, now, lastTick, asked, askedAt, waiting, stats,
                   history>>

----------------------------------------------------------------------------
(* The users' tasks.  An idle user and one that builds its circuit are not *)
(* told apart, nor is a call that fails from one that does not, where the  *)
(* user goes on in the same way.                                           *)

Fire(name) ==
    /\ Total(stats) < MaxEvents
    /\ stats' = [stats EXCEPT ![name] = @ + 1]

\* EchoBaselineUser.hit_target.
HitTarget ==
    /\ running /\ scenario = "direct" /\ users > 0
    /\ Fire("target")
    /\ UNCHANGED <<scenario, running, now, load, waiting, history>>

\* run_circuit of CircuitOneHopUser and CircuitThreeHopUser, first half:
\* get_circuit and setup_circuit; if they fail the task is given up.
SetupEnds(ok) ==
    /\ running /\ scenario # "direct" /\ waiting < users
    /\ Fire("circuit_setup")
    /\ waiting' = IF ok THEN waiting + 1 ELSE waiting
    /\ UNCHANGED <<scenario, running, now, load, history>>

\* Second half: build_onion, send_onion, decrypt_response.
RequestEnds ==
    /\ running /\ waiting > 0
    /\ Fire("circuit_request")
    /\ waiting' = waiting - 1
    /\ UNCHANGED <<scenario, running, now, load, history>>

----------------------------------------------------------------------------
(* The history file.                                                       *)

\* What a row tells the charts; `at` is there for the properties.
HistoryRow == [users |-> users, total |-> Total(stats), at |-> now]

\* Bound on the time of a test, for TLC: the last tick() is due by then.
MaxTime == Len(Levels) * StageDuration + TickDelay

\* A second passes, unless Locust is late.
Advance ==
    /\ running /\ now < lastTick + TickDelay /\ now < MaxTime
    /\ users = asked \/ now < askedAt + SpawnDelay
    /\ history' = Append(history, HistoryRow)
    /\ now' = now + 1
    /\ UNCHANGED <<scenario, running, load, waiting, stats>>

Next ==
    \/ Tick \/ Spawn \/ Advance
    \/ HitTarget \/ RequestEnds
    \/ \E ok \in BOOLEAN : SetupEnds(ok)

Spec == Init /\ [][Next]_vars

\* Locust calls tick(), starts users and lets time pass; the users may hang.
FairSpec == Spec /\ WF_vars(Tick) /\ WF_vars(Spawn) /\ WF_vars(Advance)

----------------------------------------------------------------------------
(* generate_exp1_charts.py.                                                *)
(* A sample is the number of its row in the history.                       *)

\* load_history: rows with users and with percentiles.
Loaded == {i \in DOMAIN history : history[i].users > 0 /\ history[i].total > 0}

AtLevel(level) == {i \in Loaded : history[i].users = level}

\* Mutant: all samples of the level are taken.
SteadyWhole(level) == AtLevel(level)

\* steady_state_by_level: the latter half of the samples with this many users,
\* at least one.
Steady(level) ==
    LET sub == AtLevel(level)
        n == IF Cardinality(sub) < 2 THEN 1 ELSE Cardinality(sub) \div 2
    IN  {i \in sub : Cardinality({j \in sub : j > i}) < n}

----------------------------------------------------------------------------
(* Properties.                                                             *)

TypeOK ==
    /\ scenario \in Scenarios /\ running \in BOOLEAN
    /\ now \in Nat /\ lastTick \in Int /\ askedAt \in Nat
    /\ {asked, users, waiting} \subseteq Nat /\ waiting <= users
    /\ stats \in [Name -> 0..MaxEvents]

\* The samples charted for a level are taken while its stage lasts, up to what
\* Locust is late, and in the second half of it, up to the second of a row:
\* neither late ticks, nor users that start one after the other, nor rows
\* dropped for want of data move a sample to another level or to its ramp-up.
SteadySamplesAreLate ==
    ~running =>
        \A stage \in DOMAIN Levels : \A i \in Steady(Levels[stage]) :
            /\ 2 * (history[i].at + 1) > 2 * Begun(stage) + StageDuration
            /\ history[i].at < Begun(stage) + StageDuration + TickDelay + SpawnDelay

\* Once anything has been measured, no level goes without a sample.
NoLevelIsMissing ==
    ~running =>
        \A k, l \in DOMAIN Levels :
            k < l /\ AtLevel(Levels[k]) # {} => AtLevel(Levels[l]) # {}

\* The test ends, even if every call of the users hangs.
TestEnds == <>~running
=============================================================================
