------------------------------ MODULE LoadRamp ------------------------------
(***************************************************************************)
(* The load test of experiment 2 (experiments/locust/throughput_scaling.py)*)
(* looking for the highest load the circuits sustain: the shape            *)
(* ThroughputRampShape raises the number of users step by step, samples    *)
(* Locust's statistics once per step, and stops when the error rate or the *)
(* p95 latency is out of bounds; the last step within bounds is the        *)
(* ceiling.  Every ThroughputScalingUser builds a circuit and sends one    *)
(* request over it, again and again.                                       *)
(*                                                                         *)
(* The shape and the users run interleaved; what a user's calls return is  *)
(* not determined here.  Users are interchangeable, so they are counted.   *)
(* Of a response time only counts whether it is above the p95 threshold.   *)
(*                                                                         *)
(* Locust (a library) calls tick() every second or so while the test runs, *)
(* has as many users as tick() returned last, and ends the test when it    *)
(* returns None.  It counts every event fired, failed ones too, and never  *)
(* resets the counts by itself.                                            *)
(***************************************************************************)
EXTENDS Integers, Sequences

CONSTANTS
    MinUsers, MaxUsers, \* MIN_USERS, MAX_USERS
    StepSize,           \* STEP_SIZE
    StepDuration,       \* STEP_DURATION
    ErrorPercent,       \* ERROR_RATE_THRESHOLD, in percent
    Percentile,         \* the percentile of the latency threshold: 95
    TickDelay,          \* longest time from one tick() to the next
    MaxEvents,          \* bound on the events of the users, for TLC
    MaxTime             \* bound on the time, for TLC

\* tick() is called at least once in every step.
ASSUME RampAssumption ==
    /\ MinUsers \in Nat \ {0} /\ MaxUsers \in Nat /\ MinUsers <= MaxUsers
    /\ StepSize \in Nat \ {0} /\ StepDuration \in Nat \ {0}
    /\ ErrorPercent \in Nat /\ Percentile \in 1..99
    /\ TickDelay \in 1..StepDuration
    /\ MaxEvents \in Nat /\ MaxTime \in Nat

VARIABLES
    now,         \* get_run_time()
    lastTick,    \* when tick() was called last, or -1
    phase,       \* "running", or "stopped" once tick() has returned None
    users,       \* users that tick() asked for
    lastSampled, \* self._last_sampled_step
    breached,    \* self._breached
    records,     \* _step_records
    ceiling,     \* _ceiling_record: a sequence of at most one record
    inSetup,     \* users that build a circuit
    inRequest,   \* users that wait for the answer to their request
    stats        \* runner.stats.entries: counts for each name

shape == <<users, lastSampled, breached, records, ceiling>>
tasks == <<inSetup, inRequest>>
vars == <<now, lastTick, phase, users, lastSampled, breached, records, ceiling,
          inSetup, inRequest, stats>>

Name == {"circuit_setup", "circuit_request"}
Outcome == {"fast", "slow", "failed", "timedout"}
Failed == {"failed", "timedout"}
Slow == {"slow", "timedout"}

Init ==
    /\ now = 0 /\ lastTick = -1
    /\ phase = "running" /\ users = 0
    /\ lastSampled = -1 /\ breached = FALSE
    /\ records = <<>> /\ ceiling = <<>>
    /\ inSetup = 0 /\ inRequest = 0
    /\ stats = [name \in Name |-> [requests |-> 0, failures |-> 0, slow |-> 0]]

----------------------------------------------------------------------------
(* Sampling.                                                               *)

\* runner.stats.total
Total == LET setup == stats["circuit_setup"]
             request == stats["circuit_request"]
         IN  [requests |-> setup.requests + request.requests,
              failures |-> setup.failures + request.failures,
              slow     |-> setup.slow + request.slow]

\* Locust's percentile: the p95 of n response times is above the threshold if
\* as many are as may not be within it, all of them included.
SlowPercentile(t) ==
    t.slow > 0 /\ t.slow >= t.requests - (Percentile * t.requests) \div 100

\* The error rate is taken of requests and failures together.
ErrorRateAbove(t) ==
    100 * t.failures > ErrorPercent * (t.requests + t.failures)

StepRecord(step, t) ==
    [step     |-> step,
     users    |-> MinUsers + step * StepSize,
     elapsed  |-> now,
     requests |-> t.requests,
     failures |-> t.failures,
     within   |-> ~SlowPercentile(t) /\ ~ErrorRateAbove(t)]

\* Mutant: the ceiling is recorded before the thresholds are checked.
SampleStepCeilingFirst(step) ==
    IF Total.requests + Total.failures = 0
    THEN UNCHANGED <<records, ceiling, breached>>
    ELSE LET record == StepRecord(step, Total)
         IN  /\ records' = Append(records, record)
             /\ ceiling' = <<record>>
             /\ breached' = (breached \/ ~record.within)

\* _sample_step: nothing is recorded before the first event.
SampleStep(step) ==
    IF Total.requests + Total.failures = 0
    THEN UNCHANGED <<records, ceiling, breached>>
    ELSE LET record == StepRecord(step, Total)
         IN  /\ records' = Append(records, record)
             /\ ceiling' = IF record.within THEN <<record>> ELSE ceiling
             /\ breached' = (breached \/ ~record.within)

----------------------------------------------------------------------------
(* ThroughputRampShape.tick().                                             *)

StepIdx == now \div StepDuration
UsersAt(step) == MinUsers + step * StepSize

TickDue == phase = "running" /\ lastTick < now

\* tick() returns None: the test ends, and all users with it.
Stop ==
    /\ phase' = "stopped" /\ inSetup' = 0 /\ inRequest' = 0
    /\ UNCHANGED users

\* Mutant: the load stays at its maximum.
TickPastEndStays ==
    /\ TickDue
    /\ UsersAt(StepIdx) > MaxUsers
    /\ lastTick' = now
    /\ UNCHANGED <<phase, users, inSetup, inRequest>>
    /\ UNCHANGED <<now, lastSampled, breached, records, ceiling, stats>>

\* The step after the last one is reached.
TickPastEnd ==
    /\ TickDue
    /\ UsersAt(StepIdx) > MaxUsers
    /\ lastTick' = now
    /\ Stop
    /\ UNCHANGED <<now, lastSampled, breached, records, ceiling, stats>>

\* Within a step: the users it has.
TickHold ==
    /\ TickDue
    /\ UsersAt(StepIdx) <= MaxUsers
    /\ StepIdx = 0 \/ StepIdx = lastSampled
    /\ lastTick' = now
    /\ users' = UsersAt(StepIdx)
    /\ UNCHANGED <<now, phase, lastSampled, breached, records, ceiling, tasks, stats>>

\* Mutant: a step is sampled when tick() hits its first instant.
TickTransitionSharp ==
    /\ TickDue
    /\ UsersAt(StepIdx) <= MaxUsers
    /\ StepIdx > 0 /\ StepIdx # lastSampled
    /\ lastTick' = now /\ lastSampled' = StepIdx
    /\ IF now = StepIdx * StepDuration
       THEN SampleStep(StepIdx - 1)
       ELSE UNCHANGED <<records, ceiling, breached>>
    /\ IF breached'
       THEN Stop
       ELSE users' = UsersAt(StepIdx) /\ UNCHANGED <<phase, tasks>>
    /\ UNCHANGED <<now, stats>>

\* The first tick() of a step samples the step before, and stops the test if
\* that was out of bounds.
TickTransition ==
    /\ TickDue
    /\ UsersAt(StepIdx) <= MaxUsers
    /\ StepIdx > 0 /\ StepIdx # lastSampled
    /\ lastTick' = now /\ lastSampled' = StepIdx
    /\ SampleStep(StepIdx - 1)
    /\ IF breached'
       THEN Stop
       ELSE users' = UsersAt(StepIdx) /\ UNCHANGED <<phase, tasks>>
    /\ UNCHANGED <<now, stats>>

Tick == TickPastEnd \/ TickHold \/ TickTransition

\* Time does not pass while a tick() is overdue.
Advance ==
    /\ phase = "running"
    /\ now < lastTick + TickDelay
    /\ now < MaxTime
    /\ now' = now + 1
    /\ UNCHANGED <<lastTick, phase, shape, tasks, stats>>

----------------------------------------------------------------------------
(* ThroughputScalingUser.run_circuit.                                      *)

\* events.request.fire
Fire(name, outcome) ==
    stats' = [stats EXCEPT ![name] =
        [requests |-> @.requests + 1,
         failures |-> @.failures + (IF outcome \in Failed THEN 1 ELSE 0),
         slow     |-> @.slow + (IF outcome \in Slow THEN 1 ELSE 0)]]

MayFire == Total.requests < MaxEvents

\* A user that is idle begins with a new circuit id.
BeginTask ==
    /\ phase = "running"
    /\ inSetup + inRequest < users
    /\ inSetup' = inSetup + 1
    /\ UNCHANGED <<now, lastTick, phase, shape, inRequest, stats>>

\* Mutant: a failed setup does not end the task.
SetupEndsAnyway(outcome) ==
    /\ inSetup > 0 /\ MayFire
    /\ Fire("circuit_setup", outcome)
    /\ inSetup' = inSetup - 1
    /\ inRequest' = inRequest + 1
    /\ UNCHANGED <<now, lastTick, phase, shape>>

\* get_circuit and setup_circuit are through: one event, and on to the request
\* unless one of them raised.
SetupEnds(outcome) ==
    /\ inSetup > 0 /\ MayFire
    /\ Fire("circuit_setup", outcome)
    /\ inSetup' = inSetup - 1
    /\ inRequest' = IF outcome \in Failed THEN inRequest ELSE inRequest + 1
    /\ UNCHANGED <<now, lastTick, phase, shape>>

\* send_onion and decrypt_response are through, or raised: one event.
RequestEnds(outcome) ==
    /\ inRequest > 0 /\ MayFire
    /\ Fire("circuit_request", outcome)
    /\ inRequest' = inRequest - 1
    /\ UNCHANGED <<now, lastTick, phase, shape, inSetup>>

----------------------------------------------------------------------------
Next ==
    \/ Tick
    \/ Advance
    \/ BeginTask
    \/ \E outcome \in Outcome : SetupEnds(outcome) \/ RequestEnds(outcome)

Spec == Init /\ [][Next]_vars

\* Locust calls tick() again and again, and time passes.  Nothing is asked of
\* the users: their calls may all hang.
FairSpec == Spec /\ WF_vars(Tick) /\ WF_vars(Advance)

----------------------------------------------------------------------------
(* Properties.                                                             *)

Entry == [requests : Nat, failures : Nat, slow : Nat]
Sample == [step : Nat, users : Nat, elapsed : Nat, requests : Nat,
           failures : Nat, within : BOOLEAN]

TypeOK ==
    /\ now \in 0..MaxTime /\ lastTick \in -1..MaxTime
    /\ phase \in {"running", "stopped"}
    /\ users \in 0..MaxUsers
    /\ lastSampled \in Int /\ breached \in BOOLEAN
    /\ records \in Seq(Sample) /\ ceiling \in Seq(Sample)
    /\ inSetup \in Nat /\ inRequest \in Nat
    /\ stats \in [Name -> Entry]

\* The ceiling that is uploaded is the last step within bounds: every record
\* before it is within bounds too, and there is one after it only if that one
\* ended the test.
CeilingIsLastWithin ==
    LET good == {j \in DOMAIN records : records[j].within}
    IN  /\ \A j \in DOMAIN records \ good : j = Len(records) /\ phase = "stopped"
        /\ good = {} => ceiling = <<>>
        /\ good # {} => \E j \in good : /\ \A i \in good : i <= j
                                      /\ ceiling = <<records[j]>>

\* No step is skipped or recorded under another one's number of users, however
\* late tick() is called: the records are of consecutive steps, each taken in
\* the step that follows, at most a tick's delay into it.
RecordsFollowSteps ==
    \A j \in DOMAIN records :
        /\ j > 1 => records[j].step = records[j - 1].step + 1
        /\ records[j].elapsed >= (records[j].step + 1) * StepDuration
        /\ records[j].elapsed < (records[j].step + 1) * StepDuration + TickDelay

\* Every task fires one event for its setup and, exactly if the setup
\* succeeded, one for its request; only the end of the test loses some.
SetupsFeedRequests ==
    LET setup == stats["circuit_setup"]
        waiting == setup.requests - setup.failures - stats["circuit_request"].requests
    IN  IF phase = "running" THEN waiting = inRequest ELSE waiting >= 0

\* The test always ends, even if every call of the users hangs.
RampEnds == <>(phase = "stopped")

\* What throughput_scaling.py:8-9 says of the ceiling, "the last step that
\* stayed within bounds": the errors of that step itself, those since the
\* sample before it, are within the threshold.
CeilingStayedWithinBounds ==
    \A j \in 2..Len(records) :
        ceiling = <<records[j]>> =>
            ~ErrorRateAbove(
                [requests |-> records[j].requests - records[j - 1].requests,
                 failures |-> records[j].failures - records[j - 1].failures])

\* What throughput_scaling.py:81 says of the shape, "After each STEP_DURATION
\* window, samples live stats and checks thresholds": a test that ended within
\* bounds, after there was something to sample, has sampled the step at the
\* highest number of users too.
EveryStepIsSampled ==
    phase = "stopped" /\ ~breached /\ records # <<>>
       => UsersAt(records[Len(records)].step + 1) > MaxUsers
=============================================================================
