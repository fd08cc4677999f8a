# A verification project for HopVault

HopVault is a small onion-routing network: a directory server, node agents
(guards, relays, exits), a client that sends one HTTP request through a circuit
of one or three hops, and Locust users that load and break it. This directory
holds TLA+ modules of the parts that can go wrong in ways a test hardly reaches,
TLC configurations that check them, and proofs checked by TLAPS.

Run inside this directory:

    tlc -workers 2 -config MCDirectory.cfg MCDirectory     # one run, see "Runs"
    tlapm MembershipProofs.tla                             # one proof module

## 1. The system

| Component | Code | State | Operations | Module |
|---|---|---|---|---|
| directory server | `directory-server/main.go` | map of node records behind a mutex; a ticker | register, heartbeat, deregister, nodes, circuit, debug/nodes; sweep of the health monitor; restart | `Directory`, abstract: `FailureDetector` |
| node agent | `shared/node/registration.go`, `*-node/main.go` | identity, backoff, ticker | register with backoff, heartbeat, die, start again | `Membership` |
| onion handlers | `shared/onion/*.go` | key store: circuit id -> session key | setup, onion (forward, exit), key | `Circuit` |
| Go client, one request | `client/client.go` | loop of attempts, rebuild events | get circuit, setup, send, decrypt, retry | `Circuit`, abstract: `OneRequest` |
| Go client, health checker | `client/client.go` | `CircuitState` | poll, compare, rebuild | `CircuitHealth` |
| Locust user, experiment 3 | `experiments/experiment3/locustfile.py`, `experiments/locust/circuit_client.py` | a circuit with keys; `HealthChecker`; the rows of the CSV file | build, rebuild, request; poll loop; export | `FailureRecovery` (the circuit), `FailureReport` (the rows) |
| failure injection | `scripts/kill_relay.py` | the kill event | stop a task | `Kill` of `FailureRecovery` and of `FailureReport` |
| Locust users and shapes, experiment 1 | `echo_baseline.py`, `circuit_1hop.py`, `circuit_3hop.py` in `experiments/locust` | stage, users, statistics | tick of the shape; task; upload | `SteppedLoad` |
| Locust users and load ramp, experiment 2 | `experiments/locust/throughput_scaling.py` | ramp step, step records, ceiling | task of setup and request; tick of the ramp; upload | `LoadRamp`, `ScalingReport` |
| CloudWatch export and charts | `experiments/scripts/*.py`, `experiments/experiment3/generate_charts.py` | files in a bucket | export a window; load; aggregate | `FailureReport` (3), `SteppedLoad` (1), `ScalingReport` (2); what plots a column as it is, is not modelled |
| retry loop in Python | `execute_circuit` in `experiments/locust/circuit_client.py` | - | nothing calls it | not modelled |
| client CLI, configuration, base server, echo server, guard's `/forward/echo`, infrastructure | `client/main.go`, `shared/config`, `shared/server`, `echo-server`, `infra` | none, or declarative | - | not modelled |

How they interact. A node agent makes itself an identity (UUID, RSA key pair,
address) and calls `POST /register` until it is accepted, then
`POST /heartbeat/{id}` for ever. The directory marks records UNHEALTHY that its
monitor finds too old; `GET /nodes` and `GET /circuit` show the HEALTHY ones. A
client fetches a circuit, sends every hop a session key under a *circuit id* by
`POST /setup` (RSA), and then one onion by `POST /onion` to the guard; each hop
opens its layer with the key it has stored for the circuit id, calls the next
one, and wraps the answer with its key. All calls are plain HTTP with time-outs;
there is no message that tells a node that a circuit, an attempt or a caller is
gone. The experiments leave files: Locust's history and statistics, rows logged
by the users, kill events, CloudWatch data points. Scripts join them afterwards,
by time, by number of users, or by relay count.

What is hard here:

- *Real time.* A handler reads the clock before it takes the lock; the monitor
  compares with the time in the tick; detection needs the timeout and a sweep.
- *Calls that outlive their callers.* A setup, an onion, a heartbeat or a
  registration whose sender has timed out, or died, still takes effect.
- *One slot per circuit id.* The Go client uses one circuit id for all attempts
  of a request and for all rebuilds of a `CircuitState`, so nodes common to two
  circuits have their key replaced while the first is in use.
- *Crashes.* Directory and key stores live in memory. A restarted node may have
  its old address, with a new RSA key.
- *Rebuilds that fail half-way* and *poll answers that are stale* when compared.
- *Ticks that come late.* The load shapes find their step from the clock, and
  the ramp its verdict in statistics that run on from one step to the next.
- *Reports made of several sources.* Clocks of different grain, files written
  one by one that may each be missing, windows exported twice, rows logged later
  than what they report.

PROJECT.json lists these hazards at their lines, each with the properties that
would catch it going wrong.

## 2. The modules

### Directory (and FailureDetector, its abstract specification)

State: `nodes` is `NodeRegistry.nodes`; `upserts` and `beats` are the register
and heartbeat handlers between `s.now()` and the mutex; `ticks` and `nextTick`
are the ticker, whose channel holds one tick; `now` the clock. `heard` is a
history variable. `RegisterHandler`/`Upsert` and
`HeartbeatHandler`/`Heartbeat`/`HeartbeatUnknown` are the two halves of a
handler; `Deregister`, `MonitorTick` (`runHealthMonitor` and `MarkUnhealthy`)
and `Restart` are atomic. `Advance` lets time pass unless a handler or the
monitor is due: `HandlerDelay` and `MonitorDelay` bound the scheduling, which
every real-time property needs. `List`, `GroupByType` and `Circuits` are the
read handlers; the random choice of `circuitHandler` is the set of its answers.
A record keeps what the properties tell apart: type, time, status. The id of a
body is never invalid, because callers generate it themselves; the host is, when
the node could not resolve its address.

`FailureDetector` leaves out ticker, lock and handlers: a node becomes HEALTHY
only by a sign of life at most `Lag` old, is suspected only when silent for more
than `Timeout`, and time does not pass while a HEALTHY record is `Bound` old.
`ImplementsDetector` says `Directory` implements it with `Lag` = handler delay,
`Bound` = timeout + interval + monitor delay.

### Membership

Extends `Directory` with the agents: `agent` (phase, start, host, timer,
backoff), `call` (at most one request per process, as in the code) and history
variables. Each action of an agent is a stage of `StartWithBackoff`
(`SendRegister`, `Registered`, `RegisterFails`) or `StartHeartbeat` (`SendBeat`,
`BeatEnds`); `Die` and `StartProcess` are a crash and `NewIdentity`. The
directory's actions are conjoined with what they mean for the call:
`RegisterArrives`, `RegisterTakesEffect`, `BeatArrives`, `BeatTakesEffect`,
`BeatUnknown`, `DirectoryRestarts`. A request outlives its caller: a handler that
is inside the directory goes on after its caller's time-out or death, and a
request that has not reached its handler by then (`Abandons`) is lost or goes
`adrift` and reaches it up to `Linger` later (`LateRegister`,
`LateRegisterRefused`, `LateBeat`), to be stamped with the time of its arrival. A
restart of the directory resets every connection.

### Circuit

One request of the client against nodes, key stores and destination. A *leg*
`<<a, i>>` is hop `i` of attempt `a`; since every leg has a fresh session key it
also names that key, and a ciphertext is the sequence of its layers. `setups`
and `calls` hold every request ever sent, until it is answered: those of an
abandoned attempt stay there and may be handled at any later moment. `keys[n]`
is the one slot of the circuit id. `HandleOpen` is `HandleOnion` up to the call
of the next hop, `ForwardReply`, `ForwardFails`, `Execute`, `ExitReply`,
`ExitFails` what follows. A guard that is the only hop answers a failing
destination with 400 (`ExitFails`). `FailAttempt` is the loop's `continue` with
the event appended at its top. The destination may execute a request whose exit has
given up or died since (`Execute`); that it does so once for each onion opened is
assumed of the exit's HTTP transport, not shown.

`OneRequest` is what a caller may rely on: the destination executes the request
at most once for each attempt begun, an answer is that of the attempt under way,
and the outcome stands. `ImplementsOneRequest` maps the phases of the client and
what the destination has executed to it.

### CircuitHealth

`StartHealthChecker`: `Judge` is a tick with the poll and the comparison,
`GetCircuit`, `SetupHop`, `Publish` and the failing variants are the rebuild.
Keys are told apart by the circuit they were made for (current, new, former,
stray), so the number of rebuilds is unbounded. Comparing and polling is one
step because the goroutine is the only writer of `CircuitState`; `GET /circuit`
is another step, since the list may change in between. The command line never
starts this checker (`--health-check` is parsed and ignored, `client/main.go`
lines 39 and 62-89); the function is modelled as it is. A running node that is
not listed may be listed again (`List`), or never, as after a restart of the
directory.

### FailureRecovery

The Locust user (`pc`, `why`, `circuit`, `keyed`, `row`) and its `HealthChecker`
thread (`checked`, `needsRebuild`, `answer`). `Poll` and `Compare` are separate
because the lock is not held during the request. Every rebuild has a new circuit
id, so `acked` is all that matters of the key stores. `Kill` is `kill_relay.py`,
or any crash. The directory appears as the list it shows (`List`, `Unlist`,
external), late and sometimes wrong, as `Directory` allows.

### FailureReport

What experiment 3 reports. The task of the Locust user is here the time its calls
take: a proactive rebuild, the request, the rebuild after a failure, each of which
may fail (`ReplaceEnds`, `RequestEnds`, `RepairEnds`), and the row that is logged
with the second it is logged in. `Kill` writes the kill event with a finer clock,
`EndRun` is `ConstantLoadShape.tick` with `export_results`. `DetectionTime` is the
figure of `generate_charts.py`. `RowsFitTheRun` compares each row with every
earlier one of its user, not only with the last. Rows carry for the properties the exact time and
when their request failed; the charts see whole seconds.

### SteppedLoad

One test of experiment 1, direct or over circuits, with the shape (`TickStage`,
`TickEnd`), the tasks (`HitTarget`, `SetupEnds`, `RequestEnds`) and the history
file that Locust writes once a second. Locust, external, is late by
`TickDelay` and `SpawnDelay`. `Loaded`, `AtLevel` and `Steady` are what
`generate_exp1_charts.py` makes of the history: rows by number of users, and of
these the latter half, in the hope that it is the steady state of that stage. A
sample is the number of its row.

### LoadRamp

`ThroughputRampShape` of experiment 2 (`lastSampled`, `breached`), the records it
keeps (`records`, `ceiling`) and the users it loads the circuits with, counted
by where they are in `run_circuit` (`inSetup`, `inRequest`). `TickPastEnd`,
`TickHold` and `TickTransition` are the three ways through `tick()`, the last
with `_sample_step`; `BeginTask`, `SetupEnds` and `RequestEnds` are the task, with
the event each half fires. Locust is external: it calls `tick()` at most
`TickDelay` apart, sums the events by name (`Total`), counts failed ones among
the requests too, and removes all users when `tick()` returns `None` (`Stop`).
Of a latency only counts on which side of the p95 threshold it is.

### ScalingReport

What experiment 2 reports of several such ramps: tests one after the other for any
relay counts (`StartTest`, `EndTest` with `upload_results_to_s3`), exports of
CloudWatch windows (`Export`) that overwrite a file of the same window, and the
choice of summaries, rows and data points of the two chart scripts (`Summary`,
`CpuRows`, `CpuWindow`, `CpuPoints`). Time is in half minutes, the least that
`generate_exp2_cpu_chart.py` tells apart. A sum of loads is written as the number
of units it is made of (`CpuOf`).

### MC modules and proofs

`MCDirectory`, `MCMembership`, `MCCircuit`, `MCCircuitHealth`,
`MCFailureRecovery` and `MCSteppedLoad` give nodes, registrations and levels to
TLC; the other modules need nothing but what a .cfg can say. The
theorems are in `MembershipProofs` (of `Directory` and `Membership`),
`CircuitProofs`, `CircuitHealthProofs`, `FailureRecoveryProofs`,
`FailureReportProofs`, `SteppedLoadProofs` and `ThroughputProofs` (of `LoadRamp` and
`ScalingReport`, which share no name and run side by side there).
Operators marked *Mutant* beside a definition are plausible bugs of it; with one
of them in the definition's place TLC finds the property violated that
PROJECT.json names for it, which shows that the property depends on that code.

## 3. The runs

| Run | Instance | Checks |
|---|---|---|
| `directory` | 1 guard, 2 bodies (one refused); timeout 3, interval 2, handler delay 2, monitor delay 1, time 10 | `ListedAreRecent`, `CircuitsAreRecent`, `RegressionBound`, `EarlySuspicionBound`, `ImplementsDetector` |
| `membership` | 1 process, 2 starts; close to the defaults in units of 3.75 s (heartbeat 11 s, timeout 30 s, sweep 11 s, time-out 4 s), backoff cap 15 s, handler delay and linger 4 s, time 49 s | `DeadAreUnlisted`, `MissesToSuspect`, `RegistersSoon`, `DeadDoNotReturn`, `ForgottenStaysForgotten` |
| `circuit` | 3 hops, 1 node of each type, 2 attempts, 1 crash, fair | `ResponseDecrypts`, `SuccessIsThisAttempts`, `UnknownOnlyAfterRestart`, `EventsMatchAttempts`, `BlamedHopIsTheLastCalled`, `RetryFencesOff`, `ImplementsOneRequest`, `Termination` |
| `circuit_health` | 3 hops, 2 relays, fair | `OnlyStraysDisplace`, `StaleCircuitIsReplaced` |
| `circuit_health_keys` | the same | finding: `HoldsItsSessionKeys` |
| `failure_recovery` | 1 hop, 2 guards, one late, pre-detection, fair user | `KeysMatchCircuit`, `FailedIsDiscarded`, `Recovers`, `UnlistedIsReplaced` |
| `failure_report` | 2 users, pre-detection, 2 rows; seconds of 2 ticks, a run of 3 ticks that starts anywhere in a second | `RowsFitTheRun`, `DetectionWithinRebuild` |
| `stepped_load` | direct and 1-hop; levels 1, 2, 3 of 4 s each; a tick up to 2 s and users up to 1 s late, 3 events | `SteadySamplesAreLate`, `NoLevelIsMissing`, `TestEnds` |
| `load_ramp` | steps of 1 to 4 users, 2 units each; a tick up to 2 late, 5 events, threshold 30 % errors | `CeilingIsLastWithin`, `RecordsFollowSteps`, `SetupsFeedRequests`, `RampEnds` |
| `load_ramp_masked` | the same | finding: `CeilingStayedWithinBounds` |
| `load_ramp_unsampled` | the same | finding: `EveryStepIsSampled` |
| `scaling_report` | 2 relay counts, 2 services, 2 tests, 2 exports, 3 minutes | `SummaryIsLatest`, `SameWindowCountsOnce`, `CpuPointsAreOfTheTest` |

Each module has one type invariant (`TypeOK`, `SystemTypeOK`, `ReportTypeOK`). All are proved
(section 5), so no run repeats them. Every property is stated in a comment where
it is defined.

Why the bounds are enough. *Directory*: time 10 is two full cycles of
registration, suspicion (at most 3 + 2 + 1) and recovery; a handler delay of 2
lets two handlers of one node overtake each other; the theorems cover all other
values. *Membership*: in 49 s a node registers, dies, is relisted by what it left
behind, is suspected after 30 s and the sweep, and is started again; the handler
delay of one unit makes a node suspected after one miss (`MissesToSuspect` is then
an inequality without slack), and a linger of one unit is the least with which a
request is stamped after the death of its sender. The theorems are for all values.
*Circuit*: two attempts are one
abandoned attempt and one in progress, the situation every property is about;
with one node of each type every hop of the retry meets the keys of the attempt
before, which is the worst case; other nodes, one hop, and the default of three
attempts are covered by the theorems.
*CircuitHealth*: no bound but the number of nodes; two relays are the least with
which a rebuild changes one node and keeps others. *FailureRecovery*: likewise;
one hop keeps the liveness properties within reach, while `KeysMatchCircuit`,
which is about rebuilds that fail between hops, is proved for three.
*FailureReport*: two rows are the first failure after a kill and another row of
the same or the other user before or after it; with a run of three ticks over two
seconds each order of kill, second and row occurs. *SteppedLoad*: three levels are
a first, one in between, and the last; a stage of four seconds has two seconds
of ramp-up left when Locust is late. *ScalingReport*: two tests of one count or
of two, with two exports of one window, of two, or of overlapping ones.
*LoadRamp*: four steps are the first, which is never a transition, two that are
sampled after another, and the last, which is not; a tick may miss all but the
last instant of a step; five events put the error rate on either side of the
threshold in two consecutive steps. The 50th percentile stands for the 95th,
which would need twenty events to differ from the maximum.

Deadlock checking is off where the system may stop: time is bounded
(`Membership`), the client is done (`Circuit`), nothing is left to repair
(`CircuitHealth`), a user without a first circuit is gone (`FailureRecovery`),
the test has ended (`LoadRamp`, `SteppedLoad`, `FailureReport`), the time is up
(`ScalingReport`).

Fairness. `Circuit`: `http.Client.Timeout` (client 15 s, nodes 10 s) bounds every
wait, so each wait ends, one way or the other; nothing says it ends well.
`CircuitHealth` and `FailureRecovery`: the thread runs and its calls end. That the
directory unlists what is dead is asked in the specification (`DeadAreUnlisted`
is why it does). That it lists what runs is not: after a restart of the directory
an agent that has registered never does so again (`ForgottenStaysForgotten`), and
only new processes are listed. So the properties that need a node to go to say so:
`DirectoryOffers` for `StaleCircuitIsReplaced` (a running node of each type stays
listed in the end, whatever becomes of the others) and `DirectoryFollows` for
`Recovers`. The properties that speak of recovery also assume `calm`, a time from
which only dead nodes fail and one node of each type runs: without it no retry
needs ever to succeed.
`UnlistedIsReplaced` does without calm and without a directory that lists what
runs, but needs polls that succeed again and again (`PollsSucceed`).
`failure_recovery` asks nothing of the polls otherwise, so a user
without pre-detection (`HEALTH_CHECK` unset) is among its behaviours.
`LoadRamp` and `SteppedLoad`: Locust calls `tick()` again and again, starts users,
and time passes; the users are asked nothing, so `RampEnds` and `TestEnds` hold
even if all their calls hang.

## 4. What was found

Three runs expect a violation:

- `HoldsItsSessionKeys`: a proactive rebuild that fails after its first hop
  leaves `CircuitState` Ready with a key that a common node has replaced. If the
  node it missed is listed again, no later check sees anything wrong.
- `CeilingStayedWithinBounds`: the statistics are never reset, so a step is
  judged by all events since the start (`throughput_scaling.py:122`). A step
  whose own error rate is too high passes on the strength of the steps before
  it and is uploaded as the ceiling, "the last step that stayed within bounds"
  (lines 8-9).
- `EveryStepIsSampled`: `tick()` looks for the end of the ramp before it samples
  the step behind (`throughput_scaling.py:100`). The step at the highest number of
  users is run but never judged, recorded or taken for the ceiling, although "After
  each STEP_DURATION window, samples live stats and checks thresholds" (line 81).

Noticed while reading and modelling, and taken by the models as the code has it;
paths are below `client`, `experiments/experiment3`, `experiments/locust` and
`experiments/scripts`:

- *Blame.* The message of every error of `POST /onion` contains "guard", so
  `identifyFailedHop` blames the guard whatever hop failed (`client.go:213`, 220).
  What holds is `BlamedHopIsTheLastCalled`: a relay or an exit is blamed only for an
  attempt that had got as far as its `/setup`, and no further.
- *Retry.* A retry may get the dead node again (`client.go:156`), although
  `week4_plan.md:28` expects the directory to exclude it; with the defaults for
  up to 45 s, timeout plus interval, after the last request it left behind was
  handled (`DeadAreUnlisted`).
- *Detection.* `docs/report.md:254-255` says that "the directory itself takes 30 s
  to mark a relay dead (three missed 10-second heartbeats)". The code compares at
  a sweep, every 15 s (`directory-server/main.go:178`, 233), so it takes more
  than 30 s and up to 45 s (`ListedAreRecent`), longer still from the death if a
  request was on its way. Nor does it count heartbeats: a live node that missed two, or with
  handlers that take any time one, can be 30 s old, because a registration or
  heartbeat is stamped up to 5 s before its answer ends and another one may be
  5 s on its way. `MissesToSuspect` says how many misses it takes.
- *Alarm.* The Locust health checker compares the circuit built after its poll
  with the answer from before it and may throw away a circuit whose nodes are all
  listed (`locustfile.py:138`, 142).
- *Rows.* A row is stamped when the rebuild is over (`locustfile.py:292`), so the
  detection time includes it (`generate_charts.py:131`), as `DetectionWithinRebuild`
  bounds; and a proactive rebuild followed by a failure loses its duration (290,
  165).
- *Rates.* Locust counts a failure among the requests too, so the error rate is
  f / (n + f), less than the share of failures (`throughput_scaling.py:123`).
- *Charts of experiment 3.* Bars of rebuilds mix milliseconds and seconds
  (`generate_charts.py:277`, 288); of several CSV files of a mode, one is taken
  whether the kill event belongs to it or not (107, 398).
- *Charts of experiment 1.* The percentiles of the history are cumulative
  (`generate_exp1_charts.py:87`, 103), throughput counts setups as requests (238),
  and a negative cost of a hop is drawn as 0 (192).
- *Charts of experiment 2.* The CPU bar of a service is the same for all relay
  counts (`generate_exp2_charts.py:259`), windows that overlap count their common
  minutes twice (133), the linear baseline is 0 when the smallest count has no
  ceiling (308), and the CPU window of a test may end half a minute late
  (`generate_exp2_cpu_chart.py:126`, 128).
- *Helpers.* `execute_circuit` retries every exception, also those that the Go
  client does not retry (`circuit_client.py:259`, 265); two runs of
  `extract_locust_metrics.py` at a time may write the header twice (29).

## 5. What is proved

From the named assumptions of each module (timeouts are naturals, the interval is
positive, handler and monitor delays are bounded as stated, node types are
disjoint, hops are 1 or 3) and for all values of the constants:

*MembershipProofs, the directory.* That a HEALTHY record is recent is not
inductive: it holds because the last sweep has spared the record. The invariant
therefore relates every HEALTHY record to the time of that sweep (`Swept`), which the ticker's
state determines (`Ticking`), and bounds the age of handlers in flight
(`Calls`) and how far a record is behind its newest evidence (`Records`). From
it follow `TypeCorrect`, `ListedRecent`, `CircuitsRecent`, `Regression`,
`EarlySuspicion`, and `Implements`: every step is a step of `FailureDetector`.

*MembershipProofs, the system.* Every step of the system is a step of `Directory` or
leaves it alone (`DirectoryImplemented`, a lemma), so all theorems above hold of the
system; in particular it implements `FailureDetector` (`DetectorImplemented`).
`DeadUnlisted` and `DeadStayUnlisted` add that of a dead process nothing is left,
neither a record nor a handler in flight, with a clock reading more than `Linger`
after its death (`Buried`), that a request adrift arrives in time (`Adrift`), and that
identities are not reused (`Dead`). `ForgottenStays` rests on `Known`: a node in its
heartbeat phase is known, or has no registration left, in a handler or adrift.

`RegistrationSoon` and `MissesAreNeeded` are about time. `Waits` says of every agent how
long ago its latest sign was when it waits for a timer or an answer: at most a
backoff, an interval or a time-out. `RegistersSoon` is a part of it. For
`MissesToSuspect`, `Signs` adds how old the directory's newest evidence of a
node can be, counted back from its latest heartbeat: a time-out and a handler delay,
an interval more for each heartbeat missed (`Missed`), and one more as long as it is
open what becomes of the latest (`Unsettled`), which may have reached a handler whose
caller has given up (`Underway`). `Trusted` is the consequence: until the heartbeats
missed fill the timeout (`Silent`), the record of a node is HEALTHY and young enough
for the next sweep.

`MissesAreNeeded` needs a hypothesis on the times, `BeatsInTurn`: a time-out and a
handler delay together are shorter than an interval, so that a heartbeat takes effect
before the next one is sent. It is not an assumption of the module, because the
code does not enforce it: interval and timeout are configurable
(`shared/config/config.go:24`). The `membership` run satisfies it, and so do the
defaults (10 s, 5 s) with any handler delay below 5 s. With them one missed heartbeat
can be enough: a registration is stamped as it arrives and answered 5 s later, the
heartbeat 10 s after that is lost, and the next one, sent 25 s after the stamp, takes
5 s to arrive and waits for the lock while a sweep finds the record more than 30 s
old.

*CircuitProofs.* `ResponsesDecrypt` is inductive only together with what every
call of an attempt holds at every hop (`Legs`): a request has the layers of the
hops still to come, an open handler holds the key of its own leg, an answer has
the layers behind it. `SuccessMeansExecuted` adds that an answer "ok" of a leg
means the attempt was executed.

`RetriesFenceOff` and `UnknownMeansRestart` are about what a node has in its one
slot, although setups of abandoned attempts may arrive at any time. They rest on
the order in which the client sends (`Order`): an onion of an attempt is sent
only once every hop has acknowledged its setup, so none of that attempt's setups is
still on its way. Hence a node that holds a key of a later attempt never gets back
the key of an attempt that was sent (`Fenced`, the inductive form of the action
property), and one whose key pair is as old as the acknowledgement still holds a
key (`KeysKept`). `BlameIsRight` follows the error of an attempt from the call that
failed to the event appended an iteration later.

`EventsMatch`: the rebuild events are those of the attempts so far, each once and
in order; since an event is appended one iteration after the failure it
reports, the invariant (`Story`) ties the number of events to the attempt and
the phase of the loop.

`OneRequestImplemented`: every step of `Circuit` is a step of `OneRequest` or
leaves its variables alone; the invariant of `SuccessMeansExecuted` says that an
answer has been executed before it counts.

*CircuitHealthProofs.* `StraysDisplace` needs what the rebuild under way has
reached (`Reached`): only the hop it waits for still has a new key on its way,
and the hops that answered hold theirs unless a stray one came later.

*FailureRecoveryProofs.* `KeysStayWithCircuit` and `FailedCircuitsAreDiscarded`:
in every phase of a rebuild, what the nodes have acknowledged so far, what the
user keeps of it when a call fails, and that a circuit over which a request has
failed is not there when the next one is sent, for one hop and three.

*FailureReportProofs.* The invariant says when a task that is under way began
(`Began`): after the start of the run and after every row of its user (`Busy`);
that this is what its clocks add up to, a row inherits when it is logged
(`Logged`), which gives `RowsFit`. `Logged` also says that the row of a failure
comes no earlier than the failure and later by its own rebuild at most
(`Follows`). With lemmas on integer division and on least and greatest elements
(the naturals are well-founded) this bounds the error of the chart from both sides:
`DetectionIsRight`, for any number of users and rows and seconds of any length. The
only thing asked of the bound on the time is that it leaves room for the first
second.

*SteppedLoadProofs.* Late ticks and users that start one after the other move
nothing into another stage, because a stage lasts longer than both delays together
(`SteppedAssumption`): while a test runs, the stage of its last tick tells the users
asked for, those of the stage before were all there, and no stage is skipped
(`InStage`). A row keeps what this says of its second (`RowOK`): the stage its
users belong to, and that the last row within a stage has all the users of that
stage. Users and events never get fewer, so from its first sample to that last
row a level has a sample in every row. Hence no later level goes without samples
(`LevelsAreMeasured`), and counting the samples before and after one of the latter
half places it in the second half of the stage (`LatterHalf`, `SteadyIsLate`), for
any levels, durations and delays.

*ThroughputProofs, the ramp.* Late ticks skip no step because a tick is due in each
(`TickDelay <= StepDuration`): `Running` relates the clock, the last tick and
`lastSampled` (`Timing`), the newest record to `lastSampled` (`Followed`), and says
that a running test has only seen records within bounds (`AllWithin`). With a
lemma on integer division `CeilingIsLast`, `RecordsFollow` and `SetupsFeed` follow, for
steps, delays and thresholds of any size, and `LastStepUnsampled`: what the run
`load_ramp_unsampled` shows of one ramp is so in every one that ends by the clock.

*ThroughputProofs, the report.* The last summary put for a count has the latest
stamp, because a test takes time (`Uploads`): `LatestIsCharted`. A file holds points
of its own window only (`Exported`), so if no two windows overlap a minute is in one
file at most; then the rows of all files correspond to the minutes one to one,
and so do the units of their loads, which gives `WindowsCountOnce` for any number
of files without adding anything up. `PointsAreOfTheTest` is about rounding a
window down to minutes. All four rest on `ScalingAssumption`: counts and rates are
positive numbers, and a test lasts at least half a minute.

Only model-checked: liveness (`Termination`, `Recovers`,
`UnlistedIsReplaced`, `StaleCircuitIsReplaced`, `RampEnds`, `TestEnds`), which is
out of the prover's reach. Every invariant, every action property and every
refinement that a passing run checks is a theorem.

## 6. Not modelled

`POST /key` stores a key in clear exactly as `/setup` does and the client does
not use it. The cryptography is what it promises: a layer opens under its own
key only. Parsing, logging and formatting are left out except where
`identifyFailedHop` reads a message. That the exit's HTTP transport repeats a
request by itself, wall-clock jumps, a non-positive cleanup interval, colliding
circuit ids of two clients, and a `requests.Session` shared by the Locust user
and its checker are left out. `execute_circuit` is called by nothing. The
command line, configuration loading, base server, echo server, `/forward/echo`
and infrastructure have no state of their own. Of the scripts, drawing and
uploads that no other program reads are left out, and those that copy or plot a
column as it is (`generate_latency_charts.py`, `extract_locust_metrics.py`, the
baseline summary).

## 7. Plan

Written in this order, most important first; all but the last are there.

1. `Directory`, `FailureDetector` - the shared state everything rests on.
2. `Circuit`, `OneRequest` - the client's retries against the nodes' key stores.
3. `Membership` - the agents composed with the directory.
4. `FailureRecovery` - the Locust user and its poll thread.
5. `CircuitHealth` - the Go health checker.
6. `LoadRamp` - the load test of experiment 2 and its verdict.
7. `FailureReport`, `SteppedLoad`, `ScalingReport` - what the experiments report.
8. `Privacy` - what each hop learns from the layers it opens.

What would come next is liveness, for a prover that has it, and `Privacy`. Every
other property that a run checks is proved.
