---------------------------- MODULE FailureReport ----------------------------
(***************************************************************************)
(* What experiment 3 reports of a failure: the CSV rows that the Locust    *)
(* users log (experiments/experiment3/locustfile.py), the kill event of    *)
(* scripts/kill_relay.py, and the charts that generate_charts.py draws     *)
(* from both.  How a circuit is built and used is in FailureRecovery; here *)
(* a task is the time its calls take, and any of them may fail.            *)
(*                                                                         *)
(* Time is in ticks.  A row carries the second in which it was logged, the *)
(* kill event and all durations carry ticks (milliseconds in the code).    *)
(* One run is modelled: each has a process and a file of its own.          *)
(***************************************************************************)
EXTENDS Integers, Sequences, FiniteSets

CONSTANTS
    User,        \* the Locust users
    HealthCheck, \* HEALTH_CHECK
    Second,      \* ticks in a second
    RunDuration, \* RUN_DURATION
    MaxRows,     \* bound on the rows, for TLC
    MaxTime      \* bound on the time, for TLC

\* The bound leaves room for the second in which a run starts.
ASSUME ReportAssumption ==
    /\ HealthCheck \in BOOLEAN
    /\ Second \in Nat \ {0} /\ {RunDuration, MaxRows, MaxTime} \subseteq Nat
    /\ Second <= MaxTime

VARIABLES
    now,      \* the clock
    start,    \* when the run started
    running,  \* it is under way
    task,     \* what each user does
    rows,     \* _csv_rows
    kill,     \* the time in the kill event, or Never
    file      \* the rows of the exported CSV file

vars == <<now, start, running, task, rows, kill, file>>

Never == MaxTime + 1
Idle == [does |-> "nothing", since |-> 0, failed |-> 0, spent |-> 0,
         rebuilt |-> FALSE, duration |-> 0]

\* A run starts anywhere in a second.
Init ==
    /\ start \in 0..(Second - 1) /\ now = start /\ running = TRUE
    /\ task = [u \in User |-> Idle]
    /\ rows = <<>>
    /\ kill = Never
    /\ file = <<>>

----------------------------------------------------------------------------
(* The task send_request, and the row it logs.                             *)

\* log_csv_row.  Besides its columns a row names its user and the time of the
\* failure, if any, for the properties; the charts see of `at` the second only.
Row(u, status, latency, duration, rebuilt, failed) ==
    [at |-> now, status |-> status, latency |-> latency, rebuilt |-> rebuilt,
     duration |-> duration, user |-> u, failed |-> failed]

Log(row) == rows' = Append(rows, row)

MayBegin == Len(rows) + Cardinality({u \in User : task[u] # Idle}) < MaxRows

\* A circuit that the health checker found stale is rebuilt first.
BeginTask(u) ==
    /\ running /\ task[u] = Idle /\ MayBegin
    /\ \E does \in {"request"} \cup
          (IF HealthCheck THEN {"replace"} ELSE {}) :
             task' = [task EXCEPT ![u] = [Idle EXCEPT !.does = does, !.since = now]]
    /\ UNCHANGED <<now, start, running, rows, kill, file>>

\* Mutant: the clock of the request starts with that of the proactive rebuild.
ReplaceEndsUntimed(u, ok) ==
    /\ task[u].does = "replace"
    /\ IF ok
       THEN /\ task' = [task EXCEPT ![u].does = "request",
                                    ![u].rebuilt = TRUE,
                                    ![u].duration = now - task[u].since]
            /\ UNCHANGED rows
       ELSE /\ task' = [task EXCEPT ![u] = Idle]
            /\ Log(Row(u, "rebuild_failed", now - task[u].since,
                       now - task[u].since, TRUE, now))
    /\ UNCHANGED <<now, start, running, kill, file>>

\* The proactive rebuild is through: on to the request, or a row of its own.
ReplaceEnds(u, ok) ==
    /\ task[u].does = "replace"
    /\ IF ok
       THEN /\ task' = [task EXCEPT ![u].does = "request", ![u].since = now,
                                    ![u].rebuilt = TRUE,
                                    ![u].duration = now - task[u].since]
            /\ UNCHANGED rows
       ELSE /\ task' = [task EXCEPT ![u] = Idle]
            /\ Log(Row(u, "rebuild_failed", now - task[u].since,
                       now - task[u].since, TRUE, now))
    /\ UNCHANGED <<now, start, running, kill, file>>

\* The answer decrypts: the row is logged.  It does not: rebuild at once.
RequestEnds(u, ok) ==
    /\ task[u].does = "request"
    /\ LET latency == now - task[u].since
       IN  IF ok
           THEN /\ task' = [task EXCEPT ![u] = Idle]
                /\ Log(Row(u, "success", latency, task[u].duration,
                           task[u].rebuilt, now))
           ELSE /\ task' = [task EXCEPT ![u].does = "repair", ![u].since = now,
                                        ![u].failed = now, ![u].spent = latency]
                /\ UNCHANGED rows
    /\ UNCHANGED <<now, start, running, kill, file>>

\* One row for the failed request and its rebuild, whose duration replaces that
\* of a proactive one.
RepairEnds(u, ok) ==
    /\ task[u].does = "repair"
    /\ LET duration == now - task[u].since
       IN  Log(Row(u, IF ok THEN "failed_rebuilt" ELSE "failed_rebuild_failed",
                   task[u].spent + duration, duration, TRUE, task[u].failed))
    /\ task' = [task EXCEPT ![u] = Idle]
    /\ UNCHANGED <<now, start, running, kill, file>>

----------------------------------------------------------------------------
(* The kill, the end of the run, and the export.                           *)

\* kill_relay.py: the event is written whether ECS stops the task or not, with
\* the time just before.
Kill ==
    /\ running /\ kill = Never
    /\ kill' = now
    /\ UNCHANGED <<now, start, running, task, rows, file>>

\* ConstantLoadShape.tick ends the test and Locust its users, whatever they are
\* doing; export_results writes the rows, if there are any.
EndRun ==
    /\ running /\ now > start + RunDuration
    /\ running' = FALSE
    /\ task' = [u \in User |-> Idle]
    /\ file' = rows
    /\ UNCHANGED <<now, start, rows, kill>>

Tick ==
    /\ running /\ now <= start + RunDuration /\ now < MaxTime
    /\ now' = now + 1
    /\ UNCHANGED <<start, running, task, rows, kill, file>>

Next ==
    \/ \E u \in User : BeginTask(u)
    \/ \E u \in User, ok \in BOOLEAN :
          ReplaceEnds(u, ok) \/ RequestEnds(u, ok) \/ RepairEnds(u, ok)
    \/ Kill
    \/ EndRun
    \/ Tick

Spec == Init /\ [][Next]_vars

----------------------------------------------------------------------------
(* The charts of generate_charts.py.  Times are in ticks.                  *)

\* load_csv: whole seconds, cut off.
Stamp(row) == (row.at \div Second) * Second

Smallest(S) == CHOOSE x \in S : \A y \in S : x <= y
Biggest(S) == CHOOSE x \in S : \A y \in S : x >= y
Rows == {file[i] : i \in DOMAIN file}
Failing == {row \in Rows : row.status # "success"}

\* Mutant: failures are rows with a rebuilt circuit.
DetectionTimeOfRebuilt ==
    LET bad == {row \in Failing : row.status = "failed_rebuilt"}
    IN  IF bad = {} THEN 0
        ELSE Biggest({0, Smallest({Stamp(row) : row \in bad}) - kill})

\* compute_detection_time.
DetectionTime ==
    IF Failing = {} THEN 0
    ELSE Biggest({0, Smallest({Stamp(row) : row \in Failing}) - kill})

----------------------------------------------------------------------------
(* Properties.                                                             *)

RowType == [at : 0..MaxTime, user : User, rebuilt : BOOLEAN, failed : 0..MaxTime,
            status : {"success", "rebuild_failed", "failed_rebuilt",
                      "failed_rebuild_failed"},
            latency : 0..MaxTime, duration : 0..MaxTime]

TypeOK ==
    /\ now \in 0..MaxTime /\ start \in 0..now /\ running \in BOOLEAN
    /\ \A u \in User : task[u].does \in {"nothing", "replace", "request", "repair"}
    /\ \A i \in DOMAIN rows : rows[i] \in RowType
    /\ kill \in 0..now \cup {Never}
    /\ file \in {<<>>, rows}

\* The time that a row accounts for, and when that began.
Spent(row) == IF row.status = "success" THEN row.latency + row.duration
                                        ELSE row.latency
Begun(row) == row.at - Spent(row)

\* The rows of one user account for disjoint times, whatever mix of failures
\* and rebuilds they report: no rebuild is timed twice, or together with a
\* request it does not belong to.
RowsFitTheRun ==
    \A j \in DOMAIN file :
        /\ start <= Begun(file[j])
        /\ \A i \in 1..(j - 1) :
              file[i].user = file[j].user => file[i].at <= Begun(file[j])

\* When the failures of the file happened, as opposed to their rows.
FailedAt == {row.failed : row \in Failing}

\* The chart's detection time is right but for the second of the timestamps and
\* the rebuilds that failed requests are logged after: it is at most a second
\* too short, and too long by no more than the longest such rebuild.
DetectionWithinRebuild ==
    kill # Never /\ FailedAt # {} /\ (\A t \in FailedAt : t >= kill) =>
        LET truth == Smallest(FailedAt) - kill
            longest == Biggest({row.duration : row \in Failing})
        IN  /\ DetectionTime > truth - Second
            /\ DetectionTime <= truth + longest
=============================================================================
