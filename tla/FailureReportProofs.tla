-------------------------- MODULE FailureReportProofs --------------------------
(***************************************************************************)
(* Proofs about what experiment 3 reports of a failure, for any users,     *)
(* durations and numbers of rows.                                          *)
(*                                                                         *)
(* The inductive invariant says when a task that is under way began        *)
(* (Began): after the start of the run and after every row its user has    *)
(* logged (Busy), and that the time between is what its clocks add up to.  *)
(* A row inherits that when it is logged (Logged).  It is also what the    *)
(* chart's detection time rests on: the row of a failure comes no earlier  *)
(* than the failure, and later by its own rebuild at most.                 *)
(***************************************************************************)
EXTENDS FailureReport, WellFoundedInduction, TLAPS

TaskType == [does : {"nothing", "replace", "request", "repair"}, since : Nat,
             failed : Nat, spent : Nat, rebuilt : BOOLEAN, duration : Nat]

\* When a task began.  A request that failed has a row without its proactive
\* rebuild.
Began(t) == t.since - (IF t.does = "repair" THEN t.spent ELSE t.duration)

Busy ==
    \A u \in User : task[u].does # "nothing" =>
        /\ start <= Began(task[u]) /\ task[u].since <= now
        /\ task[u].does = "replace" => task[u].duration = 0
        /\ task[u].does = "repair" => task[u].failed = task[u].since
        /\ \A i \in DOMAIN rows : rows[i].user = u => rows[i].at <= Began(task[u])

\* The row of a failure is logged when the rebuild after it ends, if any.
Follows(row) == row.failed <= row.at /\ row.at <= row.failed + row.duration

Logged ==
    \A j \in DOMAIN rows :
        /\ rows[j].at <= now /\ start <= Begun(rows[j]) /\ Follows(rows[j])
        /\ \A i \in 1..(j - 1) :
              rows[i].user = rows[j].user => rows[i].at <= Begun(rows[j])

Exported ==
    /\ running => file = <<>>
    /\ ~running => task = [u \in User |-> Idle] /\ file = rows

IInv ==
    /\ TypeOK
    /\ task \in [User -> TaskType] /\ rows \in Seq(RowType)
    /\ Busy /\ Logged /\ Exported

----------------------------------------------------------------------------
LEMMA ConstantFacts ==
    /\ HealthCheck \in BOOLEAN
    /\ Second \in Nat /\ Second >= 1
    /\ RunDuration \in Nat /\ MaxRows \in Nat /\ MaxTime \in Nat
    /\ Second <= MaxTime /\ Never = MaxTime + 1
BY ReportAssumption DEF Never

LEMMA Times ==
    ASSUME TypeOK
    PROVE  now \in Nat /\ now <= MaxTime /\ start \in Nat /\ start <= now
BY ConstantFacts DEF TypeOK

LEMMA IdleType == Idle \in TaskType /\ Idle.does = "nothing"
BY DEF Idle, TaskType

\* Appending to a sequence leaves its elements where they are.
LEMMA Appended ==
    ASSUME NEW S, NEW q \in Seq(S), NEW e \in S
    PROVE  /\ Append(q, e) \in Seq(S)
           /\ DOMAIN Append(q, e) = DOMAIN q \cup {Len(q) + 1}
           /\ DOMAIN q = 1..Len(q) /\ Len(q) \in Nat
           /\ \A i \in DOMAIN q : Append(q, e)[i] = q[i]
           /\ Append(q, e)[Len(q) + 1] = e
OBVIOUS

LEMMA InitIInv == Init => IInv
<1> SUFFICES ASSUME Init PROVE IInv
    OBVIOUS
<1> USE ConstantFacts DEF Init
<1>1. start \in Nat /\ now = start /\ rows = <<>> /\ file = <<>> /\ running = TRUE
    OBVIOUS
<1>2. task \in [User -> TaskType] /\ \A u \in User : task[u].does = "nothing"
    BY IdleType
<1>3. Busy /\ Logged /\ Exported
    BY <1>1, <1>2 DEF Busy, Logged, Exported
<1>4. rows \in Seq(RowType)
    OBVIOUS
<1>5. TypeOK
    BY <1>1, <1>2 DEF TypeOK
<1> QED BY <1>2, <1>3, <1>4, <1>5 DEF IInv

----------------------------------------------------------------------------
(* The tasks.  Each step of one is the step of a user that holds a task,   *)
(* which then has another, or a row.                                       *)

\* Only in a run is there a task.
LEMMA RunsTask ==
    ASSUME IInv, NEW u \in User, task[u].does # "nothing"
    PROVE  running /\ file = <<>>
BY IdleType DEF IInv, Exported, TypeOK

\* What a user that has a task knows of it.
LEMMA TaskFacts ==
    ASSUME IInv, NEW u \in User, task[u].does # "nothing"
    PROVE  /\ task[u] \in TaskType /\ Began(task[u]) \in Nat
           /\ start <= Began(task[u]) /\ Began(task[u]) <= task[u].since
           /\ task[u].since <= now
           /\ \A i \in DOMAIN rows : rows[i].user = u => rows[i].at <= Began(task[u])
BY Times DEF IInv, Busy, TaskType, Began

\* A task becomes another that began no earlier.
LEMMA TaskGoesOn ==
    ASSUME IInv, NEW u \in User, NEW t \in TaskType, t.does # "nothing",
           running, task' = [task EXCEPT ![u] = t],
           start <= Began(t), t.since <= now,
           t.does = "replace" => t.duration = 0,
           t.does = "repair" => t.failed = t.since,
           \A i \in DOMAIN rows : rows[i].user = u => rows[i].at <= Began(t),
           UNCHANGED <<now, start, running, rows, kill, file>>
    PROVE  IInv'
<1>1. task' \in [User -> TaskType] /\ task'[u] = t
      /\ \A v \in User : v # u => task'[v] = task[v]
    BY DEF IInv
<1>2. TypeOK'
    <2>1. \A v \in User : task'[v].does \in {"nothing", "replace", "request", "repair"}
        BY <1>1 DEF TaskType
    <2> QED BY <2>1 DEF IInv, TypeOK
<1>3. Busy'
    <2> SUFFICES ASSUME NEW v \in User, task'[v].does # "nothing"
                 PROVE  /\ start <= Began(task'[v]) /\ task'[v].since <= now
                        /\ task'[v].does = "replace" => task'[v].duration = 0
                        /\ task'[v].does = "repair" => task'[v].failed = task'[v].since
                        /\ \A i \in DOMAIN rows :
                              rows[i].user = v => rows[i].at <= Began(task'[v])
        BY DEF Busy, Began
    <2>1. CASE v = u
        BY <2>1, <1>1
    <2>2. CASE v # u
        BY <2>2, <1>1 DEF IInv, Busy
    <2> QED BY <2>1, <2>2
<1>4. Logged' /\ Exported' /\ (rows \in Seq(RowType))'
    BY DEF IInv, Logged, Exported, Begun, Spent, Follows
<1> QED BY <1>1, <1>2, <1>3, <1>4 DEF IInv

\* A task ends with a row that accounts for the time since it began.
LEMMA TaskEnds ==
    ASSUME IInv, NEW u \in User, task[u].does # "nothing",
           NEW r \in RowType, r.at = now, r.user = u,
           Begun(r) = Began(task[u]), Follows(r), Log(r),
           task' = [task EXCEPT ![u] = Idle],
           UNCHANGED <<now, start, running, kill, file>>
    PROVE  IInv'
<1>1. task' \in [User -> TaskType] /\ task'[u] = Idle
      /\ \A v \in User : v # u => task'[v] = task[v]
    BY IdleType DEF IInv
<1> DEFINE last == Len(rows) + 1
<1>2. /\ rows' \in Seq(RowType) /\ DOMAIN rows' = DOMAIN rows \cup {last}
      /\ DOMAIN rows = 1..Len(rows) /\ Len(rows) \in Nat
      /\ \A i \in DOMAIN rows : rows'[i] = rows[i]
      /\ rows'[last] = r
    BY Appended DEF IInv, Log
<1> HIDE DEF last
<1>3. TypeOK'
    <2>1. \A v \in User : task'[v].does \in {"nothing", "replace", "request", "repair"}
        BY <1>1 DEF TaskType
    <2>2. \A i \in DOMAIN rows' : rows'[i] \in RowType
        BY <1>2 DEF IInv, TypeOK
    <2>3. file' = <<>>
        BY RunsTask
    <2> QED BY <2>1, <2>2, <2>3 DEF IInv, TypeOK
<1>4. Busy'
    <2> SUFFICES ASSUME NEW v \in User, task'[v].does # "nothing"
                 PROVE  /\ start <= Began(task[v]) /\ task[v].since <= now
                        /\ task[v].does = "replace" => task[v].duration = 0
                        /\ task[v].does = "repair" => task[v].failed = task[v].since
                        /\ \A i \in DOMAIN rows' :
                              rows'[i].user = v => rows'[i].at <= Began(task[v])
                        /\ task'[v] = task[v]
        BY <1>1, IdleType DEF Busy, Began
    <2>1. v # u /\ task'[v] = task[v]
        BY <1>1, IdleType
    <2>2. ASSUME NEW i \in DOMAIN rows', rows'[i].user = v
          PROVE  rows'[i].at <= Began(task[v])
        BY <2>1, <2>2, <1>2 DEF IInv, Busy
    <2> QED BY <2>1, <2>2 DEF IInv, Busy
<1>5. Logged'
    <2> SUFFICES ASSUME NEW j \in DOMAIN rows'
                 PROVE  /\ rows'[j].at <= now /\ start <= Begun(rows'[j])
                        /\ Follows(rows'[j])
                        /\ \A i \in 1..(j - 1) :
                              rows'[i].user = rows'[j].user
                                 => rows'[i].at <= Begun(rows'[j])
        BY DEF Logged, Begun, Spent, Follows
    <2>1. CASE j \in DOMAIN rows
        <3>1. \A i \in 1..(j - 1) : i \in DOMAIN rows
            BY <2>1, <1>2
        <3> QED BY <2>1, <3>1, <1>2 DEF IInv, Logged
    <2>2. CASE j = last
        <3>1. \A i \in 1..(j - 1) : i \in DOMAIN rows
            BY <2>2, <1>2 DEF last
        <3>2. rows'[j] = r /\ now <= now
            BY <2>2, <1>2, Times DEF IInv
        <3> QED BY <3>1, <3>2, <1>2, TaskFacts
    <2> QED BY <2>1, <2>2, <1>2
<1>6. Exported'
    BY RunsTask DEF Exported
<1> QED BY <1>1, <1>2, <1>3, <1>4, <1>5, <1>6 DEF IInv

----------------------------------------------------------------------------
(* The actions of a user.                                                  *)

LEMMA BeginTaskStep ==
    ASSUME IInv, NEW u \in User, BeginTask(u)
    PROVE  IInv'
<1>1. PICK does \in {"request", "replace"} :
        task' = [task EXCEPT ![u] = [Idle EXCEPT !.does = does, !.since = now]]
    BY DEF BeginTask
<1> DEFINE t == [Idle EXCEPT !.does = does, !.since = now]
<1>2. t \in TaskType /\ t.does = does /\ t.since = now /\ t.duration = 0
    BY Times DEF Idle, TaskType, IInv
<1>3. task' = [task EXCEPT ![u] = t]
    BY <1>1
<1> HIDE DEF t
<1>4. Began(t) = now /\ start <= Began(t) /\ t.since <= now
    BY <1>1, <1>2, Times DEF Began, IInv
<1>5. \A i \in DOMAIN rows : rows[i].user = u => rows[i].at <= Began(t)
    BY <1>4 DEF IInv, Logged
<1>6. running /\ UNCHANGED <<now, start, running, rows, kill, file>>
    BY DEF BeginTask
<1>7. t \in TaskType /\ t.does # "nothing" /\ t.does # "repair"
      /\ (t.does = "replace" => t.duration = 0)
    BY <1>1, <1>2
<1> QED BY <1>3, <1>4, <1>5, <1>6, <1>7, TaskGoesOn

LEMMA ReplaceEndsStep ==
    ASSUME IInv, NEW u \in User, NEW ok \in BOOLEAN, ReplaceEnds(u, ok)
    PROVE  IInv'
<1>1. task[u].does = "replace"
    BY DEF ReplaceEnds
<1>2. /\ running /\ task[u] \in TaskType /\ task[u].since \in Nat
      /\ now \in Nat /\ now <= MaxTime /\ task[u].since <= now /\ task[u].duration = 0
      /\ start <= task[u].since /\ Began(task[u]) = task[u].since
      /\ \A i \in DOMAIN rows : rows[i].user = u => rows[i].at <= task[u].since
    BY <1>1, RunsTask, Times, TaskFacts DEF IInv, Busy, TaskType, Began
<1>3. CASE ok
    <2> DEFINE t == [task[u] EXCEPT !.does = "request", !.since = now,
                                    !.rebuilt = TRUE,
                                    !.duration = now - task[u].since]
    <2>1. /\ t \in TaskType /\ t.does = "request" /\ t.since = now
          /\ t.duration = now - task[u].since
        <3>1. now - task[u].since \in Nat
            BY <1>2
        <3> QED BY <1>2, <3>1 DEF TaskType
    <2>2. task' = [task EXCEPT ![u] = t]
        BY <1>3 DEF ReplaceEnds
    <2> HIDE DEF t
    <2>3. /\ Began(t) = task[u].since /\ start <= Began(t) /\ t.since <= now
          /\ \A i \in DOMAIN rows : rows[i].user = u => rows[i].at <= Began(t)
        BY <2>1, <1>2 DEF Began
    <2>4. UNCHANGED <<now, start, running, rows, kill, file>>
        BY <1>3 DEF ReplaceEnds
    <2> QED BY <1>2, <2>1, <2>2, <2>3, <2>4, TaskGoesOn
<1>4. CASE ~ok
    <2> DEFINE d == now - task[u].since
               r == Row(u, "rebuild_failed", d, d, TRUE, now)
    <2>1. d \in 0..MaxTime /\ now \in 0..MaxTime
        BY <1>2, ConstantFacts
    <2>2. /\ r \in RowType /\ r.at = now /\ r.user = u /\ r.failed = now
          /\ r.status = "rebuild_failed" /\ r.latency = d /\ r.duration = d
        BY <2>1 DEF Row, RowType
    <2>3. Log(r) /\ task' = [task EXCEPT ![u] = Idle]
          /\ UNCHANGED <<now, start, running, kill, file>>
        BY <1>4 DEF ReplaceEnds
    <2> HIDE DEF r
    <2>4. Begun(r) = Began(task[u]) /\ Follows(r)
        BY <1>2, <2>1, <2>2 DEF Begun, Spent, Follows
    <2> QED BY <1>1, <2>2, <2>3, <2>4, TaskEnds
<1> QED BY <1>3, <1>4

LEMMA RequestEndsStep ==
    ASSUME IInv, NEW u \in User, NEW ok \in BOOLEAN, RequestEnds(u, ok)
    PROVE  IInv'
<1>1. task[u].does = "request"
    BY DEF RequestEnds
<1>2. /\ running /\ task[u] \in TaskType
      /\ task[u].since \in Nat /\ task[u].duration \in Nat /\ task[u].rebuilt \in BOOLEAN
      /\ now \in Nat /\ now <= MaxTime /\ task[u].since <= now
      /\ start \in Nat /\ start <= task[u].since - task[u].duration
      /\ Began(task[u]) = task[u].since - task[u].duration
      /\ \A i \in DOMAIN rows : /\ rows[i].at \in Nat
                                /\ rows[i].user = u => rows[i].at <= Began(task[u])
    <2>1. \A i \in DOMAIN rows : rows[i].at \in Nat
        BY ConstantFacts DEF IInv, TypeOK, RowType
    <2> QED BY <2>1, <1>1, RunsTask, Times, TaskFacts DEF IInv, TaskType, Began
<1> DEFINE latency == now - task[u].since
<1>3. latency \in 0..MaxTime /\ latency \in Nat /\ now \in 0..MaxTime
      /\ task[u].duration \in 0..MaxTime
    BY <1>2, ConstantFacts
<1>4. CASE ok
    <2> DEFINE r == Row(u, "success", latency, task[u].duration, task[u].rebuilt, now)
    <2>1. /\ r \in RowType /\ r.at = now /\ r.user = u /\ r.failed = now
          /\ r.status = "success" /\ r.latency = latency
          /\ r.duration = task[u].duration
        BY <1>2, <1>3 DEF Row, RowType
    <2>2. Log(r) /\ task' = [task EXCEPT ![u] = Idle]
          /\ UNCHANGED <<now, start, running, kill, file>>
        BY <1>4 DEF RequestEnds
    <2> HIDE DEF r
    <2>3. Begun(r) = Began(task[u]) /\ Follows(r)
        BY <1>2, <1>3, <2>1 DEF Begun, Spent, Follows
    <2> QED BY <1>1, <2>1, <2>2, <2>3, TaskEnds
<1>5. CASE ~ok
    <2> DEFINE t == [task[u] EXCEPT !.does = "repair", !.since = now,
                                    !.failed = now, !.spent = latency]
    <2>1. /\ t \in TaskType /\ t.does = "repair" /\ t.since = now
          /\ t.failed = now /\ t.spent = latency
        BY <1>2, <1>3 DEF TaskType
    <2>2. task' = [task EXCEPT ![u] = t]
        BY <1>5 DEF RequestEnds
    <2>3. UNCHANGED <<now, start, running, rows, kill, file>>
        BY <1>5 DEF RequestEnds
    <2> HIDE DEF t
    <2>4. Began(t) = task[u].since /\ Began(task[u]) <= Began(t)
        BY <2>1, <1>2, <1>3 DEF Began
    <2>5. Began(task[u]) \in Int /\ Began(t) \in Nat /\ start <= Began(t)
          /\ t.since <= now
        BY <2>1, <2>4, <1>2
    <2>6. \A i \in DOMAIN rows : rows[i].user = u => rows[i].at <= Began(t)
        BY <2>4, <2>5, <1>2
    <2> QED BY <1>2, <2>1, <2>2, <2>3, <2>5, <2>6, TaskGoesOn
<1> QED BY <1>4, <1>5

LEMMA RepairEndsStep ==
    ASSUME IInv, NEW u \in User, NEW ok \in BOOLEAN, RepairEnds(u, ok)
    PROVE  IInv'
<1>1. task[u].does = "repair"
    BY DEF RepairEnds
<1>2. /\ task[u] \in TaskType /\ task[u].since \in Nat /\ task[u].spent \in Nat
      /\ now \in Nat /\ now <= MaxTime /\ task[u].since <= now
      /\ start \in Nat /\ start <= task[u].since - task[u].spent
      /\ Began(task[u]) = task[u].since - task[u].spent
      /\ task[u].failed = task[u].since
    BY <1>1, Times, TaskFacts DEF IInv, Busy, TaskType, Began
<1> DEFINE duration == now - task[u].since
           status == IF ok THEN "failed_rebuilt" ELSE "failed_rebuild_failed"
           r == Row(u, status, task[u].spent + duration, duration, TRUE, task[u].failed)
<1>3. /\ duration \in 0..MaxTime /\ task[u].spent + duration \in 0..MaxTime
      /\ now \in 0..MaxTime /\ task[u].failed \in 0..MaxTime
    BY <1>2, ConstantFacts
<1>4. /\ r \in RowType /\ r.at = now /\ r.user = u /\ r.failed = task[u].since
      /\ r.status # "success" /\ r.latency = task[u].spent + duration
      /\ r.duration = duration
    BY <1>2, <1>3 DEF Row, RowType
<1>5. Log(r) /\ task' = [task EXCEPT ![u] = Idle]
      /\ UNCHANGED <<now, start, running, kill, file>>
    BY DEF RepairEnds
<1> HIDE DEF r
<1>6. Begun(r) = Began(task[u]) /\ Follows(r)
    BY <1>2, <1>3, <1>4 DEF Begun, Spent, Follows
<1> QED BY <1>1, <1>4, <1>5, <1>6, TaskEnds

----------------------------------------------------------------------------
(* The kill, the end of the run and the clock.                             *)

LEMMA KillStep == IInv /\ Kill => IInv'
<1> SUFFICES ASSUME IInv, Kill PROVE IInv'
    OBVIOUS
<1>1. UNCHANGED <<now, start, running, task, rows, file>> /\ kill' = now
    BY DEF Kill
<1>2. TypeOK'
    BY <1>1, Times DEF IInv, TypeOK
<1>3. Busy' /\ Logged' /\ Exported'
    BY <1>1 DEF IInv, Busy, Began, Logged, Begun, Spent, Follows, Exported
<1> QED BY <1>1, <1>2, <1>3 DEF IInv

LEMMA EndRunStep == IInv /\ EndRun => IInv'
<1> SUFFICES ASSUME IInv, EndRun PROVE IInv'
    OBVIOUS
<1>1. /\ UNCHANGED <<now, start, rows, kill>> /\ running' = FALSE
      /\ task' = [u \in User |-> Idle] /\ file' = rows
    BY DEF EndRun
<1>2. task' \in [User -> TaskType] /\ \A u \in User : task'[u].does = "nothing"
    BY <1>1, IdleType
<1>3. TypeOK'
    BY <1>1, <1>2 DEF IInv, TypeOK
<1>4. Busy' /\ Exported'
    BY <1>1, <1>2 DEF Busy, Exported
<1>5. Logged' /\ (rows \in Seq(RowType))'
    BY <1>1 DEF IInv, Logged, Begun, Spent, Follows
<1> QED BY <1>2, <1>3, <1>4, <1>5 DEF IInv

LEMMA TickStep == IInv /\ Tick => IInv'
<1> SUFFICES ASSUME IInv, Tick PROVE IInv'
    OBVIOUS
<1>1. /\ UNCHANGED <<start, running, task, rows, kill, file>>
      /\ now' = now + 1 /\ now < MaxTime
    BY DEF Tick
<1>2. now \in Nat /\ start \in Nat /\ start <= now /\ (kill \in 0..now \cup {Never})
    BY Times DEF IInv, TypeOK
<1>3. TypeOK'
    <2>1. now' \in 0..MaxTime /\ start' \in 0..now' /\ kill' \in 0..now' \cup {Never}
        BY <1>1, <1>2, ConstantFacts
    <2> QED BY <1>1, <2>1 DEF IInv, TypeOK
<1>4. Busy'
    <2>1. ASSUME NEW u \in User, task[u].does # "nothing" PROVE task[u].since <= now'
        <3>1. task[u].since \in Nat /\ task[u].since <= now
            BY <2>1, TaskFacts DEF TaskType
        <3> QED BY <1>1, <1>2, <3>1
    <2> QED BY <1>1, <2>1 DEF IInv, Busy, Began
<1>5. Logged'
    <2>1. ASSUME NEW j \in DOMAIN rows PROVE rows[j].at <= now'
        <3>1. rows[j].at \in Nat /\ rows[j].at <= now
            BY <2>1, ConstantFacts DEF IInv, TypeOK, Logged, RowType
        <3> QED BY <1>1, <1>2, <3>1
    <2> QED BY <1>1, <2>1 DEF IInv, Logged, Begun, Spent, Follows
<1>6. Exported' /\ (task \in [User -> TaskType] /\ rows \in Seq(RowType))'
    BY <1>1 DEF IInv, Exported
<1> QED BY <1>3, <1>4, <1>5, <1>6 DEF IInv

\* The invariant holds in every state of every behaviour.
THEOREM Invariant == Spec => []IInv
<1>1. Init => IInv
    BY InitIInv
<1>2. IInv /\ [Next]_vars => IInv'
    <2> SUFFICES ASSUME IInv, [Next]_vars PROVE IInv'
        OBVIOUS
    <2>1. CASE \E u \in User : BeginTask(u)
        BY <2>1, BeginTaskStep
    <2>2. CASE \E u \in User, ok \in BOOLEAN : ReplaceEnds(u, ok)
        BY <2>2, ReplaceEndsStep
    <2>3. CASE \E u \in User, ok \in BOOLEAN : RequestEnds(u, ok)
        BY <2>3, RequestEndsStep
    <2>4. CASE \E u \in User, ok \in BOOLEAN : RepairEnds(u, ok)
        BY <2>4, RepairEndsStep
    <2>5. CASE Kill
        BY <2>5, KillStep
    <2>6. CASE EndRun
        BY <2>6, EndRunStep
    <2>7. CASE Tick
        BY <2>7, TickStep
    <2>8. CASE UNCHANGED vars
        BY <2>8 DEF vars, IInv, TypeOK, Busy, Began, Logged, Begun, Spent, Follows,
                    Exported
    <2> QED BY <2>1, <2>2, <2>3, <2>4, <2>5, <2>6, <2>7, <2>8 DEF Next
<1> QED BY <1>1, <1>2, PTL DEF Spec

----------------------------------------------------------------------------
(* What the invariant gives.                                               *)

\* Every row has the columns that log_csv_row writes, and the file is the rows.
THEOREM TypeCorrect == Spec => []TypeOK
<1>1. IInv => TypeOK
    BY DEF IInv
<1> QED BY <1>1, Invariant, PTL

\* Whatever the users do when, the rows of each account for disjoint times.
THEOREM RowsFit == Spec => []RowsFitTheRun
<1>1. IInv => RowsFitTheRun
    <2> SUFFICES ASSUME IInv PROVE RowsFitTheRun
        OBVIOUS
    <2>1. CASE file = <<>>
        BY <2>1 DEF RowsFitTheRun
    <2>2. CASE file = rows
        BY <2>2 DEF IInv, Logged, RowsFitTheRun
    <2> QED BY <2>1, <2>2 DEF IInv, TypeOK
<1> QED BY <1>1, Invariant, PTL

----------------------------------------------------------------------------
(* The detection time.                                                     *)

LEMMA SmallestFacts ==
    ASSUME NEW S \in SUBSET Nat, S # {}
    PROVE  Smallest(S) \in S /\ \A y \in S : Smallest(S) <= y
<1> DEFINE Less == OpToRel(<, Nat)
<1>1. \A x, y \in Nat : <<x, y>> \in Less <=> x < y
    BY DEF OpToRel
<1>2. IsWellFoundedOn(Less, Nat)
    BY NatLessThanWellFounded
<1> HIDE DEF Less
<1>3. PICK x \in S : \A y \in S : ~(<<y, x>> \in Less)
    BY <1>2, WFMin
<1>4. \A y \in S : x <= y
    <2> SUFFICES ASSUME NEW y \in S PROVE x <= y
        OBVIOUS
    <2>1. x \in Nat /\ y \in Nat /\ ~(y < x)
        BY <1>1, <1>3
    <2> QED BY <2>1
<1> QED BY <1>4 DEF Smallest

LEMMA BiggestFacts ==
    ASSUME NEW S \in SUBSET Int, S # {}, NEW b \in Int, \A y \in S : y <= b
    PROVE  Biggest(S) \in S /\ \A y \in S : Biggest(S) >= y
<1> DEFINE D == {b - y : y \in S}
<1>1. D \in SUBSET Nat /\ D # {}
    <2>1. \A y \in S : b - y \in Nat
        OBVIOUS
    <2> QED BY <2>1
<1>2. PICK d \in D : \A e \in D : d <= e
    BY <1>1, SmallestFacts
<1>3. PICK x \in S : d = b - x
    BY <1>2
<1>4. \A y \in S : x >= y
    <2> SUFFICES ASSUME NEW y \in S PROVE x >= y
        OBVIOUS
    <2>1. b - x <= b - y
        BY <1>2, <1>3
    <2> QED BY <2>1
<1> QED BY <1>4 DEF Biggest

\* The whole second of a time is at most a second before it.
LEMMA StampFacts ==
    ASSUME NEW a \in Nat, NEW s \in Nat, s >= 1
    PROVE  /\ (a \div s) * s \in Nat
           /\ (a \div s) * s <= a /\ a < (a \div s) * s + s
<1>1. a \div s \in Nat /\ s * (a \div s) <= a /\ a < s * (a \div s) + s
    OBVIOUS
<1> DEFINE q == a \div s
<1> HIDE DEF q
<1>2. q \in Nat /\ s * q <= a /\ a < s * q + s
    BY <1>1 DEF q
<1>3. q * s \in Nat /\ q * s <= a /\ a < q * s + s
    BY <1>2
<1> QED BY <1>3 DEF q

\* What the rows of the file say of the failures.
LEMMA FailingFacts ==
    ASSUME IInv
    PROVE  /\ Failing \subseteq RowType
           /\ \A row \in Failing :
                 /\ row.at \in Nat /\ row.failed \in Nat
                 /\ row.duration \in Nat /\ row.duration <= MaxTime
                 /\ row.failed <= row.at /\ row.at <= row.failed + row.duration
                 /\ Stamp(row) \in Nat
                 /\ Stamp(row) <= row.at /\ row.at < Stamp(row) + Second
<1> SUFFICES ASSUME NEW row \in Failing
             PROVE  /\ row \in RowType
                    /\ row.at \in Nat /\ row.failed \in Nat
                    /\ row.duration \in Nat /\ row.duration <= MaxTime
                    /\ row.failed <= row.at /\ row.at <= row.failed + row.duration
                    /\ Stamp(row) \in Nat
                    /\ Stamp(row) <= row.at /\ row.at < Stamp(row) + Second
    OBVIOUS
<1>1. PICK j \in DOMAIN rows : row = rows[j]
    BY DEF Failing, Rows, IInv, TypeOK
<1>2. row \in RowType /\ Follows(row)
    BY <1>1 DEF IInv, TypeOK, Logged
<1>3. /\ row.at \in Nat /\ row.failed \in Nat
      /\ row.duration \in Nat /\ row.duration <= MaxTime
    BY <1>2, ConstantFacts DEF RowType
<1> QED BY <1>2, <1>3, ConstantFacts, StampFacts DEF Follows, Stamp

\* Whenever the tasks, the kill and the start of the run come, the detection
\* time of the chart is at most a second short of the true one, and exceeds it
\* by no more than the longest rebuild that a failure is logged after.
THEOREM DetectionIsRight == Spec => []DetectionWithinRebuild
<1>1. IInv => DetectionWithinRebuild
    <2> SUFFICES ASSUME IInv, kill # Never, FailedAt # {}, \A t \in FailedAt : t >= kill
                 PROVE  LET truth == Smallest(FailedAt) - kill
                            longest == Biggest({row.duration : row \in Failing})
                        IN  /\ DetectionTime > truth - Second
                            /\ DetectionTime <= truth + longest
        BY DEF DetectionWithinRebuild
    <2> DEFINE first == Smallest(FailedAt)
               longest == Biggest({row.duration : row \in Failing})
               stamps == {Stamp(row) : row \in Failing}
               stamp == Smallest(stamps)
               shown == Biggest({0, stamp - kill})
    <2>1. Failing # {} /\ kill \in Nat /\ Second \in Nat
        BY ConstantFacts, Times DEF FailedAt, IInv, TypeOK
    <2>2. /\ first \in Nat /\ first >= kill
          /\ \A row \in Failing : first <= row.failed
          /\ \E row \in Failing : first = row.failed
        <3>1. FailedAt \in SUBSET Nat
            BY FailingFacts DEF FailedAt
        <3>2. first \in FailedAt /\ \A t \in FailedAt : first <= t
            BY <3>1, SmallestFacts
        <3> QED BY <3>1, <3>2 DEF FailedAt
    <2>3. /\ longest \in Nat
          /\ \A row \in Failing : row.duration <= longest
        <3> DEFINE durations == {row.duration : row \in Failing}
        <3>1. durations \in SUBSET Int /\ durations # {}
              /\ (\A d \in durations : d \in Nat /\ d <= MaxTime)
            BY <2>1, FailingFacts
        <3>2. longest \in durations /\ \A d \in durations : longest >= d
            <4>1. longest = Biggest(durations) /\ MaxTime \in Int
                BY ConstantFacts
            <4> HIDE DEF durations, longest
            <4> QED BY <3>1, <4>1, BiggestFacts
        <3>3. longest \in Nat
            BY <3>1, <3>2
        <3> QED BY <3>2, <3>3, FailingFacts
    <2>4. /\ stamp \in Nat
          /\ \A row \in Failing : stamp <= Stamp(row)
          /\ \E row \in Failing : stamp = Stamp(row)
        <3>1. stamps \in SUBSET Nat /\ stamps # {}
            BY <2>1, FailingFacts
        <3>2. stamp \in stamps /\ \A t \in stamps : stamp <= t
            BY <3>1, SmallestFacts
        <3> QED BY <3>1, <3>2
    <2>5. shown \in Int /\ shown >= 0 /\ shown >= stamp - kill
          /\ (shown = 0 \/ shown = stamp - kill)
        <3> HIDE DEF stamp
        <3> DEFINE both == {0, stamp - kill}
        <3>1. stamp - kill \in Int
            BY <2>1, <2>4
        <3>2. \A y \in both : y <= stamp + kill
            BY <2>1, <2>4
        <3>3. both \in SUBSET Int /\ both # {} /\ stamp + kill \in Int
            BY <3>1, <2>1, <2>4
        <3>4. shown \in both /\ \A y \in both : shown >= y
            BY <3>2, <3>3, BiggestFacts
        <3> QED BY <3>1, <3>4
    <2>6. DetectionTime = shown
        BY <2>1 DEF DetectionTime
    <2> HIDE DEF first, longest, stamp, shown
    <2>7. shown > first - kill - Second
        <3>1. PICK row \in Failing : stamp = Stamp(row)
            BY <2>4
        <3>2. first < stamp + Second
            BY <3>1, <2>2, <2>4, <2>1, FailingFacts
        <3> QED BY <3>2, <2>1, <2>2, <2>4, <2>5
    <2>8. shown <= first - kill + longest
        <3>1. PICK row \in Failing : first = row.failed
            BY <2>2
        <3>2. stamp <= first + longest
            <4>1. stamp <= row.at /\ row.at \in Nat
                BY <2>4, FailingFacts
            <4>2. row.at <= first + row.duration /\ row.duration <= longest
                  /\ row.duration \in Nat
                BY <3>1, <2>3, FailingFacts
            <4> QED BY <4>1, <4>2, <2>2, <2>3, <2>4
        <3> QED BY <3>2, <2>1, <2>2, <2>3, <2>4, <2>5
    <2> QED BY <2>6, <2>7, <2>8 DEF first, longest
<1> QED BY <1>1, Invariant, PTL
=============================================================================
