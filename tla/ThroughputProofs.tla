--------------------------- MODULE ThroughputProofs ---------------------------
(***************************************************************************)
(* Proofs about experiment 2: the load ramp of one test, for any steps,    *)
(* thresholds, delays of tick() and numbers of users; and the report of    *)
(* several tests (ScalingReport), for any relay counts, services, and      *)
(* numbers of tests and exports.                                           *)
(*                                                                         *)
(* The ramp: the inductive invariant says what holds while the test runs:  *)
(* the last tick() was in the step now running or the one before it,       *)
(* because it is called in every step (Timing), so the last record is of   *)
(* the step before that (Followed); and no record is out of bounds, so the *)
(* last one is the ceiling (AllWithin).  The action that stops the test    *)
(* turns these into the properties of a stopped one.                       *)
(*                                                                         *)
(* The report: the last summary put for a count has the latest stamp,      *)
(* because a test takes time (Uploads), and a file has points of its own   *)
(* window only (Exported).  If no two windows overlap, a minute is         *)
(* therefore in one file at most, and the rows of all files correspond to  *)
(* the minutes one to one, as do the units of their loads.                 *)
(***************************************************************************)
EXTENDS LoadRamp, ScalingReport, FiniteSetTheorems, TLAPS

\* What lastSampled is after a tick() at time t.
SampledAt(t) == IF t < StepDuration THEN -1 ELSE t \div StepDuration

Timing ==
    /\ lastTick <= now /\ now <= lastTick + TickDelay
    /\ lastSampled = SampledAt(lastTick)
    /\ lastSampled >= 1 => UsersAt(lastSampled) <= MaxUsers

Followed ==
    records # <<>> => /\ records[Len(records)].step = lastSampled - 1
                      /\ Total.requests + Total.failures > 0

AllWithin ==
    /\ \A j \in DOMAIN records : records[j].within
    /\ ceiling = IF records = <<>> THEN <<>> ELSE <<records[Len(records)]>>

Running == ~breached /\ Timing /\ Followed /\ AllWithin
Ended == inSetup = 0 /\ inRequest = 0

\* A test that reaches its end has sampled every step but the last one, once
\* there was anything to sample: the step at MAX_USERS never counts.
LastStepIsNotSampled ==
    phase = "stopped" /\ ~breached /\ records # <<>>
       => UsersAt(records[Len(records)].step + 1) <= MaxUsers
          /\ UsersAt(records[Len(records)].step + 2) > MaxUsers

IInv ==
    /\ TypeOK
    /\ SetupsFeedRequests
    /\ RecordsFollowSteps
    /\ LastStepIsNotSampled
    /\ CeilingIsLastWithin
    /\ phase = "running" => Running
    /\ phase = "stopped" => Ended

----------------------------------------------------------------------------
(* Arithmetic.                                                             *)

LEMMA ConstantFacts ==
    /\ MinUsers \in Nat /\ MinUsers >= 1 /\ MaxUsers \in Nat
    /\ StepSize \in Nat /\ StepSize >= 1
    /\ StepDuration \in Nat /\ StepDuration >= 1
    /\ ErrorPercent \in Nat
    /\ TickDelay \in Nat /\ 1 <= TickDelay /\ TickDelay <= StepDuration
    /\ MaxEvents \in Nat /\ MaxTime \in Nat
BY RampAssumption

LEMMA DivisionFacts ==
    ASSUME NEW n \in Nat, NEW d \in Nat, d >= 1
    PROVE  /\ n \div d \in Nat
           /\ d * (n \div d) <= n /\ n < d * (n \div d) + d
OBVIOUS

LEMMA ProductFacts ==
    ASSUME NEW a \in Nat, NEW b \in Nat
    PROVE  a * b \in Nat
OBVIOUS

LEMMA CancelFacts ==
    ASSUME NEW a \in Int, NEW b \in Int, NEW d \in Nat, d >= 1, d * a < d * b
    PROVE  a < b
OBVIOUS

LEMMA UsersFacts ==
    ASSUME NEW step \in Nat
    PROVE  UsersAt(step) \in Nat
BY ConstantFacts, ProductFacts DEF UsersAt

\* The step now running is the one of the last tick() or the next.
LEMMA StepFacts ==
    ASSUME TypeOK, Timing
    PROVE  /\ StepIdx \in Nat
           /\ StepIdx * StepDuration <= now
           /\ SampledAt(now) = IF StepIdx = 0 THEN -1 ELSE StepIdx
           /\ StepIdx > 0 /\ StepIdx # lastSampled =>
                /\ lastSampled = StepIdx - 1 \/ (StepIdx = 1 /\ lastSampled = -1)
                /\ now < StepIdx * StepDuration + TickDelay
           /\ StepIdx = 0 => lastSampled = -1
<1> DEFINE d == StepDuration
           q == StepIdx
           p == lastTick \div StepDuration
<1>1. now \in Nat /\ lastTick \in Int /\ lastTick >= -1
      /\ lastTick <= now /\ now <= lastTick + TickDelay
      /\ lastSampled = (IF lastTick < d THEN -1 ELSE p)
    BY ConstantFacts DEF TypeOK, Timing, SampledAt
<1>2. d \in Nat /\ d >= 1 /\ TickDelay \in Nat /\ TickDelay <= d
    BY ConstantFacts
<1>3. q \in Nat /\ d * q <= now /\ now < d * q + d
    BY <1>1, <1>2, DivisionFacts DEF StepIdx
<1>4. now < d <=> q = 0
    <2>1. CASE q = 0
        BY <1>1, <1>2, <1>3, <2>1
    <2>2. CASE q # 0
        <3>1. q >= 1 /\ d * q >= d
            BY <1>2, <1>3, <2>2
        <3>2. d * q \in Nat
            BY <1>2, <1>3, ProductFacts
        <3> QED BY <1>1, <1>2, <1>3, <2>2, <3>1, <3>2
    <2> QED BY <2>1, <2>2
<1>5. SampledAt(now) = IF q = 0 THEN -1 ELSE q
    BY <1>4 DEF SampledAt, StepIdx
<1>6. q = 0 => lastSampled = -1
    BY <1>1, <1>2, <1>4
<1>7. ASSUME q > 0, q # lastSampled
      PROVE  /\ lastSampled = q - 1 \/ (q = 1 /\ lastSampled = -1)
             /\ now < d * q + TickDelay
    <2>1. d * q \in Nat
        BY <1>2, <1>3, ProductFacts
    <2>2. CASE lastTick < d
        <3>1. lastSampled = -1
            BY <1>1, <2>2
        <3>2. d * q < d * 2
            BY <1>1, <1>2, <1>3, <2>1, <2>2
        <3>3. q < 2
            BY <1>2, <1>3, <3>2, CancelFacts
        <3>4. q = 1 /\ d * q = d
            BY <1>2, <1>3, <1>7, <3>3
        <3> QED BY <1>1, <1>2, <2>2, <3>1, <3>4
    <2>3. CASE ~(lastTick < d)
        <3>1. lastTick \in Nat /\ lastSampled = p
            BY <1>1, <1>2, <2>3
        <3>2. p \in Nat /\ d * p <= lastTick /\ lastTick < d * p + d
            BY <1>2, <3>1, DivisionFacts
        <3>3. d * p \in Nat /\ d * (p + 2) = d * p + 2 * d /\ d * (p + 1) = d * p + d
              /\ d * (q + 1) = d * q + d
            BY <1>2, <1>3, <3>2, ProductFacts
        <3> HIDE DEF d, q, p
        <3>4. d * q < d * (p + 2)
            BY <1>1, <1>2, <1>3, <2>1, <3>1, <3>2, <3>3
        <3>5. q < p + 2
            BY <1>2, <1>3, <3>2, <3>4, CancelFacts
        <3>6. d * p < d * (q + 1)
            BY <1>1, <1>2, <1>3, <2>1, <3>1, <3>2, <3>3
        <3>7. p < q + 1
            BY <1>2, <1>3, <3>2, <3>6, CancelFacts
        <3>8. q = p + 1
            BY <1>3, <1>7, <3>1, <3>2, <3>5, <3>7
        <3>9. lastTick < d * q
            BY <3>2, <3>3, <3>8
        <3> QED BY <1>1, <1>2, <1>3, <2>1, <3>1, <3>2, <3>8, <3>9
    <2> QED BY <2>2, <2>3
<1> QED BY <1>2, <1>3, <1>5, <1>6, <1>7

----------------------------------------------------------------------------
(* Sampling.                                                               *)

LEMMA TotalFacts ==
    ASSUME TypeOK
    PROVE  Total.requests \in Nat /\ Total.failures \in Nat /\ Total.slow \in Nat
<1>1. stats["circuit_setup"] \in Entry /\ stats["circuit_request"] \in Entry
    BY DEF TypeOK, Name
<1> QED BY <1>1 DEF Total, Entry

\* A sample adds one record, of this step and this time, and is the ceiling or
\* a breach; without any event there is none.
Sampled(step, r) ==
    /\ r \in Sample /\ r.step = step /\ r.elapsed = now
    /\ records' = Append(records, r)
    /\ r.within => ceiling' = <<r>> /\ breached' = breached
    /\ ~r.within => ceiling' = ceiling /\ breached' = TRUE
    /\ Total.requests + Total.failures > 0

NotSampled ==
    /\ Total.requests + Total.failures = 0
    /\ UNCHANGED <<records, ceiling, breached>>

LEMMA SampleFacts ==
    ASSUME TypeOK, NEW step \in Nat, SampleStep(step)
    PROVE  NotSampled \/ \E r : Sampled(step, r)
<1> DEFINE r == StepRecord(step, Total)
<1>1. r \in Sample
    <2>1. now \in Nat
        BY ConstantFacts DEF TypeOK
    <2>2. MinUsers + step * StepSize \in Nat
        BY UsersFacts DEF UsersAt
    <2> QED BY <2>1, <2>2, TotalFacts DEF StepRecord, Sample
<1>2. r.step = step /\ r.elapsed = now /\ r.within \in BOOLEAN
    BY <1>1 DEF StepRecord, Sample
<1>3. CASE Total.requests + Total.failures = 0
    BY <1>3, Zenon DEF SampleStep, NotSampled
<1>4. CASE ~(Total.requests + Total.failures = 0)
    <2>1. /\ records' = Append(records, r)
          /\ ceiling' = (IF r.within THEN <<r>> ELSE ceiling)
          /\ breached' = (breached \/ ~r.within)
        BY <1>4, Zenon DEF SampleStep
    <2>2. Total.requests + Total.failures > 0
        BY <1>4, TotalFacts
    <2>3. breached \in BOOLEAN
        BY DEF TypeOK
    <2> HIDE DEF r
    <2>4. r.within => ceiling' = <<r>> /\ breached' = breached
        BY <2>1, <2>3
    <2>5. ~r.within => ceiling' = ceiling /\ breached' = TRUE
        BY <2>1, <2>3
    <2> QED BY <1>1, <1>2, <2>1, <2>2, <2>4, <2>5 DEF Sampled
<1> QED BY <1>3, <1>4

\* The record that a sample adds is the last; the others stay.
LEMMA AppendFacts ==
    ASSUME NEW s \in Seq(Sample), NEW r \in Sample
    PROVE  /\ Append(s, r) \in Seq(Sample) /\ Append(s, r) # <<>>
           /\ Len(Append(s, r)) = Len(s) + 1 /\ Len(s) \in Nat
           /\ DOMAIN s = 1..Len(s) /\ DOMAIN Append(s, r) = 1..(Len(s) + 1)
           /\ Append(s, r)[Len(s) + 1] = r
           /\ \A j \in 1..Len(s) : Append(s, r)[j] = s[j]
OBVIOUS

----------------------------------------------------------------------------
(* The ceiling.                                                            *)

LEMMA AllWithinCeiling ==
    ASSUME TypeOK, AllWithin
    PROVE  CeilingIsLastWithin
<1> DEFINE good == {j \in DOMAIN records : records[j].within}
<1>1. good = DOMAIN records /\ DOMAIN records = 1..Len(records) /\ Len(records) \in Nat
    <2>1. DOMAIN records = 1..Len(records) /\ Len(records) \in Nat
        BY DEF TypeOK
    <2>2. good = DOMAIN records
        BY DEF AllWithin
    <2> QED BY <2>1, <2>2
<1>2. CASE records = <<>>
    <2>1. ceiling = <<>> /\ DOMAIN records = {}
        BY <1>1, <1>2 DEF AllWithin
    <2> QED BY <1>1, <2>1 DEF CeilingIsLastWithin
<1>3. CASE records # <<>>
    <2>1. ceiling = <<records[Len(records)]>> /\ Len(records) \in good
          /\ \A i \in good : i <= Len(records)
        BY <1>1, <1>3 DEF AllWithin, TypeOK
    <2> QED BY <1>1, <2>1 DEF CeilingIsLastWithin
<1> QED BY <1>2, <1>3

\* The sample that ends the test leaves the ceiling where it was.
LEMMA BreachCeiling ==
    ASSUME TypeOK, AllWithin, NEW r \in Sample, ~r.within,
           records' = Append(records, r), ceiling' = ceiling, phase' = "stopped"
    PROVE  CeilingIsLastWithin'
<1> DEFINE n == Len(records)
           good == {j \in DOMAIN records' : records'[j].within}
<1>1. /\ n \in Nat /\ DOMAIN records = 1..n /\ DOMAIN records' = 1..(n + 1)
      /\ Len(records') = n + 1
      /\ records'[n + 1] = r /\ \A j \in 1..n : records'[j] = records[j]
    BY AppendFacts DEF TypeOK
<1>2. good = 1..n
    BY <1>1 DEF AllWithin
<1>3. \A j \in DOMAIN records' \ good : j = Len(records')
    BY <1>1, <1>2
<1>4. CASE n = 0
    <2>1. good = {} /\ records = <<>>
        BY <1>1, <1>2, <1>4 DEF TypeOK
    <2>2. ceiling' = <<>>
        BY <2>1 DEF AllWithin
    <2> QED BY <1>3, <2>1, <2>2 DEF CeilingIsLastWithin
<1>5. CASE n # 0
    <2>1. n \in 1..n /\ \A i \in 1..n : i <= n
        BY <1>1, <1>5
    <2>2. ceiling' = <<records'[n]>>
        <3>1. records # <<>>
            BY <1>5 DEF TypeOK
        <3>2. ceiling' = <<records[n]>>
            BY <3>1 DEF AllWithin
        <3> QED BY <1>1, <2>1, <3>2
    <2>3. good # {} /\ n \in good /\ \A i \in good : i <= n
        BY <1>2, <2>1
    <2> QED BY <1>3, <2>2, <2>3 DEF CeilingIsLastWithin
<1> QED BY <1>4, <1>5

\* A sample within bounds is the ceiling.
LEMMA WithinCeiling ==
    ASSUME TypeOK, AllWithin, NEW r \in Sample, r.within,
           records' = Append(records, r), ceiling' = <<r>>
    PROVE  AllWithin'
<1> DEFINE n == Len(records)
<1>1. /\ n \in Nat /\ DOMAIN records = 1..n /\ DOMAIN records' = 1..(n + 1)
      /\ Len(records') = n + 1 /\ records' # <<>>
      /\ records'[n + 1] = r /\ \A j \in 1..n : records'[j] = records[j]
    BY AppendFacts DEF TypeOK
<1>2. \A j \in DOMAIN records' : records'[j].within
    <2> SUFFICES ASSUME NEW j \in 1..(n + 1) PROVE records'[j].within
        BY <1>1
    <2>1. CASE j = n + 1
        BY <1>1, <2>1
    <2>2. CASE j \in 1..n
        BY <1>1, <2>2 DEF AllWithin
    <2> QED BY <1>1, <2>1, <2>2
<1>3. ceiling' = <<records'[Len(records')]>>
    BY <1>1
<1> QED BY <1>1, <1>2, <1>3 DEF AllWithin

----------------------------------------------------------------------------
(* The steps of the shape.                                                 *)

LEMMA InitIInv == Init => IInv
<1> SUFFICES ASSUME Init PROVE IInv
    OBVIOUS
<1>1. TypeOK
    <2>1. stats \in [Name -> Entry]
        BY DEF Init, Entry
    <2>2. records \in Seq(Sample) /\ ceiling \in Seq(Sample)
        BY DEF Init
    <2>3. now \in 0..MaxTime /\ lastTick \in -1..MaxTime /\ users \in 0..MaxUsers
        BY ConstantFacts DEF Init
    <2>4. /\ phase \in {"running", "stopped"} /\ lastSampled \in Int
          /\ inSetup \in Nat /\ inRequest \in Nat
        BY DEF Init
    <2>5. breached \in BOOLEAN
        BY Zenon DEF Init
    <2> QED BY <2>1, <2>2, <2>3, <2>4, <2>5 DEF TypeOK
<1>2. SetupsFeedRequests
    BY DEF Init, SetupsFeedRequests, Name
<1>3. RecordsFollowSteps /\ LastStepIsNotSampled
    BY DEF Init, RecordsFollowSteps, LastStepIsNotSampled
<1>4. Timing
    BY ConstantFacts DEF Init, Timing, SampledAt
<1>5. Followed /\ AllWithin
    BY DEF Init, Followed, AllWithin
<1>6. CeilingIsLastWithin
    BY <1>1, <1>5, AllWithinCeiling
<1> QED BY <1>1, <1>2, <1>3, <1>4, <1>5, <1>6 DEF Init, IInv, Running

\* The requests on their way are setups that succeeded.
LEMMA StopFeeds ==
    ASSUME TypeOK, SetupsFeedRequests, phase = "running", phase' = "stopped",
           UNCHANGED stats
    PROVE  SetupsFeedRequests'
BY DEF TypeOK, SetupsFeedRequests

LEMMA PastEndStep ==
    ASSUME IInv, TickPastEnd
    PROVE  IInv'
<1>1. /\ phase = "running" /\ phase' = "stopped" /\ inSetup' = 0 /\ inRequest' = 0
      /\ lastTick' = now
      /\ UNCHANGED <<now, users, lastSampled, breached, records, ceiling, stats>>
      /\ UsersAt(StepIdx) > MaxUsers
    BY DEF TickPastEnd, TickDue, Stop
<1>2. TypeOK /\ Running /\ Timing /\ Followed /\ AllWithin
    BY <1>1 DEF IInv, Running
<1>3. TypeOK'
    BY <1>1, <1>2, ConstantFacts DEF TypeOK
<1>4. SetupsFeedRequests' /\ RecordsFollowSteps'
    BY <1>1, <1>2, StopFeeds DEF IInv, RecordsFollowSteps
<1>5. CeilingIsLastWithin'
    <2>1. CeilingIsLastWithin
        BY DEF IInv
    <2> QED BY <1>1, <1>2, <2>1 DEF CeilingIsLastWithin, AllWithin
<1>6. LastStepIsNotSampled'
    <2> SUFFICES ASSUME records # <<>>
                 PROVE  LET step == records[Len(records)].step
                        IN  UsersAt(step + 1) <= MaxUsers /\ UsersAt(step + 2) > MaxUsers
        BY <1>1 DEF LastStepIsNotSampled, UsersAt
    <2> DEFINE step == records[Len(records)].step
    <2>1. records[Len(records)] \in Sample
        BY <1>2 DEF TypeOK
    <2>2. step \in Nat /\ step = lastSampled - 1 /\ lastSampled \in Int
        BY <1>2, <2>1 DEF Followed, Sample, TypeOK
    <2>3. lastSampled >= 1 /\ UsersAt(lastSampled) <= MaxUsers
        BY <1>2, <2>2 DEF Timing
    <2>4. UsersAt(lastSampled) \in Nat /\ StepIdx # lastSampled
        BY <1>1, <2>2, <2>3, UsersFacts, ConstantFacts
    <2>5. StepIdx = lastSampled + 1
        BY <1>2, <2>2, <2>3, <2>4, StepFacts
    <2>6. step + 1 = lastSampled /\ step + 2 = StepIdx
        BY <2>2, <2>5
    <2> QED BY <1>1, <2>3, <2>6
<1> QED BY <1>1, <1>3, <1>4, <1>5, <1>6 DEF IInv, Ended

LEMMA HoldStep ==
    ASSUME IInv, TickHold
    PROVE  IInv'
<1>1. /\ phase = "running" /\ lastTick' = now /\ users' = UsersAt(StepIdx)
      /\ UsersAt(StepIdx) <= MaxUsers
      /\ StepIdx = 0 \/ StepIdx = lastSampled
      /\ UNCHANGED <<now, phase, lastSampled, breached, records, ceiling,
                     inSetup, inRequest, stats>>
    BY DEF TickHold, TickDue, tasks
<1>2. TypeOK /\ Running /\ Timing /\ Followed /\ AllWithin
    BY <1>1 DEF IInv, Running
<1>3. StepIdx \in Nat /\ SampledAt(now) = lastSampled
    BY <1>1, <1>2, StepFacts
<1>4. TypeOK'
    BY <1>1, <1>2, <1>3, UsersFacts, ConstantFacts DEF TypeOK
<1>5. SetupsFeedRequests' /\ RecordsFollowSteps' /\ LastStepIsNotSampled'
      /\ CeilingIsLastWithin'
    BY <1>1 DEF IInv, SetupsFeedRequests, RecordsFollowSteps, LastStepIsNotSampled,
                CeilingIsLastWithin
<1>6. Timing'
    BY <1>1, <1>2, <1>3, ConstantFacts DEF Timing, TypeOK, SampledAt, UsersAt
<1>7. Followed' /\ AllWithin'
    BY <1>1, <1>2 DEF Followed, AllWithin, Total
<1> QED BY <1>1, <1>2, <1>4, <1>5, <1>6, <1>7 DEF IInv, Running

\* What a sample of the step before does to the records.
LEMMA SampledFollows ==
    ASSUME TypeOK, RecordsFollowSteps, Timing, Followed,
           StepIdx > 0, StepIdx # lastSampled, now' = now,
           NEW r, Sampled(StepIdx - 1, r)
    PROVE  RecordsFollowSteps'
<1> DEFINE n == Len(records)
<1>1. /\ n \in Nat /\ DOMAIN records = 1..n /\ DOMAIN records' = 1..(n + 1)
      /\ records'[n + 1] = r /\ \A j \in 1..n : records'[j] = records[j]
    BY AppendFacts DEF TypeOK, Sampled
<1>2. /\ StepIdx \in Nat /\ StepIdx * StepDuration <= now
      /\ now < StepIdx * StepDuration + TickDelay
      /\ lastSampled = StepIdx - 1 \/ lastSampled = -1
    BY StepFacts
<1>3. r.elapsed = now /\ r.step = StepIdx - 1 /\ r.step + 1 = StepIdx
    BY <1>2 DEF Sampled
<1>4. ASSUME n >= 1
      PROVE  records[n].step + 1 = StepIdx - 1
    <2>1. records[n] \in Sample /\ records # <<>>
        BY <1>1, <1>4 DEF TypeOK
    <2>2. records[n].step \in Nat /\ records[n].step = lastSampled - 1
        BY <2>1 DEF Sample, Followed
    <2> QED BY <1>2, <2>2
<1> SUFFICES ASSUME NEW j \in 1..(n + 1)
             PROVE  /\ j > 1 => records'[j].step = records'[j - 1].step + 1
                    /\ records'[j].elapsed >= (records'[j].step + 1) * StepDuration
                    /\ records'[j].elapsed
                         < (records'[j].step + 1) * StepDuration + TickDelay
    BY <1>1 DEF RecordsFollowSteps
<1>5. CASE j \in 1..n
    <2>1. records'[j] = records[j] /\ (j > 1 => records'[j - 1] = records[j - 1])
        BY <1>1, <1>5
    <2> QED BY <1>1, <1>5, <2>1 DEF RecordsFollowSteps
<1>6. CASE j = n + 1
    <2>1. records'[j] = r
        BY <1>1, <1>6
    <2>2. j > 1 => n >= 1 /\ records'[j - 1] = records[n]
        BY <1>1, <1>6
    <2>3. j > 1 => records'[j].step = records'[j - 1].step + 1
        BY <1>3, <1>4, <2>1, <2>2
    <2> QED BY <1>2, <1>3, <2>1, <2>3
<1> QED BY <1>1, <1>5, <1>6

LEMMA TransitionStep ==
    ASSUME IInv, TickTransition
    PROVE  IInv'
<1>1. /\ phase = "running" /\ lastTick' = now /\ lastSampled' = StepIdx
      /\ UsersAt(StepIdx) <= MaxUsers
      /\ StepIdx > 0 /\ StepIdx # lastSampled
      /\ SampleStep(StepIdx - 1)
      /\ breached' => phase' = "stopped" /\ inSetup' = 0 /\ inRequest' = 0
                      /\ users' = users
      /\ ~breached' => users' = UsersAt(StepIdx)
                       /\ UNCHANGED <<phase, inSetup, inRequest>>
      /\ UNCHANGED <<now, stats>>
    BY DEF TickTransition, TickDue, Stop, tasks
<1>2. TypeOK /\ Running /\ ~breached /\ Timing /\ Followed /\ AllWithin
    BY <1>1 DEF IInv, Running
<1>3. StepIdx \in Nat /\ SampledAt(now) = StepIdx /\ StepIdx - 1 \in Nat
    BY <1>1, <1>2, StepFacts
<1>4. UsersAt(StepIdx) \in 0..MaxUsers
    BY <1>1, <1>3, UsersFacts, ConstantFacts
<1>5. Timing'
    BY <1>1, <1>3, ConstantFacts DEF Timing, TypeOK, IInv, SampledAt, UsersAt
<1>6. NotSampled \/ \E r : Sampled(StepIdx - 1, r)
    BY <1>1, <1>2, <1>3, SampleFacts
<1>7. CASE NotSampled
    <2>1. ~breached' /\ UNCHANGED <<records, ceiling, breached>> /\ records = <<>>
        BY <1>2, <1>7, TotalFacts DEF NotSampled, Followed
    <2>2. TypeOK'
        BY <1>1, <1>2, <1>3, <1>4, <2>1 DEF TypeOK
    <2>3. SetupsFeedRequests' /\ RecordsFollowSteps' /\ LastStepIsNotSampled'
          /\ CeilingIsLastWithin'
        BY <1>1, <2>1 DEF IInv, SetupsFeedRequests, RecordsFollowSteps,
                          LastStepIsNotSampled, CeilingIsLastWithin
    <2>4. Followed' /\ AllWithin'
        BY <1>2, <2>1 DEF Followed, AllWithin
    <2> QED BY <1>1, <1>5, <2>1, <2>2, <2>3, <2>4 DEF IInv, Running
<1>8. ASSUME NEW r, Sampled(StepIdx - 1, r)
      PROVE  IInv'
    <2>1. /\ r \in Sample /\ r.step = StepIdx - 1 /\ records' = Append(records, r)
          /\ r.within => ceiling' = <<r>> /\ breached' = breached
          /\ ~r.within => ceiling' = ceiling /\ breached' = TRUE
          /\ Total.requests + Total.failures > 0
        BY <1>8 DEF Sampled
    <2>2. records' \in Seq(Sample) /\ records' # <<>> /\ records'[Len(records')] = r
        BY <1>2, <2>1, AppendFacts DEF TypeOK
    <2>3. TypeOK'
        <3>1. ceiling' \in Seq(Sample) /\ breached' \in BOOLEAN
            <4>1. breached \in BOOLEAN /\ ceiling \in Seq(Sample)
                BY <1>2, Zenon DEF TypeOK
            <4>2. <<r>> \in Seq(Sample)
                BY <2>1
            <4> QED BY <2>1, <4>1, <4>2, Zenon
        <3>2. users' \in 0..MaxUsers /\ phase' \in {"running", "stopped"}
              /\ inSetup' \in Nat /\ inRequest' \in Nat
            BY <1>1, <1>2, <1>4, <3>1 DEF TypeOK
        <3>3. now' \in 0..MaxTime /\ lastTick' \in -1..MaxTime /\ lastSampled' \in Int
              /\ stats' \in [Name -> Entry]
            BY <1>1, <1>2, <1>3, ConstantFacts DEF TypeOK
        <3> QED BY <2>2, <3>1, <3>2, <3>3 DEF TypeOK
    <2>4. RecordsFollowSteps'
        BY <1>1, <1>2, <1>8, SampledFollows DEF IInv
    <2>5. CASE r.within
        <3>1. ~breached' /\ AllWithin'
            BY <1>2, <2>1, <2>5, WithinCeiling
        <3>2. Followed'
            BY <1>1, <2>1, <2>2 DEF Followed, Total
        <3>3. SetupsFeedRequests' /\ LastStepIsNotSampled'
            BY <1>1, <3>1 DEF IInv, SetupsFeedRequests, LastStepIsNotSampled
        <3>4. CeilingIsLastWithin'
            BY <2>3, <3>1, AllWithinCeiling, PTL
        <3> QED BY <1>1, <1>5, <2>3, <2>4, <3>1, <3>2, <3>3, <3>4 DEF IInv, Running
    <2>6. CASE ~r.within
        <3>1. breached' /\ phase' = "stopped" /\ inSetup' = 0 /\ inRequest' = 0
            BY <1>1, <2>1, <2>6
        <3>2. CeilingIsLastWithin'
            BY <1>2, <2>1, <2>6, <3>1, BreachCeiling
        <3>3. SetupsFeedRequests'
            BY <1>1, <1>2, <3>1, StopFeeds DEF IInv
        <3>4. LastStepIsNotSampled'
            BY <3>1 DEF LastStepIsNotSampled
        <3> QED BY <2>3, <2>4, <3>1, <3>2, <3>3, <3>4 DEF IInv, Ended
    <2> QED BY <2>5, <2>6
<1> QED BY <1>6, <1>7, <1>8

----------------------------------------------------------------------------
(* Time and the users.                                                     *)

LEMMA AdvanceStep ==
    ASSUME IInv, Advance
    PROVE  IInv'
<1>1. /\ phase = "running" /\ now < lastTick + TickDelay /\ now < MaxTime
      /\ now' = now + 1
      /\ UNCHANGED <<lastTick, phase, users, lastSampled, breached, records, ceiling,
                     inSetup, inRequest, stats>>
    BY DEF Advance, shape, tasks
<1>2. TypeOK /\ Running /\ Timing /\ Followed /\ AllWithin
    BY <1>1 DEF IInv, Running
<1>3. TypeOK'
    BY <1>1, <1>2, ConstantFacts DEF TypeOK
<1>4. Timing'
    BY <1>1, <1>2, ConstantFacts DEF Timing, TypeOK, SampledAt, UsersAt
<1>5. Followed' /\ AllWithin'
    BY <1>1, <1>2 DEF Followed, AllWithin, Total
<1>6. SetupsFeedRequests' /\ RecordsFollowSteps' /\ LastStepIsNotSampled'
      /\ CeilingIsLastWithin'
    BY <1>1 DEF IInv, SetupsFeedRequests, RecordsFollowSteps, LastStepIsNotSampled,
                CeilingIsLastWithin
<1> QED BY <1>1, <1>2, <1>3, <1>4, <1>5, <1>6 DEF IInv, Running

\* What the users do concerns the shape only through the statistics, and the
\* number of events never goes down.
LEMMA UserStep ==
    ASSUME IInv, UNCHANGED <<now, lastTick, phase, shape>>,
           inSetup' \in Nat, inRequest' \in Nat, stats' \in [Name -> Entry],
           Total'.requests >= Total.requests, Total'.failures >= Total.failures,
           phase = "running", SetupsFeedRequests'
    PROVE  IInv'
<1>1. UNCHANGED <<now, lastTick, phase, users, lastSampled, breached, records, ceiling>>
    BY DEF shape
<1>2. TypeOK /\ Running /\ Timing /\ Followed /\ AllWithin
    BY <1>1 DEF IInv, Running
<1>3. TypeOK'
    BY <1>1, <1>2 DEF TypeOK
<1>4. Timing' /\ AllWithin'
    BY <1>1, <1>2 DEF Timing, AllWithin, SampledAt, UsersAt
<1>5. Followed'
    <2> SUFFICES ASSUME records # <<>>
                 PROVE  /\ records[Len(records)].step = lastSampled - 1
                        /\ Total'.requests + Total'.failures > 0
        BY <1>1 DEF Followed
    <2>1. records[Len(records)].step = lastSampled - 1
          /\ Total.requests + Total.failures > 0
        BY <1>2 DEF Followed
    <2>2. Total.requests \in Nat /\ Total.failures \in Nat
          /\ Total'.requests \in Nat /\ Total'.failures \in Nat
        <3>1. /\ stats["circuit_setup"] \in Entry /\ stats["circuit_request"] \in Entry
              /\ stats'["circuit_setup"] \in Entry /\ stats'["circuit_request"] \in Entry
            BY <1>2 DEF TypeOK, Name
        <3>2. Total.requests \in Nat /\ Total.failures \in Nat
            BY <1>2, TotalFacts
        <3>3. \A x \in Entry, y \in Entry : x.requests + y.requests \in Nat
                                           /\ x.failures + y.failures \in Nat
            BY DEF Entry
        <3>4. /\ Total'.requests
                   = stats'["circuit_setup"].requests + stats'["circuit_request"].requests
              /\ Total'.failures
                   = stats'["circuit_setup"].failures + stats'["circuit_request"].failures
            BY DEF Total
        <3> QED BY <3>1, <3>2, <3>3, <3>4
    <2> QED BY <2>1, <2>2
<1>6. RecordsFollowSteps' /\ LastStepIsNotSampled' /\ CeilingIsLastWithin'
    BY <1>1 DEF IInv, RecordsFollowSteps, LastStepIsNotSampled, CeilingIsLastWithin, UsersAt
<1> QED BY <1>1, <1>2, <1>3, <1>4, <1>5, <1>6 DEF IInv, Running

\* The statistics after an event.
LEMMA FireFacts ==
    ASSUME TypeOK, NEW name \in Name, NEW outcome \in Outcome, Fire(name, outcome)
    PROVE  /\ stats' \in [Name -> Entry]
           /\ stats'[name].requests = stats[name].requests + 1
           /\ stats'[name].failures
                = stats[name].failures + (IF outcome \in Failed THEN 1 ELSE 0)
           /\ \A other \in Name \ {name} : stats'[other] = stats[other]
<1> DEFINE e == stats[name]
           x == [requests |-> e.requests + 1,
                 failures |-> e.failures + (IF outcome \in Failed THEN 1 ELSE 0),
                 slow     |-> e.slow + (IF outcome \in Slow THEN 1 ELSE 0)]
<1>1. e \in Entry
    BY DEF TypeOK
<1>2. x \in Entry
    BY <1>1 DEF Entry
<1>3. stats' = [stats EXCEPT ![name] = x]
    BY DEF Fire
<1>4. x.requests = e.requests + 1
      /\ x.failures = e.failures + (IF outcome \in Failed THEN 1 ELSE 0)
    OBVIOUS
<1> HIDE DEF x
<1> QED BY <1>2, <1>3, <1>4 DEF TypeOK

LEMMA UsersSteps ==
    ASSUME IInv, NEW outcome \in Outcome,
           BeginTask \/ SetupEnds(outcome) \/ RequestEnds(outcome)
    PROVE  IInv'
<1> DEFINE s == stats["circuit_setup"]
           q == stats["circuit_request"]
<1>1. TypeOK /\ inSetup \in Nat /\ inRequest \in Nat
      /\ stats \in [Name -> Entry] /\ phase \in {"running", "stopped"}
    BY DEF IInv, TypeOK
<1>2. s \in Entry /\ q \in Entry
    BY <1>1 DEF Name
<1>3. s.requests \in Nat /\ s.failures \in Nat /\ q.requests \in Nat /\ q.failures \in Nat
    BY <1>2 DEF Entry
<1>4. phase = "running"
    BY <1>1 DEF BeginTask, SetupEnds, RequestEnds, IInv, Ended
<1>5. s.requests - s.failures - q.requests = inRequest
    BY <1>4 DEF IInv, SetupsFeedRequests
<1>6. CASE BeginTask
    <2>1. inSetup' = inSetup + 1
          /\ UNCHANGED <<now, lastTick, phase, shape, inRequest, stats>>
        BY <1>6 DEF BeginTask
    <2>2. Total' = Total /\ SetupsFeedRequests'
        BY <1>4, <1>5, <2>1 DEF Total, SetupsFeedRequests
    <2> QED BY <1>1, <1>4, <2>1, <2>2, TotalFacts, UserStep
<1>7. CASE SetupEnds(outcome)
    <2>1. /\ inSetup > 0 /\ Fire("circuit_setup", outcome) /\ inSetup' = inSetup - 1
          /\ inRequest' = IF outcome \in Failed THEN inRequest ELSE inRequest + 1
          /\ UNCHANGED <<now, lastTick, phase, shape>>
        BY <1>7 DEF SetupEnds
    <2>2. /\ stats' \in [Name -> Entry]
          /\ stats'["circuit_setup"].requests = s.requests + 1
          /\ stats'["circuit_setup"].failures
               = s.failures + (IF outcome \in Failed THEN 1 ELSE 0)
          /\ stats'["circuit_request"] = q
        BY <1>1, <2>1, FireFacts DEF Name
    <2>3. SetupsFeedRequests'
        BY <1>1, <1>3, <1>4, <1>5, <2>1, <2>2 DEF SetupsFeedRequests
    <2>4. Total'.requests >= Total.requests /\ Total'.failures >= Total.failures
        BY <1>3, <2>2 DEF Total
    <2>5. inSetup' \in Nat /\ inRequest' \in Nat
        BY <1>1, <2>1
    <2> QED BY <1>4, <2>1, <2>2, <2>3, <2>4, <2>5, UserStep
<1>8. CASE RequestEnds(outcome)
    <2>1. /\ inRequest > 0 /\ Fire("circuit_request", outcome)
          /\ inRequest' = inRequest - 1
          /\ UNCHANGED <<now, lastTick, phase, shape, inSetup>>
        BY <1>8 DEF RequestEnds
    <2>2. /\ stats' \in [Name -> Entry]
          /\ stats'["circuit_request"].requests = q.requests + 1
          /\ stats'["circuit_request"].failures
               = q.failures + (IF outcome \in Failed THEN 1 ELSE 0)
          /\ stats'["circuit_setup"] = s
        BY <1>1, <2>1, FireFacts DEF Name
    <2>3. SetupsFeedRequests'
        BY <1>1, <1>3, <1>4, <1>5, <2>1, <2>2 DEF SetupsFeedRequests
    <2>4. Total'.requests >= Total.requests /\ Total'.failures >= Total.failures
        BY <1>3, <2>2 DEF Total
    <2>5. inSetup' \in Nat /\ inRequest' \in Nat
        BY <1>1, <2>1
    <2> QED BY <1>4, <2>1, <2>2, <2>3, <2>4, <2>5, UserStep
<1> QED BY <1>6, <1>7, <1>8

----------------------------------------------------------------------------
LEMMA NextIInv == IInv /\ [Next]_vars => IInv'
<1> SUFFICES ASSUME IInv, [Next]_vars PROVE IInv'
    OBVIOUS
<1>1. CASE Tick
    BY <1>1, PastEndStep, HoldStep, TransitionStep DEF Tick
<1>2. CASE Advance
    BY <1>2, AdvanceStep
<1>3. CASE BeginTask
    <2>1. "fast" \in Outcome
        BY DEF Outcome
    <2> QED BY <1>3, <2>1, UsersSteps
<1>4. ASSUME NEW outcome \in Outcome, SetupEnds(outcome) \/ RequestEnds(outcome)
      PROVE  IInv'
    BY <1>4, UsersSteps
<1>5. CASE UNCHANGED vars
    <2>1. UNCHANGED <<now, lastTick, phase, users, lastSampled, breached, records,
                      ceiling, inSetup, inRequest, stats>>
        BY <1>5 DEF vars
    <2>2. TypeOK' /\ (phase = "running" => Running)' /\ (phase = "stopped" => Ended)'
        BY <2>1 DEF IInv, TypeOK, Running, Ended, Timing, Followed, AllWithin, SampledAt,
                    UsersAt, Total
    <2>3. SetupsFeedRequests' /\ RecordsFollowSteps' /\ LastStepIsNotSampled'
          /\ CeilingIsLastWithin'
        BY <2>1 DEF IInv, SetupsFeedRequests, RecordsFollowSteps, LastStepIsNotSampled,
                    CeilingIsLastWithin, UsersAt
    <2> QED BY <2>2, <2>3 DEF IInv
<1> QED BY <1>1, <1>2, <1>3, <1>4, <1>5 DEF Next

LEMMA Invariance == Spec => []IInv
<1> QED BY InitIInv, NextIInv, PTL DEF Spec

\* The shape asks for no more than MAX_USERS users, its records are
\* well-formed and no counter goes below zero.
THEOREM TypeCorrect == Spec => []TypeOK
<1>1. IInv => TypeOK
    BY DEF IInv
<1> QED BY <1>1, Invariance, PTL

\* The ceiling is the last record within bounds, and at most one record, which
\* ended the test, follows it.
THEOREM CeilingIsLast == Spec => []CeilingIsLastWithin
<1>1. IInv => CeilingIsLastWithin
    BY DEF IInv
<1> QED BY <1>1, Invariance, PTL

\* As long as tick() is called once in every step, no step is skipped, sampled
\* twice or recorded under another one's number of users.
THEOREM RecordsFollow == Spec => []RecordsFollowSteps
<1>1. IInv => RecordsFollowSteps
    BY DEF IInv
<1> QED BY <1>1, Invariance, PTL

\* The step at the highest number of users is never sampled, in no test that
\* ends by the clock, and it is the only one: what run load_ramp_unsampled shows
\* of one test, for all of them.
THEOREM LastStepUnsampled == Spec => []LastStepIsNotSampled
<1>1. IInv => LastStepIsNotSampled
    BY DEF IInv
<1> QED BY <1>1, Invariance, PTL

\* A setup that succeeded is followed by one event for its request, whatever
\* the users' calls return.
THEOREM SetupsFeed == Spec => []SetupsFeedRequests
<1>1. IInv => SetupsFeedRequests
    BY DEF IInv
<1> QED BY <1>1, Invariance, PTL

----------------------------------------------------------------------------
(* The report of several tests.                                            *)

TestType == [count : Count, start : Nat]
WindowType == [count : Count, start : Nat, end : Nat]
SummaryType == [count : Count, stamp : Nat, ceiling : Rates \cup {0}]

Tests ==
    /\ test = NoTest \/ test \in TestType
    /\ test.start <= Now
    /\ windows \in Seq(WindowType)

\* The last summary of a count has the latest stamp: no test ends when it starts.
Uploads ==
    /\ summaries \subseteq SummaryType
    /\ \A s \in summaries : /\ s.stamp <= Now
                            /\ test # NoTest => s.stamp <= test.start
    /\ latest \in [Count -> Int]
    /\ \A c \in Count :
          \/ latest[c] = -1 /\ \A s \in summaries : s.count # c
          \/ \E s \in summaries :
                /\ s.count = c /\ latest[c] = s.ceiling
                /\ \A t \in summaries : t.count = c => t = s \/ t.stamp < s.stamp

\* A file holds points of its window, once it has them.
Exported ==
    /\ IsFiniteSet(Files) /\ Files \subseteq Nat \X Nat
    /\ \A w \in Files : /\ w[1] % 2 = 0
                               /\ combined[w] \subseteq Service \X Points(w[1], w[2])

ReportInv == ReportTypeOK /\ Tests /\ Uploads /\ Exported

LEMMA ReportConstants ==
    /\ MinTest \in Nat /\ MinTest >= 1 /\ EndOfTime \in Nat /\ MaxExports \in Nat
    /\ \A c \in Count : c \in Nat /\ c # 0
    /\ \A r \in Rates \cup {0} : r \in Nat
BY ScalingAssumption

LEMMA InitReport == ASSUME ReportInit PROVE ReportInv
<1>1. /\ ran = <<>> /\ test = NoTest /\ windows = <<>> /\ summaries = {}
      /\ latest = [c \in Count |-> -1] /\ combined = <<>> /\ exports = 0
    BY DEF ReportInit
<1>2. Now = 0 /\ Files = {}
    BY <1>1 DEF Now, Files
<1>3. ReportTypeOK
    BY <1>1, <1>2, ReportConstants DEF ReportTypeOK
<1>4. Tests
    <2>1. test.start = 0 /\ windows \in Seq(WindowType)
        BY <1>1 DEF NoTest
    <2> QED BY <1>1, <1>2, <2>1 DEF Tests
<1>5. Uploads
    <2>1. latest \in [Count -> Int] /\ \A c \in Count : latest[c] = -1
        BY <1>1
    <2> QED BY <1>1, <2>1 DEF Uploads
<1>6. Exported
    BY <1>2, FS_EmptySet DEF Exported
<1> QED BY <1>3, <1>4, <1>5, <1>6 DEF ReportInv

LEMMA NowFacts ==
    ASSUME ReportInv
    PROVE  Now \in Nat /\ Now = Len(ran) /\ ran \in Seq(Count \cup {0})
BY DEF ReportInv, ReportTypeOK, Now

LEMMA StartTestStep ==
    ASSUME ReportInv, NEW c \in Count, StartTest(c)
    PROVE  ReportInv'
<1>1. /\ test = NoTest /\ test' = [count |-> c, start |-> Now]
      /\ UNCHANGED <<ran, windows, summaries, latest, combined, exports>>
    BY DEF StartTest
<1>2. Now' = Now /\ Files' = Files
    BY <1>1 DEF Now, Files
<1>3. test' \in TestType /\ test'.start = Now /\ test'.count = c
    BY <1>1, NowFacts DEF TestType
<1>4. ReportTypeOK'
    BY <1>1, <1>2, <1>3 DEF ReportInv, ReportTypeOK
<1>5. Tests'
    BY <1>1, <1>2, <1>3, NowFacts DEF ReportInv, Tests
<1>6. Uploads'
    BY <1>1, <1>2, <1>3 DEF ReportInv, Uploads
<1>7. Exported'
    BY <1>1, <1>2 DEF ReportInv, Exported, Points
<1> QED BY <1>4, <1>5, <1>6, <1>7 DEF ReportInv

\* The points of a window only get more.
LEMMA PointsGrow ==
    ASSUME ReportInv, Now' \in Nat, Now' >= Now, NEW s, NEW e
    PROVE  Points(s, e) \subseteq Points(s, e)'
BY NowFacts DEF Points

LEMMA TimePassesStep ==
    ASSUME ReportInv, TimePasses
    PROVE  ReportInv'
<1>1. /\ Now < EndOfTime /\ ran' = Append(ran, test.count)
      /\ UNCHANGED <<test, windows, summaries, latest, combined, exports>>
    BY DEF TimePasses
<1>2. test.count \in Count \cup {0}
    BY DEF ReportInv, ReportTypeOK, NoTest
<1>3. /\ ran' \in Seq(Count \cup {0}) /\ Now' = Now + 1
      /\ Now \in Nat /\ Files' = Files
    BY <1>1, <1>2, NowFacts DEF Now, Files
<1>4. ReportTypeOK'
    BY <1>1, <1>3, ReportConstants DEF ReportInv, ReportTypeOK, NoTest
<1>5. Tests'
    BY <1>1, <1>3 DEF ReportInv, Tests, TestType, NoTest
<1>6. Uploads'
    BY <1>1, <1>3 DEF ReportInv, Uploads, SummaryType, NoTest
<1>7. Exported'
    <2>1. \A w \in Files : Points(w[1], w[2]) \subseteq Points(w[1], w[2])'
        BY <1>3, PointsGrow
    <2> QED BY <1>1, <1>3, <2>1 DEF ReportInv, Exported
<1> QED BY <1>4, <1>5, <1>6, <1>7 DEF ReportInv

LEMMA EndTestStep ==
    ASSUME ReportInv, NEW top \in Rates \cup {0}, NEW put \in BOOLEAN,
           EndTest(top, put)
    PROVE  ReportInv'
<1> DEFINE new == [count |-> test.count, stamp |-> Now, ceiling |-> top]
<1>1. /\ test # NoTest /\ Now >= test.start + MinTest
      /\ windows' = Append(windows, [count |-> test.count, start |-> test.start,
                                     end |-> Now])
      /\ summaries' = IF put THEN summaries \cup {new} ELSE summaries
      /\ latest' = IF put THEN [latest EXCEPT ![test.count] = top] ELSE latest
      /\ test' = NoTest
      /\ UNCHANGED <<ran, combined, exports>>
    BY DEF EndTest
<1>2. /\ test.count \in Count /\ test.start \in Nat /\ test.start < Now
      /\ Now \in Nat /\ Now' = Now /\ Files' = Files
    <2>1. test \in TestType
        BY <1>1 DEF ReportInv, Tests
    <2>2. test.count \in Count /\ test.start \in Nat
        BY <2>1 DEF TestType
    <2>3. Now' = Now /\ Files' = Files
        BY <1>1 DEF Now, Files
    <2> QED BY <1>1, <2>2, <2>3, NowFacts, ReportConstants
<1>3. new \in SummaryType /\ new.count = test.count /\ new.stamp = Now
      /\ new.ceiling = top
    BY <1>2 DEF SummaryType
<1> HIDE DEF new
<1>4. windows \in Seq(WindowType) /\ windows' \in Seq(WindowType)
    <2>1. [count |-> test.count, start |-> test.start, end |-> Now] \in WindowType
        BY <1>2 DEF WindowType
    <2>2. windows \in Seq(WindowType)
        BY DEF ReportInv, Tests
    <2> HIDE DEF WindowType
    <2> QED BY <2>1, <2>2, <1>1
<1>5. ReportTypeOK'
    <2>1. \A i \in DOMAIN windows' : windows'[i].count \in Count
        <3>1. \A i \in DOMAIN windows' : windows'[i] \in WindowType
            BY <1>4
        <3> QED BY <3>1 DEF WindowType
    <2>2. \A s \in summaries' : s.ceiling \in Rates \cup {0}
        BY <1>1, <1>3 DEF ReportInv, ReportTypeOK
    <2> QED BY <1>1, <1>2, <2>1, <2>2 DEF ReportInv, ReportTypeOK, NoTest
<1>6. Tests'
    <2>1. NoTest.start = 0 /\ NoTest' = NoTest
        BY DEF NoTest
    <2> QED BY <1>1, <1>2, <1>4, <2>1 DEF Tests
<1>7. Uploads'
    <2>1. CASE ~put
        BY <2>1, <1>1, <1>2 DEF ReportInv, Uploads, NoTest
    <2>2. CASE put
        <3>1. summaries' = summaries \cup {new} /\ latest' = [latest EXCEPT ![test.count] = top]
            BY <2>2, <1>1
        <3>2. summaries' \subseteq SummaryType
            BY <3>1, <1>3 DEF ReportInv, Uploads
        <3>3. \A s \in summaries : s.stamp \in Nat /\ s.stamp < Now
            BY <1>1, <1>2 DEF ReportInv, Uploads, SummaryType
        <3>4. (\A s \in summaries : s.stamp <= Now /\
                 (test # NoTest => s.stamp <= test.start))'
            BY <3>1, <3>3, <1>1, <1>2, <1>3 DEF NoTest
        <3>5. latest \in [Count -> Int] /\ latest' \in [Count -> Int]
            <4>1. latest \in [Count -> Int]
                BY DEF ReportInv, Uploads
            <4>2. top \in Int
                BY ReportConstants
            <4> QED BY <3>1, <4>1, <4>2
        <3>6. ASSUME NEW c \in Count
              PROVE  \/ latest'[c] = -1 /\ \A s \in summaries' : s.count # c
                     \/ \E s \in summaries' :
                           /\ s.count = c /\ latest'[c] = s.ceiling
                           /\ \A t \in summaries' : t.count = c => t = s \/ t.stamp < s.stamp
            <4>1. CASE c = test.count
                <5>1. new \in summaries' /\ new.count = c /\ latest'[c] = new.ceiling
                    BY <4>1, <3>1, <3>5, <1>2, <1>3
                <5>2. \A t \in summaries' : t = new \/ t.stamp < new.stamp
                    BY <3>1, <3>3, <1>3
                <5> QED BY <5>1, <5>2
            <4>2. CASE c # test.count
                <5>1. latest'[c] = latest[c] /\ \A s \in summaries' : s.count = c => s \in summaries
                    BY <4>2, <3>1, <3>5, <1>3
                <5>2. summaries \subseteq summaries'
                    BY <3>1
                <5> QED BY <5>1, <5>2 DEF ReportInv, Uploads
            <4> QED BY <4>1, <4>2
        <3> QED BY <3>2, <3>4, <3>5, <3>6 DEF Uploads
    <2> QED BY <2>1, <2>2
<1>8. Exported'
    BY <1>1, <1>2 DEF ReportInv, Exported, Points
<1> QED BY <1>5, <1>6, <1>7, <1>8 DEF ReportInv

LEMMA ExportStep ==
    ASSUME ReportInv,
           NEW s \in {t \in 0..EndOfTime : t % 2 = 0}, NEW e \in {t \in 0..EndOfTime : t % 2 = 0},
           NEW fetched \in SUBSET Service, Export(s, e, fetched)
    PROVE  ReportInv'
<1>1. /\ exports < MaxExports /\ exports' = exports + 1
      /\ combined' = IF Points(s, e) # {}
            THEN [w \in DOMAIN combined \cup {<<s, e>>} |->
                     IF w = <<s, e>> THEN Rows(fetched, s, e) ELSE combined[w]]
            ELSE combined
      /\ UNCHANGED <<ran, test, windows, summaries, latest>>
    BY DEF Export
<1>2. /\ Now \in Nat /\ Now' = Now /\ Now <= EndOfTime
      /\ s \in Nat /\ e \in Nat /\ s % 2 = 0
    BY <1>1, NowFacts, ReportConstants DEF ReportInv, ReportTypeOK, Now
<1>3. Points(s, e) \subseteq 0..EndOfTime
    BY <1>2, ReportConstants DEF Points
<1>4. /\ \A v, w : Points(v, w)' = Points(v, w)
      /\ Rows(fetched, s, e) \subseteq Service \X Points(s, e)
    BY <1>2 DEF Points, Rows
<1>5. \A w \in Files' :
         \/ w \in Files /\ combined'[w] = combined[w]
         \/ w = <<s, e>> /\ combined'[w] = Rows(fetched, s, e)
    BY <1>1 DEF Files
<1>6. IsFiniteSet(Files')
    <2>1. Files' = Files \/ Files' = Files \cup {<<s, e>>}
        BY <1>1 DEF Files
    <2>2. IsFiniteSet(Files)
        BY DEF ReportInv, Exported
    <2>3. IsFiniteSet(Files \cup {<<s, e>>})
        BY <2>2, FS_AddElement
    <2> QED BY <2>1, <2>2, <2>3
<1>7. ReportTypeOK'
    <2>1. \A w \in Files' : combined'[w] \subseteq Service \X (0..EndOfTime)
        BY <1>3, <1>4, <1>5 DEF ReportInv, ReportTypeOK
    <2>2. exports' \in 0..MaxExports
        BY <1>1, ReportConstants DEF ReportInv, ReportTypeOK
    <2> QED BY <1>1, <1>2, <2>1, <2>2 DEF ReportInv, ReportTypeOK, NoTest
<1>8. Tests' /\ Uploads'
    BY <1>1, <1>2 DEF ReportInv, Tests, Uploads, NoTest
<1>9. Exported'
    <2>1. Files' \subseteq Nat \X Nat
        BY <1>2, <1>5 DEF ReportInv, Exported
    <2>2. ASSUME NEW w \in Files'
          PROVE  w[1] % 2 = 0 /\ combined'[w] \subseteq Service \X Points(w[1], w[2])
        BY <1>2, <1>4, <1>5 DEF ReportInv, Exported
    <2> QED BY <1>4, <1>6, <2>1, <2>2 DEF Exported
<1> QED BY <1>7, <1>8, <1>9 DEF ReportInv

LEMMA ReportStep ==
    ASSUME ReportInv, [ReportNext]_reportVars
    PROVE  ReportInv'
<1>1. CASE \E c \in Count : StartTest(c)
    BY <1>1, StartTestStep
<1>2. CASE TimePasses
    BY <1>2, TimePassesStep
<1>3. CASE \E top \in Rates \cup {0}, put \in BOOLEAN : EndTest(top, put)
    BY <1>3, EndTestStep
<1>4. CASE \E s, e \in {t \in 0..EndOfTime : t % 2 = 0}, fetched \in SUBSET Service :
              Export(s, e, fetched)
    BY <1>4, ExportStep
<1>5. CASE UNCHANGED reportVars
    <2>1. UNCHANGED <<ran, test, windows, summaries, latest, combined, exports>>
        BY <1>5 DEF reportVars
    <2> QED BY <2>1 DEF ReportInv, ReportTypeOK, Tests, Uploads, Exported, Now,
                        Files, Points, NoTest
<1> QED BY <1>1, <1>2, <1>3, <1>4, <1>5 DEF ReportNext

LEMMA ReportInvariance == ReportSpec => []ReportInv
<1>1. ReportInit => ReportInv
    BY InitReport
<1>2. ReportInv /\ [ReportNext]_reportVars => ReportInv'
    BY ReportStep
<1> QED BY <1>1, <1>2, PTL DEF ReportSpec

\* The files and the bucket keep their types, for any numbers of tests, exports
\* and half minutes.
THEOREM ReportTypeCorrect ==
    ReportSpec => []ReportTypeOK
<1>1. ReportInv => ReportTypeOK
    BY DEF ReportInv
<1> QED BY <1>1, ReportInvariance, PTL

\* For any number of tests of a count, and whichever summaries could not be put:
\* the throughput charted is that of the last one put.
THEOREM LatestIsCharted ==
    ReportSpec => []SummaryIsLatest
<1>1. ReportInv => SummaryIsLatest
    <2> SUFFICES ASSUME ReportInv PROVE SummaryIsLatest
        OBVIOUS
    <2>1. \A s \in summaries : s.count \in Count /\ s.stamp \in Nat /\ s.ceiling \in Nat
        BY ReportConstants DEF ReportInv, Uploads, SummaryType
    <2>2. ASSUME NEW c \in Count
          PROVE  Of(c) # {} <=> latest[c] >= 0
        BY <2>1 DEF Of, ReportInv, Uploads
    <2>3. ASSUME NEW c \in Count, Of(c) # {}
          PROVE  MaxThroughput(c) = latest[c]
        <3>1. PICK s \in Of(c) :
                 /\ latest[c] = s.ceiling
                 /\ \A t \in Of(c) : t = s \/ t.stamp < s.stamp
            BY <2>3 DEF Of, ReportInv, Uploads
        <3>2. \A t \in Of(c) : t.stamp \in Nat
            BY <2>1 DEF Of
        <3>3. \A t \in Of(c) : t.stamp <= s.stamp
            BY <3>1, <3>2
        <3>4. Summary(c) \in Of(c) /\ s.stamp <= Summary(c).stamp
            BY <3>3 DEF Summary
        <3>5. Summary(c) = s
            BY <3>1, <3>2, <3>4
        <3> QED BY <3>1, <3>5 DEF MaxThroughput
    <2> QED BY <2>2, <2>3 DEF SummaryIsLatest, Summarised
<1> QED BY <1>1, ReportInvariance, PTL

\* Tests of any length, from any half minute to any other: the points charted
\* begin after the test did and end no more than half a minute after it.
THEOREM PointsAreOfTheTest ==
    ReportSpec => []CpuPointsAreOfTheTest
<1>1. ReportInv => CpuPointsAreOfTheTest
    <2> SUFFICES ASSUME ReportInv, NEW i \in DOMAIN windows, NEW m \in CpuPoints(windows[i])
                 PROVE  m > windows[i].start /\ m + 2 <= windows[i].end + 1
        BY DEF CpuPointsAreOfTheTest
    <2>1. windows[i] \in WindowType
        BY DEF ReportInv, Tests
    <2>2. windows[i].start \in Nat /\ windows[i].end \in Nat
        BY <2>1 DEF WindowType
    <2>3. /\ m \in Nat /\ ((windows[i].start + 2) \div 2) * 2 <= m
          /\ m < windows[i].end - 1
        BY NowFacts DEF CpuPoints, CpuWindow, Points
    <2> QED BY <2>2, <2>3
<1> QED BY <1>1, ReportInvariance, PTL

----------------------------------------------------------------------------
(* CPU figures of windows that do not overlap.                             *)

RowsOf(service) ==
    {row \in Files \X (0..Now) : <<service, row[2]>> \in combined[row[1]]}

\* A row is a point of its window, and its load is known.
LEMMA RowFacts ==
    ASSUME ReportInv, NEW service, NEW row \in RowsOf(service)
    PROVE  /\ row[1] \in Files /\ row = <<row[1], row[2]>>
           /\ row[1] \in Nat \X Nat /\ row[2] \in Nat
           /\ row[1][1] <= row[2] /\ row[2] < row[1][2]
           /\ Load(row[2]) \in Nat
<1>1. /\ row[1] \in Files /\ row = <<row[1], row[2]>> /\ row[2] \in 0..Now
      /\ <<service, row[2]>> \in combined[row[1]]
    BY DEF RowsOf
<1>2. /\ row[1] \in Nat \X Nat /\ row[1][1] % 2 = 0
      /\ row[2] \in Points(row[1][1], row[1][2])
    BY <1>1 DEF ReportInv, Exported
<1>3. row[1][1] \in Nat /\ row[1][2] \in Nat /\ Now \in Nat
    BY <1>2, NowFacts
<1>4. /\ row[2] \in Nat /\ row[2] <= Now - 2
      /\ (row[1][1] \div 2) * 2 <= row[2] /\ row[2] < row[1][2]
    BY <1>2, <1>3 DEF Points
<1>5. row[1][1] <= row[2]
    BY <1>2, <1>3, <1>4
<1>6. ran[row[2] + 1] \in Nat /\ ran[row[2] + 2] \in Nat
    <2>1. row[2] + 1 \in 1..Len(ran) /\ row[2] + 2 \in 1..Len(ran)
        BY <1>3, <1>4, NowFacts
    <2>2. ran[row[2] + 1] \in Count \cup {0} /\ ran[row[2] + 2] \in Count \cup {0}
        BY <2>1, NowFacts
    <2> QED BY <2>2, ReportConstants
<1>7. Load(row[2]) \in Nat
    BY <1>6 DEF Load
<1> QED BY <1>1, <1>2, <1>4, <1>5, <1>7

\* A finite set has as many elements as one that f maps it to, one to one.
LEMMA SameNumber ==
    ASSUME NEW S, NEW T, IsFiniteSet(S), NEW f \in [S -> T],
           \A x, y \in S : f[x] = f[y] => x = y, \A z \in T : \E x \in S : f[x] = z
    PROVE  Cardinality(S) = Cardinality(T)
<1>1. f \in Bijection(S, T)
    BY DEF Bijection, Injection, Surjection, IsInjective
<1> QED BY <1>1, FS_Bijection DEF ExistsBijection

Units(rows) == UNION {{row} \X (1..Load(row[2])) : row \in rows}

LEMMA UnitsFinite ==
    ASSUME NEW rows, IsFiniteSet(rows), \A row \in rows : Load(row[2]) \in Nat
    PROVE  IsFiniteSet(Units(rows))
<1> DEFINE of(row) == {row} \X (1..Load(row[2]))
           all == {of(row) : row \in rows}
           f == [row \in rows |-> of(row)]
<1>1. f \in Surjection(rows, all)
    BY DEF Surjection
<1>2. IsFiniteSet(all)
    <2> HIDE DEF f, all
    <2> QED BY <1>1, FS_Surjection
<1>3. \A row \in rows : IsFiniteSet(of(row))
    <2> SUFFICES ASSUME NEW row \in rows PROVE IsFiniteSet(of(row))
        OBVIOUS
    <2>1. IsFiniteSet({row})
        BY FS_Singleton
    <2>2. IsFiniteSet(1..Load(row[2]))
        <3>1. 1 \in Int /\ Load(row[2]) \in Int
            OBVIOUS
        <3> QED BY <3>1, FS_Interval
    <2> QED BY <2>1, <2>2, FS_Product
<1>4. \A T \in all : IsFiniteSet(T)
    BY <1>3
<1>5. IsFiniteSet(UNION all)
    <2> HIDE DEF all
    <2> QED BY <1>2, <1>4, FS_UNION
<1> QED BY <1>5 DEF Units

\* For any files of windows that do not overlap, exported in any order and any
\* number of times: the mean over all rows is the mean over the minutes.
THEOREM WindowsCountOnce ==
    ReportSpec => []SameWindowCountsOnce
<1>1. ReportInv => SameWindowCountsOnce
    <2> SUFFICES ASSUME ReportInv, NEW service \in Service,
                        \A v, w \in Files :
                           (v[1] = w[1] /\ v[2] = w[2]) \/ v[2] <= w[1] \/ w[2] <= v[1]
                 PROVE  SameMean(CpuRows(service),
                                        CpuOf({service} \X Minutes(service)))
        BY DEF SameWindowCountsOnce
    <2> DEFINE A == RowsOf(service)
               B == {service} \X Minutes(service)
               f == [row \in A |-> <<service, row[2]>>]
               g == [u \in Units(A) |-> <<<<service, u[1][2]>>, u[2]>>]
    <2>1. \A row \in A : /\ row[1] \in Files /\ row = <<row[1], row[2]>>
                         /\ row[1] \in Nat \X Nat /\ row[2] \in Nat
                         /\ row[1][1] <= row[2] /\ row[2] < row[1][2]
                         /\ Load(row[2]) \in Nat
        BY RowFacts
    <2>2. IsFiniteSet(A)
        <3>1. IsFiniteSet(Files) /\ IsFiniteSet(0..Now)
            <4>1. 0 \in Int /\ Now \in Int
                BY NowFacts
            <4>2. IsFiniteSet(0..Now)
                BY <4>1, FS_Interval
            <4> QED BY <4>2 DEF ReportInv, Exported
        <3>2. IsFiniteSet(Files \X (0..Now))
            BY <3>1, FS_Product
        <3>3. A \subseteq Files \X (0..Now)
            BY DEF RowsOf
        <3> HIDE DEF A
        <3> QED BY <3>2, <3>3, FS_Subset
    <2>3. \A r, s \in A : r[2] = s[2] => r = s
        <3> SUFFICES ASSUME NEW r \in A, NEW s \in A, r[2] = s[2] PROVE r = s
            OBVIOUS
        <3> DEFINE v == r[1]
                   w == s[1]
        <3>1. /\ v \in Files /\ w \in Files
              /\ v \in Nat \X Nat /\ w \in Nat \X Nat /\ r[2] \in Nat
              /\ v[1] <= r[2] /\ r[2] < v[2] /\ w[1] <= r[2] /\ r[2] < w[2]
            BY <2>1
        <3>2. r = <<v, r[2]>> /\ s = <<w, s[2]>>
            BY <2>1
        <3> HIDE DEF v, w, A
        <3>3. v[1] \in Nat /\ v[2] \in Nat /\ w[1] \in Nat /\ w[2] \in Nat
            BY <3>1
        <3>4. v[1] = w[1] /\ v[2] = w[2]
            BY <3>1, <3>3
        <3>5. v = w
            BY <3>1, <3>4
        <3> QED BY <3>2, <3>5
    <2>4. /\ \A row \in A : <<service, row[2]>> \in B
          /\ \A z \in B : \E row \in A : z = <<service, row[2]>>
        <3>1. \A row \in A : row[2] \in Minutes(service)
            BY DEF RowsOf, Minutes
        <3>2. ASSUME NEW m \in Minutes(service)
              PROVE  \E row \in A : row[2] = m
            <4>1. PICK w \in Files : <<service, m>> \in combined[w]
                BY DEF Minutes
            <4>2. m \in 0..Now
                BY DEF Minutes
            <4>3. <<w, m>> \in A
                BY <4>1, <4>2 DEF RowsOf
            <4> QED BY <4>3
        <3> HIDE DEF A
        <3>3. \A row \in A : <<service, row[2]>> \in B
            BY <3>1
        <3>4. ASSUME NEW z \in B PROVE \E row \in A : z = <<service, row[2]>>
            <4>1. PICK m \in Minutes(service) : z = <<service, m>>
                OBVIOUS
            <4> QED BY <4>1, <3>2
        <3> QED BY <3>3, <3>4
    <2>5. Cardinality(A) = Cardinality(B)
        <3>1. f \in [A -> B] /\ \A x, y \in A : f[x] = f[y] => x = y
            BY <2>3, <2>4
        <3>2. \A z \in B : \E x \in A : f[x] = z
            BY <2>4
        <3> HIDE DEF A, B, f
        <3> QED BY <2>2, <3>1, <3>2, SameNumber
    <2>6. Cardinality(Units(A)) = Cardinality(Units(B))
        <3> HIDE DEF A, B
        <3>1. \A u : u \in Units(A) <=>
                 \E row \in A : \E k \in 1..Load(row[2]) : u = <<row, k>>
            BY DEF Units
        <3>2. \A u : u \in Units(B) <=>
                 \E row \in B : \E k \in 1..Load(row[2]) : u = <<row, k>>
            BY DEF Units
        <3>3. g \in [Units(A) -> Units(B)]
            BY <2>4, <3>1, <3>2
        <3>4. \A x, y \in Units(A) : g[x] = g[y] => x = y
            BY <2>3, <3>1
        <3>5. ASSUME NEW z \in Units(B) PROVE \E x \in Units(A) : g[x] = z
            <4>1. PICK y \in B : \E k \in 1..Load(y[2]) : z = <<y, k>>
                BY <3>2
            <4>2. PICK k \in 1..Load(y[2]) : z = <<y, k>>
                BY <4>1
            <4>3. PICK row \in A : y = <<service, row[2]>>
                BY <2>4
            <4>4. k \in 1..Load(row[2])
                BY <4>2, <4>3
            <4>5. <<row, k>> \in Units(A)
                BY <4>4, <3>1
            <4>6. g[<<row, k>>] = z
                BY <4>2, <4>3, <4>5
            <4> QED BY <4>5, <4>6
        <3>6. IsFiniteSet(Units(A))
            BY <2>1, <2>2, UnitsFinite
        <3> HIDE DEF g
        <3> QED BY <3>3, <3>4, <3>5, <3>6, SameNumber
    <2>7. CpuRows(service) = CpuOf(B)
        BY <2>5, <2>6 DEF CpuRows, CpuOf, RowsOf, Units
    <2> QED BY <2>7 DEF SameMean
<1> QED BY <1>1, ReportInvariance, PTL
=============================================================================
