--------------------------- MODULE SteppedLoadProofs ---------------------------
(***************************************************************************)
(* Proofs about a test of experiment 1 and the samples charted from it,    *)
(* for any levels, durations, delays and numbers of events.                *)
(*                                                                         *)
(* While a test runs, the stage of the last tick() tells the users asked   *)
(* for, and the users of the stage before were all there (InStage): a      *)
(* stage outlasts the lateness of its first tick() and of its users, and   *)
(* no stage is skipped.  A row of the history keeps what that says of its  *)
(* second (RowOK): which stage its users belong to, and that the last row  *)
(* within a stage has the users of that stage.  Users and events never     *)
(* decrease, so the samples of a level that precede this row have no gaps, *)
(* and counting them shows that the latter half is late.                   *)
(***************************************************************************)
EXTENDS SteppedLoad, FiniteSetTheorems, TLAPS

HistoryType == [users : Nat, total : Nat, at : Nat]

Clock ==
    /\ Len(history) = now
    /\ -1 <= lastTick /\ lastTick <= now
    /\ running => now <= lastTick + TickDelay
    /\ ~running => Len(Levels) * StageDuration <= now

InStage ==
    /\ lastTick = -1 => asked = 0
    /\ lastTick >= 0 =>
          LET stage == StageAt(lastTick)
          IN  /\ stage \in DOMAIN Levels /\ asked = Levels[stage]
              /\ askedAt < Begun(stage) + TickDelay
              /\ stage > 1 => Levels[stage - 1] <= users
    /\ users <= asked
    /\ users = asked \/ now <= askedAt + SpawnDelay

\* Row i is the one of second i - 1.
RowOK(i) ==
    /\ history[i].at = i - 1
    /\ history[i].total <= Total(stats)
    /\ running => history[i].users <= users
    /\ \A j \in 1..i : /\ history[j].users <= history[i].users
                       /\ history[j].total <= history[i].total
    /\ \A stage \in DOMAIN Levels :
          /\ history[i].users = Levels[stage] =>
                /\ Begun(stage) < i
                /\ i <= Begun(stage) + StageDuration + TickDelay + SpawnDelay
          /\ i = Begun(stage) + StageDuration => history[i].users = Levels[stage]

Rows == \A i \in DOMAIN history : RowOK(i)

IInv ==
    /\ TypeOK /\ history \in Seq(HistoryType)
    /\ Clock /\ (running => InStage) /\ Rows

----------------------------------------------------------------------------
(* Stages.                                                                 *)

LEMMA ConstantFacts ==
    /\ StageDuration \in Nat /\ TickDelay \in Nat /\ SpawnDelay \in Nat /\ MaxEvents \in Nat
    /\ TickDelay >= 1 /\ StageDuration > TickDelay + SpawnDelay
    /\ Len(Levels) \in Nat /\ DOMAIN Levels = 1..Len(Levels)
    /\ \A i \in DOMAIN Levels : Levels[i] \in Nat /\ Levels[i] >= 1
    /\ \A i, j \in DOMAIN Levels : i < j => Levels[i] < Levels[j]
BY SteppedAssumption

LEMMA BegunFacts ==
    ASSUME NEW s \in Nat, s >= 1
    PROVE  /\ Begun(s) \in Nat
           /\ Begun(s + 1) = Begun(s) + StageDuration
           /\ Begun(s) + StageDuration = s * StageDuration
           /\ Begun(1) = 0
<1>1. s - 1 \in Nat /\ StageDuration \in Nat
    BY ConstantFacts
<1>2. (s - 1) * StageDuration \in Nat
    BY <1>1
<1>3. s * StageDuration = (s - 1) * StageDuration + StageDuration
    BY <1>1
<1>4. (s + 1) - 1 = s /\ (1 - 1) * StageDuration = 0
    BY <1>1
<1> QED BY <1>2, <1>3, <1>4 DEF Begun

\* Stages follow one another.
LEMMA BegunOrder ==
    ASSUME NEW s \in Nat, s >= 1, NEW r \in Nat, s < r
    PROVE  Begun(s) + StageDuration <= Begun(r)
<1>1. r - 1 - s \in Nat /\ s \in Nat /\ StageDuration \in Nat
    BY ConstantFacts
<1>2. (r - 1) * StageDuration = s * StageDuration + (r - 1 - s) * StageDuration
    BY <1>1
<1>3. (r - 1 - s) * StageDuration \in Nat /\ s * StageDuration \in Nat
    BY <1>1
<1>4. Begun(s) + StageDuration = s * StageDuration /\ Begun(r) = (r - 1) * StageDuration
    BY BegunFacts DEF Begun
<1> QED BY <1>2, <1>3, <1>4

LEMMA StageFacts ==
    ASSUME NEW t \in Nat
    PROVE  /\ StageAt(t) \in Nat /\ StageAt(t) >= 1
           /\ Begun(StageAt(t)) <= t /\ t < Begun(StageAt(t)) + StageDuration
<1> DEFINE q == t \div StageDuration
<1>1. StageDuration \in Nat /\ StageDuration >= 1
    BY ConstantFacts
<1>2. q \in Nat /\ StageDuration * q <= t /\ t < StageDuration * q + StageDuration
    BY <1>1
<1>3. StageAt(t) = q + 1
    BY DEF StageAt
<1> HIDE DEF q
<1>4. Begun(q + 1) = StageDuration * q
    BY <1>1, <1>2 DEF Begun
<1> QED BY <1>2, <1>3, <1>4

\* The stage of a time is the one that lasts then.
LEMMA StageIs ==
    ASSUME NEW t \in Nat, NEW s \in Nat, s >= 1, Begun(s) <= t, t < Begun(s) + StageDuration
    PROVE  StageAt(t) = s
<1>1. /\ StageAt(t) \in Nat /\ StageAt(t) >= 1 /\ Begun(StageAt(t)) \in Nat /\ Begun(s) \in Nat
      /\ Begun(StageAt(t)) <= t /\ t < Begun(StageAt(t)) + StageDuration
    BY StageFacts, BegunFacts
<1>2. ~(StageAt(t) < s)
    BY <1>1, BegunOrder, ConstantFacts
<1>3. ~(s < StageAt(t))
    BY <1>1, BegunOrder, ConstantFacts
<1> QED BY <1>1, <1>2, <1>3

LEMMA TotalFacts ==
    ASSUME NEW st \in [Name -> 0..MaxEvents]
    PROVE  Total(st) \in Nat
<1>1. st["target"] \in Nat /\ st["circuit_setup"] \in Nat /\ st["circuit_request"] \in Nat
    BY ConstantFacts DEF Name
<1> QED BY <1>1 DEF Total

LEMMA TypeFacts ==
    ASSUME TypeOK
    PROVE  /\ now \in Nat /\ lastTick \in Int /\ askedAt \in Nat /\ asked \in Nat
           /\ users \in Nat /\ waiting \in Nat /\ running \in BOOLEAN
           /\ Total(stats) \in Nat
BY TotalFacts DEF TypeOK

LEMMA HistoryFacts ==
    ASSUME IInv
    PROVE  /\ DOMAIN history = 1..now /\ Len(history) = now
           /\ \A i \in DOMAIN history :
                 history[i].users \in Nat /\ history[i].total \in Nat
<1>1. history \in Seq(HistoryType) /\ Len(history) = now
    BY DEF IInv, Clock
<1>2. DOMAIN history = 1..now
    BY <1>1
<1>3. \A i \in DOMAIN history : history[i] \in HistoryType
    BY <1>1
<1> QED BY <1>1, <1>2, <1>3 DEF HistoryType

LEMMA InitIInv == Init => IInv
<1> SUFFICES ASSUME Init PROVE IInv
    OBVIOUS
<1>1. /\ history = <<>> /\ now = 0 /\ lastTick = -1 /\ asked = 0 /\ askedAt = 0
      /\ users = 0 /\ waiting = 0 /\ running = TRUE
    BY DEF Init
<1>2. TypeOK
    BY <1>1, ConstantFacts DEF Init, TypeOK
<1>3. Clock /\ InStage /\ Rows /\ history \in Seq(HistoryType)
    BY <1>1, ConstantFacts DEF Clock, InStage, Rows
<1> QED BY <1>2, <1>3 DEF IInv

----------------------------------------------------------------------------
(* The steps that leave the history as it is.                              *)

\* Rows stay in order as long as users and events only get more.
LEMMA RowsStay ==
    ASSUME IInv, history' = history, TypeOK', Total(stats') >= Total(stats),
           running' => running /\ users' >= users
    PROVE  Rows'
<1> SUFFICES ASSUME NEW i \in DOMAIN history
             PROVE  /\ history[i].total <= Total(stats')
                    /\ running' => history[i].users <= users'
    BY DEF IInv, Rows, RowOK
<1>1. /\ history[i].total \in Nat /\ history[i].users \in Nat
      /\ history[i].total <= Total(stats)
      /\ running => history[i].users <= users
    BY HistoryFacts DEF IInv, Rows, RowOK
<1>2. Total(stats) \in Nat /\ Total(stats') \in Nat /\ users \in Nat /\ users' \in Nat
    BY TotalFacts DEF IInv, TypeOK
<1> QED BY <1>1, <1>2

LEMMA TickStageStep == IInv /\ TickStage => IInv'
<1> SUFFICES ASSUME IInv, TickStage PROVE IInv'
    OBVIOUS
<1> DEFINE s == StageAt(lastTick)
           r == StageAt(now)
<1>1. /\ running /\ lastTick < now /\ r <= Len(Levels) /\ lastTick' = now
      /\ asked' = Levels[r]
      /\ askedAt' = IF Levels[r] = asked THEN askedAt ELSE now
      /\ UNCHANGED <<scenario, running, now, users, waiting, stats, history>>
    BY DEF TickStage, TickDue
<1>2. /\ now \in Nat /\ lastTick \in Int /\ askedAt \in Nat /\ asked \in Nat /\ users \in Nat
      /\ -1 <= lastTick /\ now <= lastTick + TickDelay
      /\ users <= asked /\ (users = asked \/ now <= askedAt + SpawnDelay)
    BY <1>1, TypeFacts DEF IInv, Clock, InStage
<1>3. /\ r \in DOMAIN Levels /\ r \in Nat /\ r >= 1 /\ Begun(r) \in Nat
      /\ Begun(r) <= now /\ now < Begun(r) + StageDuration
      /\ Levels[r] \in Nat /\ Levels[r] >= 1
    <2>1. /\ r \in Nat /\ r >= 1 /\ Begun(r) <= now /\ now < Begun(r) + StageDuration
        BY <1>2, StageFacts
    <2>2. r <= Len(Levels)
        BY <1>1
    <2> HIDE DEF r
    <2>3. r \in DOMAIN Levels
        BY <2>1, <2>2, ConstantFacts
    <2> QED BY <2>1, <2>3, BegunFacts, ConstantFacts
<1> HIDE DEF r
<1>4. /\ askedAt' < Begun(r) + TickDelay
      /\ r > 1 => Levels[r - 1] <= users
      /\ users <= Levels[r]
      /\ users = Levels[r] \/ now <= askedAt' + SpawnDelay
    <2>1. CASE lastTick = -1
        <3>1. asked = 0 /\ users = 0
            BY <1>1, <1>2, <2>1 DEF IInv, InStage
        <3>2. r = 1
            <4>1. now < StageDuration /\ Begun(1) = 0 /\ StageDuration \in Nat
                BY <1>2, <2>1, ConstantFacts, BegunFacts
            <4>2. Begun(1) <= now /\ now < Begun(1) + StageDuration
                BY <4>1, <1>2
            <4>3. StageAt(now) = 1
                BY <4>2, <1>2, StageIs
            <4> QED BY <4>3 DEF r
        <3>3. askedAt' = now /\ Begun(r) = 0
            BY <3>1, <3>2, <1>1, <1>3, BegunFacts
        <3> QED BY <3>1, <3>2, <3>3, <1>2, <1>3, <2>1, ConstantFacts
    <2>2. CASE lastTick >= 0
        <3>1. /\ s \in DOMAIN Levels /\ asked = Levels[s]
              /\ askedAt < Begun(s) + TickDelay
              /\ s > 1 => Levels[s - 1] <= users
            BY <1>1, <2>2 DEF IInv, InStage
        <3>2. /\ s \in Nat /\ s >= 1 /\ Begun(s) \in Nat /\ Begun(s) <= lastTick
              /\ lastTick < Begun(s) + StageDuration
            BY <1>2, <2>2, StageFacts, BegunFacts
        <3> HIDE DEF s
        <3>3. CASE now < Begun(s) + StageDuration
            <4>1. r = s
                BY <3>2, <3>3, <1>1, <1>2, StageIs DEF r
            <4> QED BY <4>1, <3>1, <1>1, <1>2
        <3>4. CASE now >= Begun(s) + StageDuration
            <4>1. Begun(s + 1) = Begun(s) + StageDuration
                BY <3>2, BegunFacts
            <4>2. now < Begun(s + 1) + TickDelay /\ TickDelay <= StageDuration
                BY <4>1, <3>2, <1>2, ConstantFacts
            <4>3. r = s + 1
                BY <4>1, <4>2, <3>2, <3>4, <1>2, StageIs, ConstantFacts DEF r
            <4>4. users = Levels[s]
                BY <3>1, <3>2, <3>4, <1>2, ConstantFacts
            <4>5. Levels[s] < Levels[r] /\ Levels[s] \in Nat
                BY <4>3, <3>1, <1>3, ConstantFacts
            <4>6. askedAt' = now
                BY <4>5, <3>1, <1>1, <1>3
            <4>7. r - 1 = s /\ Levels[r - 1] <= users
                BY <4>3, <4>4, <4>5, <3>2, <1>2
            <4>8. now <= askedAt' + SpawnDelay /\ askedAt' < Begun(r) + TickDelay
                BY <4>2, <4>3, <4>6, <1>2, ConstantFacts
            <4> QED BY <4>4, <4>5, <4>7, <4>8, <1>2, <1>3
        <3> QED BY <3>3, <3>4, <3>2, <1>2, ConstantFacts
    <2> QED BY <2>1, <2>2, <1>2
<1>5. TypeOK'
    BY <1>1, <1>2, <1>3 DEF IInv, TypeOK
<1>6. Clock'
    BY <1>1, <1>2, ConstantFacts DEF IInv, Clock
<1>7. InStage'
    BY <1>1, <1>2, <1>3, <1>4 DEF InStage, r
<1>8. Rows' /\ (history \in Seq(HistoryType))'
    BY <1>1, <1>2, <1>5, RowsStay, TypeFacts DEF IInv
<1> QED BY <1>5, <1>6, <1>7, <1>8 DEF IInv

LEMMA TickEndStep == IInv /\ TickEnd => IInv'
<1> SUFFICES ASSUME IInv, TickEnd PROVE IInv'
    OBVIOUS
<1>1. /\ StageAt(now) > Len(Levels) /\ running' = FALSE /\ users' = 0 /\ waiting' = 0
      /\ UNCHANGED <<scenario, now, lastTick, asked, askedAt, stats, history>>
    BY DEF TickEnd
<1>2. Len(Levels) * StageDuration <= now
    <2> DEFINE r == StageAt(now)
    <2>1. /\ r \in Nat /\ r >= 1 /\ Begun(r) <= now /\ Begun(r) \in Nat /\ now \in Nat
        BY StageFacts, BegunFacts, TypeFacts DEF IInv
    <2> HIDE DEF r
    <2>2. Len(Levels) + 1 <= r /\ Len(Levels) \in Nat
        BY <1>1, <2>1, ConstantFacts DEF r
    <2>3. Begun(Len(Levels) + 1) = Len(Levels) * StageDuration
        BY <2>2 DEF Begun
    <2>4. Begun(Len(Levels) + 1) <= Begun(r)
        <3>1. CASE r = Len(Levels) + 1
            <4>1. Begun(r) = Begun(Len(Levels) + 1) /\ Begun(r) <= Begun(r)
                BY <3>1, <2>1
            <4> QED BY <4>1
        <3>2. CASE Len(Levels) + 1 < r
            <4>1. Begun(Len(Levels) + 1) + StageDuration <= Begun(r)
                BY <3>2, <2>1, <2>2, BegunOrder
            <4>2. Begun(Len(Levels) + 1) \in Nat /\ StageDuration \in Nat
                BY <2>2, BegunFacts, ConstantFacts
            <4> QED BY <4>1, <4>2, <2>1
        <3> QED BY <3>1, <3>2, <2>1, <2>2
    <2> QED BY <2>1, <2>2, <2>3, <2>4, BegunFacts
<1>3. TypeOK'
    <2>1. {asked, users, waiting}' \subseteq Nat /\ (waiting <= users)'
        BY <1>1 DEF IInv, TypeOK
    <2> QED BY <1>1, <2>1 DEF IInv, TypeOK
<1>4. Clock'
    BY <1>1, <1>2 DEF IInv, Clock
<1>5. Rows' /\ (history \in Seq(HistoryType))'
    BY <1>1, <1>3, RowsStay, TypeFacts DEF IInv
<1> QED BY <1>1, <1>3, <1>4, <1>5 DEF IInv

LEMMA SpawnStep == IInv /\ Spawn => IInv'
<1> SUFFICES ASSUME IInv, Spawn PROVE IInv'
    OBVIOUS
<1>1. /\ running /\ users' \in (users + 1)..asked
      /\ UNCHANGED <<scenario, running, now, lastTick, asked, askedAt, waiting, stats,
                     history>>
    BY DEF Spawn
<1>2. users \in Nat /\ asked \in Nat /\ waiting \in Nat /\ Total(stats) \in Nat
      /\ waiting <= users
    BY TypeFacts DEF IInv, TypeOK
<1>3. users' \in Nat /\ users' > users /\ users' <= asked
    BY <1>1, <1>2
<1>4. TypeOK'
    BY <1>1, <1>2, <1>3 DEF IInv, TypeOK
<1>5. Clock'
    BY <1>1 DEF IInv, Clock
<1>6. InStage'
    <2>1. users = asked \/ now <= askedAt + SpawnDelay
        BY <1>1 DEF IInv, InStage
    <2>2. now <= askedAt + SpawnDelay
        BY <2>1, <1>2, <1>3
    <2>3. ASSUME lastTick >= 0, StageAt(lastTick) > 1
          PROVE  Levels[StageAt(lastTick) - 1] <= users'
        <3> DEFINE s == StageAt(lastTick)
        <3>1. s - 1 \in DOMAIN Levels /\ Levels[s - 1] <= users
            <4>1. s \in DOMAIN Levels /\ Levels[s - 1] <= users /\ s > 1
                BY <2>3, <1>1 DEF IInv, InStage
            <4> HIDE DEF s
            <4> QED BY <4>1, ConstantFacts
        <3> HIDE DEF s
        <3>2. Levels[s - 1] \in Nat
            BY <3>1, ConstantFacts
        <3> QED BY <3>1, <3>2, <1>2, <1>3 DEF s
    <2> QED BY <1>1, <1>3, <2>2, <2>3 DEF IInv, InStage
<1>7. Rows' /\ (history \in Seq(HistoryType))'
    BY <1>1, <1>2, <1>3, <1>4, RowsStay DEF IInv
<1> QED BY <1>4, <1>5, <1>6, <1>7 DEF IInv

\* One more event, and no other change but of those who wait.
LEMMA EventStep ==
    ASSUME IInv, NEW name \in Name, Fire(name), waiting' \in Nat, waiting' <= users,
           UNCHANGED <<scenario, running, now, load, history>>
    PROVE  IInv'
<1>1. /\ stats["target"] \in Nat /\ stats["circuit_setup"] \in Nat
      /\ stats["circuit_request"] \in Nat /\ MaxEvents \in Nat
      /\ stats \in [Name -> 0..MaxEvents]
      /\ Total(stats) < MaxEvents /\ stats' = [stats EXCEPT ![name] = @ + 1]
    BY ConstantFacts DEF IInv, TypeOK, Fire, Name
<1>2. stats[name] + 1 \in 0..MaxEvents
    BY <1>1 DEF Total, Name
<1>3. stats' \in [Name -> 0..MaxEvents]
    BY <1>1, <1>2
<1>4. Total(stats') >= Total(stats)
    <2>1. name = "target" \/ name = "circuit_setup" \/ name = "circuit_request"
        BY DEF Name
    <2> QED BY <1>1, <2>1 DEF Total, Name
<1>5. UNCHANGED <<scenario, running, now, lastTick, asked, askedAt, users, history>>
    BY DEF load
<1>6. TypeOK'
    BY <1>3, <1>5 DEF IInv, TypeOK
<1>7. Clock' /\ (running' => InStage')
    BY <1>5 DEF IInv, Clock, InStage
<1>8. Rows' /\ (history \in Seq(HistoryType))'
    BY <1>4, <1>5, <1>6, RowsStay, TypeFacts DEF IInv
<1> QED BY <1>6, <1>7, <1>8 DEF IInv

LEMMA HitTargetStep == IInv /\ HitTarget => IInv'
<1> SUFFICES ASSUME IInv, HitTarget PROVE IInv'
    OBVIOUS
<1>1. Fire("target") /\ UNCHANGED <<scenario, running, now, load, waiting, history>>
    BY DEF HitTarget
<1>2. waiting' \in Nat /\ waiting' <= users
    BY <1>1 DEF IInv, TypeOK
<1> QED BY <1>1, <1>2, EventStep DEF Name

LEMMA SetupEndsStep ==
    ASSUME IInv, NEW ok \in BOOLEAN, SetupEnds(ok)
    PROVE  IInv'
<1>1. /\ Fire("circuit_setup") /\ waiting < users
      /\ waiting' = IF ok THEN waiting + 1 ELSE waiting
      /\ UNCHANGED <<scenario, running, now, load, history>>
    BY DEF SetupEnds
<1>2. waiting' \in Nat /\ waiting' <= users
    BY <1>1, TypeFacts DEF IInv
<1> QED BY <1>1, <1>2, EventStep DEF Name

LEMMA RequestEndsStep == IInv /\ RequestEnds => IInv'
<1> SUFFICES ASSUME IInv, RequestEnds PROVE IInv'
    OBVIOUS
<1>1. /\ Fire("circuit_request") /\ waiting > 0 /\ waiting' = waiting - 1
      /\ UNCHANGED <<scenario, running, now, load, history>>
    BY DEF RequestEnds
<1>2. waiting' \in Nat /\ waiting' <= users
    <2>1. waiting \in Nat /\ users \in Nat /\ waiting <= users
        BY DEF IInv, TypeOK
    <2> QED BY <1>1, <2>1
<1> QED BY <1>1, <1>2, EventStep DEF Name

----------------------------------------------------------------------------
(* The step that writes a row.                                             *)

\* Users that are those of a stage are there while it lasts, up to what Locust
\* is late.
LEMMA UsersTellStage ==
    ASSUME IInv, Advance, NEW s \in DOMAIN Levels, users = Levels[s]
    PROVE  /\ Begun(s) < now + 1
           /\ now + 1 <= Begun(s) + StageDuration + TickDelay + SpawnDelay
<1>1. /\ running /\ now < lastTick + TickDelay
      /\ users = asked \/ now < askedAt + SpawnDelay
    BY DEF Advance
<1>2. /\ now \in Nat /\ lastTick \in Int /\ askedAt \in Nat /\ asked \in Nat /\ users \in Nat
      /\ -1 <= lastTick /\ lastTick <= now /\ users <= asked
    BY <1>1, TypeFacts DEF IInv, Clock, InStage
<1>3. s \in Nat /\ s >= 1 /\ Levels[s] >= 1 /\ Begun(s) \in Nat
    BY ConstantFacts, BegunFacts
<1>4. lastTick >= 0
    <2>1. lastTick = -1 => users = 0
        BY <1>1, <1>2 DEF IInv, InStage
    <2> QED BY <2>1, <1>2, <1>3
<1> DEFINE q == StageAt(lastTick)
<1>5. /\ q \in DOMAIN Levels /\ asked = Levels[q] /\ askedAt < Begun(q) + TickDelay
      /\ q > 1 => Levels[q - 1] <= users
    BY <1>1, <1>4 DEF IInv, InStage
<1>6. /\ q \in Nat /\ q >= 1 /\ Begun(q) \in Nat /\ Begun(q) <= lastTick
      /\ lastTick < Begun(q) + StageDuration
    BY <1>2, <1>4, StageFacts, BegunFacts
<1> HIDE DEF q
<1>7. s <= q
    <2>1. q < s => Levels[q] < Levels[s]
        BY <1>5, ConstantFacts
    <2>2. ~(q < s)
        BY <2>1, <1>2, <1>5
    <2> QED BY <2>2, <1>3, <1>6
<1>8. CASE s = q
    <2>1. Begun(s) <= lastTick /\ lastTick < Begun(s) + StageDuration
        BY <1>6, <1>8
    <2>2. StageDuration \in Nat /\ TickDelay \in Nat /\ SpawnDelay \in Nat
        BY ConstantFacts
    <2> QED BY <2>1, <2>2, <1>1, <1>2, <1>3
<1>9. CASE s < q
    <2>1. q - 1 \in DOMAIN Levels /\ q > 1
        BY <1>3, <1>5, <1>6, <1>9, ConstantFacts
    <2>2. ~(s < q - 1)
        <3>1. s < q - 1 => Levels[s] < Levels[q - 1]
            BY <2>1, ConstantFacts
        <3>2. Levels[q - 1] <= Levels[s] /\ Levels[q - 1] \in Nat /\ Levels[s] \in Nat
            BY <1>5, <2>1, ConstantFacts
        <3> QED BY <3>1, <3>2
    <2>3. q = s + 1
        BY <2>2, <1>3, <1>6, <1>9
    <2>4. Begun(q) = Begun(s) + StageDuration
        BY <2>3, <1>3, BegunFacts
    <2>5. Levels[s] < Levels[q]
        BY <1>5, <1>9, ConstantFacts
    <2>6. now < askedAt + SpawnDelay
        BY <2>5, <1>1, <1>2, <1>5
    <2>7. StageDuration \in Nat /\ TickDelay \in Nat /\ SpawnDelay \in Nat
        BY ConstantFacts
    <2>8. askedAt < Begun(s) + StageDuration + TickDelay
        BY <2>4, <1>5
    <2>9. Begun(s) + StageDuration <= lastTick
        BY <2>4, <1>6
    <2> QED BY <2>6, <2>7, <2>8, <2>9, <1>2, <1>3
<1> QED BY <1>3, <1>6, <1>7, <1>8, <1>9

\* In the last second of a stage all its users are there.
LEMMA StageHasItsUsers ==
    ASSUME IInv, Advance, NEW s \in DOMAIN Levels, now + 1 = Begun(s) + StageDuration
    PROVE  users = Levels[s]
<1>1. /\ running /\ now < lastTick + TickDelay
      /\ users = asked \/ now < askedAt + SpawnDelay
    BY DEF Advance
<1>2. /\ now \in Nat /\ lastTick \in Int /\ askedAt \in Nat /\ lastTick <= now
    BY <1>1, TypeFacts DEF IInv, Clock
<1>3. s \in Nat /\ s >= 1 /\ Begun(s) \in Nat
    BY ConstantFacts, BegunFacts
<1>4. lastTick \in Nat /\ Begun(s) <= lastTick /\ lastTick < Begun(s) + StageDuration
    BY <1>1, <1>2, <1>3, ConstantFacts
<1>5. StageAt(lastTick) = s
    BY <1>3, <1>4, StageIs
<1>6. asked = Levels[s] /\ askedAt < Begun(s) + TickDelay
    BY <1>1, <1>4, <1>5 DEF IInv, InStage
<1>7. ~(now < askedAt + SpawnDelay)
    BY <1>2, <1>3, <1>6, ConstantFacts
<1> QED BY <1>1, <1>6, <1>7

LEMMA AdvanceStep == IInv /\ Advance => IInv'
<1> SUFFICES ASSUME IInv, Advance PROVE IInv'
    OBVIOUS
<1>1. /\ running /\ now < lastTick + TickDelay /\ now' = now + 1
      /\ users = asked \/ now < askedAt + SpawnDelay
      /\ history' = Append(history, HistoryRow)
      /\ UNCHANGED <<scenario, running, lastTick, asked, askedAt, users, waiting, stats>>
    BY DEF Advance, load
<1>2. /\ now \in Nat /\ lastTick \in Int /\ askedAt \in Nat /\ users \in Nat
      /\ Total(stats) \in Nat /\ lastTick <= now
    BY TypeFacts DEF IInv, Clock
<1>3. HistoryRow \in HistoryType /\ HistoryRow.users = users /\ HistoryRow.at = now
      /\ HistoryRow.total = Total(stats)
    BY <1>2 DEF HistoryRow, HistoryType
<1>4. /\ history' \in Seq(HistoryType) /\ Len(history') = now + 1
      /\ DOMAIN history = 1..now /\ DOMAIN history' = 1..(now + 1)
      /\ history'[now + 1] = HistoryRow
      /\ \A i \in DOMAIN history : history'[i] = history[i]
    <2>1. history \in Seq(HistoryType) /\ Len(history) = now
        BY DEF IInv, Clock
    <2> HIDE DEF HistoryType, HistoryRow
    <2> QED BY <2>1, <1>1, <1>3
<1>5. TypeOK' /\ Clock'
    <2>1. TypeOK'
        BY <1>1, <1>2 DEF IInv, TypeOK
    <2>2. -1 <= lastTick
        BY DEF IInv, Clock
    <2>3. now + 1 <= lastTick + TickDelay /\ lastTick <= now + 1
        BY <1>1, <1>2, ConstantFacts
    <2>4. Clock'
        BY <1>1, <1>4, <2>2, <2>3 DEF Clock
    <2> QED BY <2>1, <2>4
<1>6. InStage'
    BY <1>1, <1>2, ConstantFacts DEF IInv, InStage
<1>7. Rows'
    <2> SUFFICES ASSUME NEW i \in DOMAIN history'
                 PROVE  RowOK(i)'
        BY DEF Rows
    <2>1. CASE i \in DOMAIN history
        <3>1. \A j \in 1..i : history'[j] = history[j]
            <4>1. \A j \in 1..i : j \in DOMAIN history
                BY <2>1, <1>2, <1>4
            <4> QED BY <4>1, <1>4
        <3> QED BY <2>1, <3>1, <1>1, <1>4 DEF IInv, Rows, RowOK
    <2>2. CASE i = now + 1
        <3>1. history'[i].users = users /\ history'[i].at = i - 1
              /\ history'[i].total = Total(stats)
            BY <2>2, <1>2, <1>3, <1>4
        <3>2. ASSUME NEW j \in 1..i
              PROVE  history'[j].users <= users /\ history'[j].total <= Total(stats)
            <4>1. CASE j \in DOMAIN history
                BY <4>1, <1>1, <1>4 DEF IInv, Rows, RowOK
            <4>2. CASE j = now + 1
                BY <4>2, <1>2, <1>3, <1>4
            <4> QED BY <4>1, <4>2, <2>2, <1>2, <1>4
        <3>3. ASSUME NEW s \in DOMAIN Levels
              PROVE  /\ users = Levels[s] =>
                          /\ Begun(s) < i
                          /\ i <= Begun(s) + StageDuration + TickDelay + SpawnDelay
                     /\ i = Begun(s) + StageDuration => users = Levels[s]
            BY <2>2, UsersTellStage, StageHasItsUsers
        <3>4. Total(stats) <= Total(stats) /\ users <= users
            BY <1>2
        <3> QED BY <3>1, <3>2, <3>3, <3>4, <1>1 DEF RowOK, Begun
    <2> QED BY <2>1, <2>2, <1>2, <1>4
<1> QED BY <1>1, <1>4, <1>5, <1>6, <1>7 DEF IInv

\* The invariant holds in every state of every behaviour.
THEOREM Invariant == Spec => []IInv
<1>1. Init => IInv
    BY InitIInv
<1>2. IInv /\ [Next]_vars => IInv'
    <2> SUFFICES ASSUME IInv, [Next]_vars PROVE IInv'
        OBVIOUS
    <2>1. CASE Tick
        BY <2>1, TickStageStep, TickEndStep DEF Tick
    <2>2. CASE Spawn
        BY <2>2, SpawnStep
    <2>3. CASE Advance
        BY <2>3, AdvanceStep
    <2>4. CASE HitTarget \/ RequestEnds
        BY <2>4, HitTargetStep, RequestEndsStep
    <2>5. CASE \E ok \in BOOLEAN : SetupEnds(ok)
        BY <2>5, SetupEndsStep
    <2>6. CASE UNCHANGED vars
        BY <2>6 DEF vars, IInv, TypeOK, Clock, InStage, Rows, RowOK
    <2> QED BY <2>1, <2>2, <2>3, <2>4, <2>5, <2>6 DEF Next
<1> QED BY <1>1, <1>2, PTL DEF Spec

\* The variables have their types: no more users wait than there are, and no
\* more events are counted than the test has.
THEOREM TypeCorrect == Spec => []TypeOK
<1>1. IInv => TypeOK
    BY DEF IInv
<1> QED BY <1>1, Invariant, PTL

----------------------------------------------------------------------------
(* The samples of a test that is over.                                     *)

\* Every stage has been there to its last row, with all its users.
LEMMA LastRowOfStage ==
    ASSUME IInv, ~running, NEW s \in DOMAIN Levels
    PROVE  /\ Begun(s) \in Nat
           /\ Begun(s) + StageDuration \in DOMAIN history
           /\ history[Begun(s) + StageDuration].users = Levels[s]
<1> DEFINE e == Begun(s) + StageDuration
           n == Len(Levels)
<1>1. /\ s \in Nat /\ s >= 1 /\ n \in Nat /\ s < n + 1 /\ n + 1 >= 1
      /\ StageDuration \in Nat /\ StageDuration >= 1
    BY ConstantFacts
<1>2. Begun(s) \in Nat /\ e <= Begun(n + 1)
    BY <1>1, BegunFacts, BegunOrder
<1>3. Begun(n + 1) = n * StageDuration
    BY <1>1 DEF Begun
<1>4. n * StageDuration <= now /\ now \in Nat
    BY TypeFacts DEF IInv, Clock
<1> HIDE DEF n
<1>5. e \in 1..now
    <2>1. e \in Nat /\ e >= 1
        BY <1>1, <1>2
    <2>2. n * StageDuration \in Nat
        BY <1>1
    <2> HIDE DEF e
    <2> QED BY <2>1, <2>2, <1>2, <1>3, <1>4
<1>6. e \in DOMAIN history
    BY <1>5, HistoryFacts
<1> QED BY <1>2, <1>6 DEF IInv, Rows, RowOK

\* A sample of a level is a row of its stage, and all rows from there to the
\* last of the stage are samples of the level, too.
LEMMA SamplesOfLevel ==
    ASSUME IInv, NEW s \in DOMAIN Levels, NEW i \in AtLevel(Levels[s])
    PROVE  /\ i \in Nat /\ history[i].at = i - 1
           /\ Begun(s) < i /\ i <= Begun(s) + StageDuration + TickDelay + SpawnDelay
           /\ \A e \in AtLevel(Levels[s]) : i..e \subseteq AtLevel(Levels[s])
<1>1. /\ i \in DOMAIN history /\ history[i].users = Levels[s]
      /\ history[i].users > 0 /\ history[i].total > 0
    BY DEF AtLevel, Loaded
<1>2. DOMAIN history = 1..now /\ now \in Nat
    BY HistoryFacts, TypeFacts DEF IInv
<1>3. ASSUME NEW e \in AtLevel(Levels[s]), NEW j \in i..e
      PROVE  j \in AtLevel(Levels[s])
    <2>1. e \in DOMAIN history /\ history[e].users = Levels[s]
        BY DEF AtLevel, Loaded
    <2>2. j \in DOMAIN history /\ i \in 1..j /\ j \in 1..e
        BY <1>1, <1>2, <2>1
    <2>3. /\ history[j].users \in Nat /\ history[j].total \in Nat
          /\ history[i].total \in Nat /\ Levels[s] \in Nat
        BY <1>1, <2>2, HistoryFacts, ConstantFacts
    <2>4. /\ Levels[s] <= history[j].users /\ history[j].users <= Levels[s]
          /\ history[i].total <= history[j].total
        BY <1>1, <2>1, <2>2 DEF IInv, Rows, RowOK
    <2>5. history[j].users = Levels[s] /\ history[j].total > 0
        BY <1>1, <2>3, <2>4
    <2> QED BY <1>1, <2>2, <2>5 DEF AtLevel, Loaded
<1> QED BY <1>1, <1>2, <1>3 DEF IInv, Rows, RowOK

\* Rows with events stay samples: once a row has one, so does a later row that
\* ends a stage.
LEMMA LastRowIsSample ==
    ASSUME IInv, ~running, NEW s \in DOMAIN Levels, NEW i \in Loaded,
           i <= Begun(s) + StageDuration
    PROVE  Begun(s) + StageDuration \in AtLevel(Levels[s])
<1> DEFINE e == Begun(s) + StageDuration
<1>1. e \in DOMAIN history /\ history[e].users = Levels[s]
    BY LastRowOfStage
<1>2. i \in DOMAIN history /\ history[i].total > 0
    BY DEF Loaded
<1>3. DOMAIN history = 1..now /\ now \in Nat
    BY HistoryFacts, TypeFacts DEF IInv
<1> HIDE DEF e
<1>4. i \in 1..e
    BY <1>1, <1>2, <1>3 DEF e
<1>5. history[i].total <= history[e].total
    BY <1>1, <1>4 DEF IInv, Rows, RowOK
<1>6. history[i].total \in Nat /\ history[e].total \in Nat /\ Levels[s] \in Nat
      /\ Levels[s] >= 1
    BY <1>1, <1>2, HistoryFacts, ConstantFacts
<1>7. e \in AtLevel(Levels[s])
    BY <1>1, <1>2, <1>5, <1>6 DEF AtLevel, Loaded
<1> QED BY <1>7 DEF e

\* Half of a set of numbers above m and below, without gaps up to e, lies past
\* the middle between m and e.
LEMMA LatterHalf ==
    ASSUME NEW m \in Nat, NEW e \in Nat, NEW A \in SUBSET Nat, IsFiniteSet(A),
           \A j \in A : m < j, e \in A,
           NEW i \in A, i..e \subseteq A,
           Cardinality({j \in A : j > i}) <
               IF Cardinality(A) < 2 THEN 1 ELSE Cardinality(A) \div 2
    PROVE  2 * i > m + e
<1> DEFINE less == {j \in A : j < i}
           more == {j \in A : j > i}
<1>1. IsFiniteSet(less) /\ IsFiniteSet(more) /\ IsFiniteSet(A)
    BY FS_Subset
<1>2. /\ Cardinality(less) \in Nat /\ Cardinality(more) \in Nat
      /\ Cardinality(A) \in Nat
    BY <1>1, FS_CardinalityType
<1>3. Cardinality(A) = Cardinality(less) + 1 + Cardinality(more)
    <2>1. IsFiniteSet(less \cup {i}) /\ Cardinality(less \cup {i}) = Cardinality(less) + 1
        <3>1. i \notin less
            OBVIOUS
        <3> HIDE DEF less
        <3> QED BY <1>1, <3>1, FS_AddElement
    <2>2. A = (less \cup {i}) \cup more /\ (less \cup {i}) \cap more = {}
        <3>1. \A j \in A : j < i \/ j = i \/ j > i
            OBVIOUS
        <3>2. A \subseteq (less \cup {i}) \cup more
            BY <3>1
        <3>3. less \subseteq A /\ more \subseteq A /\ i \in A
            OBVIOUS
        <3>4. \A j \in A : ~((j < i \/ j = i) /\ j > i)
            OBVIOUS
        <3>5. \A j \in more : j \notin less /\ j # i
            BY <3>4
        <3> HIDE DEF less, more
        <3> QED BY <3>2, <3>3, <3>5
    <2> HIDE DEF less, more
    <2>3. Cardinality((less \cup {i}) \cup more) =
              Cardinality(less \cup {i}) + Cardinality(more)
                  - Cardinality((less \cup {i}) \cap more)
        BY <1>1, <2>1, FS_Union
    <2>4. Cardinality((less \cup {i}) \cap more) = 0
        BY <2>2, FS_EmptySet
    <2> QED BY <2>1, <2>2, <2>3, <2>4, <1>2
<1>4. Cardinality(more) <= Cardinality(less)
    BY <1>2, <1>3
<1>5. CASE i >= e
    BY <1>5
<1>6. CASE i < e
    <2>1. Cardinality(more) >= e - i
        <3>1. (i + 1)..e \subseteq more
            BY <1>6
        <3>2. Cardinality((i + 1)..e) = e - i /\ Cardinality((i + 1)..e) <= Cardinality(more)
            <4>1. Cardinality((i + 1)..e) <= Cardinality(more)
                BY <3>1, <1>1, FS_Subset
            <4>2. Cardinality((i + 1)..e) = e - i
                BY <1>6, FS_Interval
            <4> QED BY <4>1, <4>2
        <3> QED BY <3>2, <1>2
    <2>2. Cardinality(less) <= i - 1 - m
        <3>1. less \subseteq (m + 1)..(i - 1) /\ m < i /\ i \in Nat
            <4>1. \A j \in less : j \in Nat /\ m < j /\ j < i
                OBVIOUS
            <4>2. m < i /\ i \in Nat
                OBVIOUS
            <4> HIDE DEF less
            <4> QED BY <4>1, <4>2
        <3>2. IsFiniteSet((m + 1)..(i - 1)) /\ Cardinality((m + 1)..(i - 1)) = i - 1 - m
            <4> DEFINE a == m + 1
                       b == i - 1
            <4>1. a \in Int /\ b \in Int
                BY <3>1
            <4> HIDE DEF a, b
            <4>2. IsFiniteSet(a..b) /\ Cardinality(a..b) = IF a > b THEN 0 ELSE b - a + 1
                BY <4>1, FS_Interval
            <4> QED BY <4>2, <3>1 DEF a, b
        <3> HIDE DEF less
        <3>3. Cardinality(less) <= Cardinality((m + 1)..(i - 1))
            BY <3>1, <3>2, FS_Subset
        <3> QED BY <3>2, <3>3
    <2> HIDE DEF less, more
    <2> QED BY <2>1, <2>2, <1>2, <1>4
<1> QED BY <1>5, <1>6

\* Whatever Locust is late with, the samples charted for a level are of its
\* stage, and of the second half of it.
THEOREM SteadyIsLate == Spec => []SteadySamplesAreLate
<1>1. IInv => SteadySamplesAreLate
    <2> SUFFICES ASSUME IInv, ~running, NEW s \in DOMAIN Levels, NEW i \in Steady(Levels[s])
                 PROVE  /\ 2 * (history[i].at + 1) > 2 * Begun(s) + StageDuration
                        /\ history[i].at < Begun(s) + StageDuration + TickDelay + SpawnDelay
        BY DEF SteadySamplesAreLate
    <2> DEFINE e == Begun(s) + StageDuration
               A == AtLevel(Levels[s])
    <2>1. /\ i \in A
          /\ Cardinality({j \in A : j > i}) <
                IF Cardinality(A) < 2 THEN 1 ELSE Cardinality(A) \div 2
        BY DEF Steady
    <2>2. /\ StageDuration \in Nat /\ TickDelay \in Nat /\ SpawnDelay \in Nat
          /\ Begun(s) \in Nat /\ e \in Nat
        BY LastRowOfStage, ConstantFacts
    <2>3. /\ i \in Nat /\ history[i].at = i - 1
          /\ i <= Begun(s) + StageDuration + TickDelay + SpawnDelay
        BY <2>1, SamplesOfLevel
    <2>4. A \in SUBSET Nat /\ IsFiniteSet(A)
        <3>1. DOMAIN history = 1..now /\ now \in Nat
            BY HistoryFacts, TypeFacts DEF IInv
        <3>2. A \subseteq DOMAIN history
            BY DEF AtLevel, Loaded
        <3>3. IsFiniteSet(DOMAIN history)
            BY <3>1, FS_Interval
        <3> HIDE DEF A
        <3> QED BY <3>1, <3>2, <3>3, FS_Subset
    <2>5. 2 * i > 2 * Begun(s) + StageDuration
        <3>1. CASE i > e
            BY <3>1, <2>2, <2>3
        <3>2. CASE i <= e
            <4>1. e \in A
                <5>1. i \in Loaded
                    BY <2>1 DEF AtLevel
                <5> QED BY <3>2, <5>1, LastRowIsSample
            <4>2. i..e \subseteq A /\ \A j \in A : Begun(s) < j
                BY <2>1, <4>1, SamplesOfLevel
            <4> HIDE DEF e, A
            <4>3. 2 * i > Begun(s) + e
                BY <2>1, <2>2, <2>4, <4>1, <4>2, LatterHalf
            <4> QED BY <4>3, <2>2, <2>3 DEF e
        <3> QED BY <3>1, <3>2, <2>2, <2>3
    <2> QED BY <2>2, <2>3, <2>5
<1> QED BY <1>1, Invariant, PTL

\* A level whose stage comes after one with samples has samples of its own.
THEOREM LevelsAreMeasured == Spec => []NoLevelIsMissing
<1>1. IInv => NoLevelIsMissing
    <2> SUFFICES ASSUME IInv, ~running, NEW k \in DOMAIN Levels, NEW l \in DOMAIN Levels,
                        k < l, NEW i \in AtLevel(Levels[k])
                 PROVE  AtLevel(Levels[l]) # {}
        BY DEF NoLevelIsMissing
    <2>1. i \in Nat /\ i <= Begun(k) + StageDuration + TickDelay + SpawnDelay
        BY SamplesOfLevel
    <2>2. Begun(k) + StageDuration <= Begun(l)
        BY BegunOrder, ConstantFacts
    <2>3. i <= Begun(l) + StageDuration
        <3>1. Begun(k) \in Nat /\ Begun(l) \in Nat
            BY LastRowOfStage
        <3> QED BY <3>1, <2>1, <2>2, ConstantFacts
    <2>4. i \in Loaded
        BY DEF AtLevel
    <2> QED BY <2>3, <2>4, LastRowIsSample
<1> QED BY <1>1, Invariant, PTL
=============================================================================
