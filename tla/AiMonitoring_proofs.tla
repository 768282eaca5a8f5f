------------------------ MODULE AiMonitoring_proofs ------------------------
(***************************************************************************)
(* Machine-checked theorems about AiMonitoring, for every value of its      *)
(* constants that satisfies the assumptions Sizes and Shapes.               *)
(***************************************************************************)
EXTENDS AiMonitoring, FiniteSetTheorems, TLAPS

-----------------------------------------------------------------------------
(* The inductive invariant.                                                 *)

\* A worker has units in hand only between StartUnits and the end of its passes,
\* and units to do only in the first pass.
IdleHands ==
  \A w \in Workers, u \in Units :
    /\ pc[w] \notin {"pass", "retrying", "aborted"} => stage[w][u] = "out"
    /\ pc[w] # "pass" => stage[w][u] # "todo"

\* Rows exist up to created; a worker's run and a run being cancelled are rows.
JobsExist ==
  /\ \A r \in RunId : runs[r].status = "ABSENT" <=> r > created
  /\ \A w \in Workers : pc[w] # "idle" => job[w] \in 1..created
  /\ cancelling \subseteq 1..created

\* The second write of a manual request, and the final write of any execution.
WritersHonest ==
  \A w \in Workers :
    /\ pc[w] = "created" => runs[job[w]].stamp # 0
    /\ pc[w] = "write" => verdict[w] \in Terminal

\* A scheduled run that is being executed is no longer QUEUED.
ExecutedIsClaimed ==
  \A w \in Workers :
    pc[w] \in Executing /\ runs[job[w]].stamp = 0 => runs[job[w]].status # "QUEUED"

Paying(w, u) == stage[w][u] \in {"charge", "insert"}

\* An attempt that is about to be charged has its own observation, not charged
\* by anybody yet, and no two attempts hold the same one.
PendingChargesDistinct ==
  /\ \A w \in Workers, u \in Units :
       /\ Paying(w, u) => KeyOf(u, job[w]) \in Observed \ charged
       /\ stage[w][u] = "insert" => Limit > 0
  /\ \A v, w \in Workers, u \in Units :
       Paying(v, u) /\ Paying(w, u) /\ KeyOf(u, job[v]) = KeyOf(u, job[w])
         => v = w

Control == IdleHands /\ JobsExist /\ WritersHonest /\ ExecutedIsClaimed

Money == PendingChargesDistinct /\ UsageIsCharged /\ IsFiniteSet(charged)

IInv ==
  TypeOK /\ Control /\ OneRunPerWindow /\ ScheduledRunExclusive /\ Money

-----------------------------------------------------------------------------
LEMMA InitInv == Init => IInv
<1> SUFFICES ASSUME Init PROVE IInv
  OBVIOUS
<1> USE Sizes, Shapes DEF Init
<1>1. TypeOK
  <2>1. EnvTypes /\ SchedTypes /\ RowTypes /\ MoneyTypes /\ PendingTypes
    BY DEF EnvTypes, SchedTypes, RowTypes, MoneyTypes, PendingTypes, Sizes
  <2>2. RunTypes
    BY DEF RunTypes, NoRun, Run, RunId, RunStatus, Sizes
  <2>3. HandTypes /\ WorkTypes
    BY DEF HandTypes, WorkTypes, Stages, NoTally, RunStatus, Sizes
  <2>4. QED
    BY <2>1, <2>2, <2>3 DEF TypeOK
<1>2. Control /\ OneRunPerWindow /\ ScheduledRunExclusive
  BY DEF Control, IdleHands, JobsExist, WritersHonest, OneRunPerWindow, NoRun,
         ExecutedIsClaimed, ScheduledRunExclusive, RunId, Executing, Sizes
<1>3. Money
  BY FS_EmptySet DEF Money, PendingChargesDistinct, Paying, UsageIsCharged,
     Observed, Sizes
<1>4. QED
  BY <1>1, <1>2, <1>3 DEF IInv

-----------------------------------------------------------------------------
(* What is not touched keeps its type.                                      *)
LEMMA Frames ==
  /\ EnvTypes /\ UNCHANGED envVars => EnvTypes'
  /\ EnvTypes /\ UNCHANGED <<window, site, crashes, cancels, siteChanges>> => EnvTypes'
  /\ SchedTypes /\ UNCHANGED schedVars => SchedTypes'
  /\ RunTypes /\ UNCHANGED runVars => RunTypes'
  /\ RowTypes /\ UNCHANGED rowVars => RowTypes'
  /\ MoneyTypes /\ UNCHANGED moneyVars => MoneyTypes'
  /\ PendingTypes /\ UNCHANGED pendingVars => PendingTypes'
  /\ HandTypes /\ UNCHANGED <<pc, job>> => HandTypes'
  /\ WorkTypes /\ UNCHANGED workVars => WorkTypes'
BY DEF EnvTypes, SchedTypes, RunTypes, RowTypes, MoneyTypes, PendingTypes, HandTypes,
       WorkTypes, envVars, schedVars, runVars, rowVars, moneyVars, pendingVars, workVars

LEMMA IdleTypes ==
  ASSUME HandTypes, WorkTypes, NEW w \in Workers, Idle(w)
  PROVE  HandTypes' /\ WorkTypes'
BY Sizes DEF Sizes, Idle, HandTypes, WorkTypes, NoTally, Busy, Stages, RunStatus

LEMMA NewRunType ==
  ASSUME NEW s \in Schedules \union {NoSchedule},
         NEW x \in 0..MaxWindow, NEW y \in 0..MaxRuns
  PROVE  NewRun(s, x, y) \in Run
BY DEF NewRun, NoRun, Run, RunStatus

LEMMA FreshTypes ==
  ASSUME RunTypes, NEW r \in RunId, NEW b \in BOOLEAN
  PROVE  [runs EXCEPT ![r].fresh = b] \in [RunId -> Run]
<1>1. [runs[r] EXCEPT !.fresh = b] \in Run
  BY DEF RunTypes, Run
<1>2. QED
  BY <1>1, Zenon DEF RunTypes

LEMMA StatusTypes ==
  ASSUME RunTypes, NEW r \in RunId, NEW v \in RunStatus, NEW b \in BOOLEAN
  PROVE  [runs EXCEPT ![r].status = v, ![r].recovered = b] \in [RunId -> Run]
<1>1. [runs[r] EXCEPT !.status = v, !.recovered = b] \in Run
  BY DEF RunTypes, Run
<1>2. QED
  BY <1>1, Zenon DEF RunTypes

LEMMA BeatTypes ==
  ASSUME RunTypes, NEW r \in RunId, Beat(r) \/ UNCHANGED runs, UNCHANGED created
  PROVE  RunTypes'
BY FreshTypes DEF RunTypes, Beat

LEMMA ResultType ==
  ASSUME RunTypes, NEW r \in RunId, NEW v \in RunStatus, NEW s \in Nat, NEW c \in Nat
  PROVE  [runs EXCEPT ![r].status = v, ![r].recovered = FALSE,
                      ![r].success = s, ![r].credit = c] \in [RunId -> Run]
<1>1. [runs[r] EXCEPT !.status = v, !.recovered = FALSE,
                      !.success = s, !.credit = c] \in Run
  BY DEF RunTypes, Run
<1>2. QED
  BY <1>1, Zenon DEF RunTypes

LEMMA NextRunType ==
  ASSUME SchedTypes, NEW s \in Schedules, NEW n \in Nat
  PROVE  [schedules EXCEPT ![s].active = FALSE, ![s].nextRun = n]
           \in [Schedules -> [exists : BOOLEAN, active : BOOLEAN, nextRun : Nat]]
BY DEF SchedTypes

Tallies == [Workers -> [success : Nat, failure : Int, credit : Nat]]

LEMMA TallyTypes ==
  ASSUME WorkTypes, NEW w \in Workers
  PROVE  /\ [tally EXCEPT ![w].success = @ + 1] \in Tallies
         /\ [tally EXCEPT ![w].failure = @ + 1] \in Tallies
         /\ [tally EXCEPT ![w].failure = @ - 1] \in Tallies
         /\ [tally EXCEPT ![w].credit = @ + 1] \in Tallies
<1>1. tally \in Tallies
  BY DEF WorkTypes, Tallies
<1>2. /\ [tally EXCEPT ![w].success = @ + 1] \in Tallies
      /\ [tally EXCEPT ![w].credit = @ + 1] \in Tallies
  BY <1>1 DEF Tallies
<1>3. /\ [tally EXCEPT ![w].failure = @ + 1] \in Tallies
      /\ [tally EXCEPT ![w].failure = @ - 1] \in Tallies
  BY <1>1 DEF Tallies
<1>4. QED
  BY <1>2, <1>3

LEMMA StageTypes ==
  ASSUME WorkTypes, NEW w \in Workers, NEW u \in Units, NEW x \in Stages
  PROVE  [stage EXCEPT ![w][u] = x] \in [Workers -> [Units -> Stages]]
BY DEF WorkTypes

\* The key of a unit a worker has in hand.
LEMMA KeyTypes ==
  ASSUME TypeOK, IdleHands, NEW w \in Workers, NEW u \in Units, stage[w][u] # "out"
  PROVE  KeyOf(u, job[w]) \in Key /\ job[w] \in RunId
BY DEF TypeOK, IdleHands, HandTypes, RunTypes, KeyOf, Key, Run, RunId, Busy

(* Type correctness: one step per action, and under it one per group of   *)
(* variables the action changes.                                            *)
LEMMA TypeStep == TypeOK /\ IdleHands /\ [Next]_vars => TypeOK'
<1> SUFFICES ASSUME TypeOK, IdleHands, [Next]_vars
             PROVE  TypeOK'
  OBVIOUS
<1> USE DEF TypeOK
<1>1. CASE AdvanceWindow
  <2>1. EnvTypes'
    BY <1>1, Sizes DEF AdvanceWindow, EnvTypes, envVars, Sizes
  <2>2. QED
    BY <1>1, <2>1, Frames DEF AdvanceWindow
<1>2. CASE SetSiteActive
  <2>1. EnvTypes'
    BY <1>2 DEF SetSiteActive, EnvTypes, envVars
  <2>2. QED
    BY <1>2, <2>1, Frames DEF SetSiteActive
<1>3. ASSUME NEW s \in Schedules, SetScheduleActive(s) PROVE TypeOK'
  <2>1. EnvTypes'
    BY <1>3 DEF SetScheduleActive, EnvTypes, envVars
  <2>2. SchedTypes'
    BY <1>3 DEF SetScheduleActive, SchedTypes, schedVars
  <2>3. QED
    BY <1>3, <2>1, <2>2, Frames DEF SetScheduleActive
<1>4. ASSUME NEW s \in Schedules, DeleteSchedule(s) PROVE TypeOK'
  <2>1. EnvTypes'
    BY <1>4 DEF DeleteSchedule, EnvTypes, envVars
  <2>2. SchedTypes'
    BY <1>4 DEF DeleteSchedule, SchedTypes, schedVars
  <2>3. RunTypes'
    BY <1>4 DEF DeleteSchedule, RunTypes, runVars, RunId, Run, RunStatus,
       Terminal
  <2>4. QED
    BY <1>4, <2>1, <2>2, <2>3, Frames DEF DeleteSchedule
<1>5. ASSUME NEW t \in Ticks, TickScan(t) PROVE TypeOK'
  <2>1. SchedTypes'
    BY <1>5 DEF TickScan, SchedTypes, schedVars, DueSchedules, EnvTypes
  <2>2. QED
    BY <1>5, <2>1, Frames DEF TickScan
<1>6. ASSUME NEW t \in Ticks, NEW s \in Schedules, TickDeactivate(t, s) PROVE TypeOK'
  <2>1. SchedTypes'
    <3>1. schedules' \in [Schedules -> [exists : BOOLEAN, active : BOOLEAN, nextRun : Nat]]
      <4>1. dueAt[t] + 1 \in Nat
        BY Sizes DEF SchedTypes, Sizes
      <4>2. QED
        <5>1. \/ schedules' = [schedules EXCEPT ![s].active = FALSE,
                                             ![s].nextRun = dueAt[t] + 1]
              \/ schedules' = schedules
          BY <1>6 DEF TickDeactivate
        <5>2. [schedules EXCEPT ![s].active = FALSE, ![s].nextRun = dueAt[t] + 1]
                \in [Schedules -> [exists : BOOLEAN, active : BOOLEAN, nextRun : Nat]]
          BY <4>1, NextRunType
        <5>3. QED
          BY <5>1, <5>2, Zenon DEF SchedTypes
    <3>2. QED
      BY <1>6, <3>1 DEF TickDeactivate, SchedTypes
  <2>2. QED
    BY <1>6, <2>1, Frames DEF TickDeactivate
<1>7. ASSUME NEW t \in Ticks, NEW s \in Schedules, TickCreate(t, s) PROVE TypeOK'
  <2>1. SchedTypes'
    BY <1>7 DEF TickCreate, SchedTypes, schedVars
  <2>2. RunTypes'
    <3>1. NewRun(s, dueAt[t], 0) \in Run
      BY NewRunType, Sizes DEF SchedTypes, Sizes
    <3>2. QED
      BY <1>7, <3>1, Sizes DEF TickCreate, RunTypes, runVars, RunId, Sizes
  <2>3. QED
    BY <1>7, <2>1, <2>2, Frames DEF TickCreate
<1>8. ASSUME NEW t \in Ticks, TickAdvance(t) PROVE TypeOK'
  <2>1. SchedTypes'
    BY <1>8, Sizes DEF TickAdvance, SchedTypes, schedVars, Sizes
  <2>2. QED
    BY <1>8, <2>1, Frames DEF TickAdvance
<1>9. ASSUME NEW w \in Workers, PickNext(w) PROVE TypeOK'
  <2>1. HandTypes'
    BY <1>9 DEF PickNext, HandTypes, RunId, Busy
  <2>2. QED
    BY <1>9, <2>1, Frames DEF PickNext
<1>10. ASSUME NEW w \in Workers, ClaimRun(w) PROVE TypeOK'
  <2>1. RunTypes'
    <3>1. job[w] \in RunId
      BY <1>10 DEF ClaimRun, HandTypes
    <3>2. QED
      BY <1>10, <3>1 DEF ClaimRun, RunTypes, runVars, Run, RunStatus, Terminal
  <2>2. HandTypes'
    BY <1>10 DEF ClaimRun, HandTypes, Busy
  <2>3. QED
    BY <1>10, <2>1, <2>2, Frames DEF ClaimRun
<1>11. ASSUME NEW w \in Workers, ClaimedElsewhere(w) PROVE TypeOK'
  <2>1. HandTypes' /\ WorkTypes'
    BY <1>11, IdleTypes DEF ClaimedElsewhere
  <2>2. QED
    BY <1>11, <2>1, Frames DEF ClaimedElsewhere
<1>12. ASSUME NEW w \in Workers, CancelOrphan(w) PROVE TypeOK'
  <2>1. RunTypes'
    <3>1. job[w] \in RunId
      BY <1>12 DEF CancelOrphan, HandTypes
    <3>2. QED
      BY <1>12, <3>1 DEF CancelOrphan, RunTypes, runVars, Run, RunStatus, Terminal
  <2>2. HandTypes' /\ WorkTypes'
    BY <1>12, IdleTypes DEF CancelOrphan
  <2>3. QED
    BY <1>12, <2>1, <2>2, Frames DEF CancelOrphan
<1>13. ASSUME NEW w \in Workers, LoadScope(w) PROVE TypeOK'
  <2>1. HandTypes'
    BY <1>13 DEF LoadScope, HandTypes, Busy
  <2>2. WorkTypes'
    BY <1>13, Shapes DEF LoadScope, WorkTypes, workVars, HandTypes, RunTypes,
       RunId, Run, Busy, Shapes
  <2>3. QED
    BY <1>13, <2>1, <2>2, Frames DEF LoadScope
<1>14. ASSUME NEW w \in Workers, RequestRun(w) PROVE TypeOK'
  <2>1. RunTypes'
    <3>1. created + 1 \in RunId
      BY <1>14, Sizes DEF RequestRun, RunTypes, RunId, Sizes
    <3>2. \A s \in Schedules \union {NoSchedule} : NewRun(s, window, created + 1) \in Run
      BY <3>1, NewRunType DEF RunId, EnvTypes
    <3>3. QED
      BY <1>14, <3>1, <3>2, Sizes DEF RequestRun, RunTypes, RunId, Sizes
  <2>2. HandTypes'
    BY <1>14, Sizes DEF RequestRun, HandTypes, RunTypes, RunId, Busy, Sizes
  <2>3. WorkTypes'
    BY <1>14, Shapes DEF RequestRun, WorkTypes, workVars, Shapes
  <2>4. QED
    BY <1>14, <2>1, <2>2, <2>3, Frames DEF RequestRun
<1>15. ASSUME NEW w \in Workers, StartManual(w) PROVE TypeOK'
  <2>1. RunTypes'
    <3>1. job[w] \in RunId
      BY <1>15 DEF StartManual, HandTypes
    <3>2. QED
      BY <1>15, <3>1 DEF StartManual, RunTypes, runVars, Run, RunStatus, Terminal
  <2>2. HandTypes'
    BY <1>15 DEF StartManual, HandTypes, Busy
  <2>3. QED
    BY <1>15, <2>1, <2>2, Frames DEF StartManual
<1>16. ASSUME NEW w \in Workers, StartFails(w) PROVE TypeOK'
  <2>1. HandTypes' /\ WorkTypes'
    BY <1>16, IdleTypes DEF StartFails
  <2>2. QED
    BY <1>16, <2>1, Frames DEF StartFails
<1>17. ASSUME NEW w \in Workers, StartUnits(w) PROVE TypeOK'
  <2>1. RunTypes'
    <3>1. job[w] \in RunId
      BY <1>17 DEF StartUnits, HandTypes
    <3>2. QED
      BY <1>17, <3>1, BeatTypes DEF StartUnits
  <2>2. HandTypes'
    BY <1>17 DEF StartUnits, HandTypes, Busy
  <2>3. WorkTypes'
    BY <1>17 DEF StartUnits, WorkTypes, workVars, Stages
  <2>4. QED
    BY <1>17, <2>1, <2>2, <2>3, Frames DEF StartUnits
<1>18. ASSUME NEW w \in Workers, DeadlinePasses(w) PROVE TypeOK'
  <2>1. WorkTypes'
    BY <1>18 DEF DeadlinePasses, WorkTypes, workVars
  <2>2. QED
    BY <1>18, <2>1, Frames DEF DeadlinePasses
<1>19. ASSUME NEW w \in Workers, NextSlice(w) PROVE TypeOK'
  <2>1. RunTypes'
    <3>1. job[w] \in RunId
      BY <1>19 DEF NextSlice, HandTypes
    <3>2. QED
      BY <1>19, <3>1, BeatTypes DEF NextSlice
  <2>2. WorkTypes'
    BY <1>19 DEF NextSlice, WorkTypes, workVars, Stages
  <2>3. QED
    BY <1>19, <2>1, <2>2, Frames DEF NextSlice
<1>20. ASSUME NEW w \in Workers, EndPass(w) PROVE TypeOK'
  <2>1. RunTypes'
    <3>1. job[w] \in RunId
      BY <1>20 DEF EndPass, HandTypes
    <3>2. QED
      BY <1>20, <3>1, BeatTypes DEF EndPass
  <2>2. HandTypes'
    BY <1>20 DEF EndPass, HandTypes, Busy
  <2>3. WorkTypes'
    BY <1>20 DEF EndPass, WorkTypes, workVars, Stages
  <2>4. QED
    BY <1>20, <2>1, <2>2, <2>3, Frames DEF EndPass
<1>21. ASSUME NEW w \in Workers, AbortEnds(w) PROVE TypeOK'
  <2>1. HandTypes' /\ WorkTypes'
    BY <1>21, IdleTypes DEF AbortEnds
  <2>2. QED
    BY <1>21, <2>1, Frames DEF AbortEnds
<1>22. ASSUME NEW w \in Workers, NEW u \in Units, BeginUnit(w, u) PROVE TypeOK'
  <2>1. WorkTypes'
    <3>1. stage' \in [Workers -> [Units -> Stages]]
      <4>1. PICK x \in {"out", "call"} : SetStage(w, u, x)
        BY <1>22 DEF BeginUnit
      <4>2. x \in Stages
        BY DEF Stages
      <4>3. QED
        BY <4>1, <4>2, StageTypes DEF SetStage
    <3>2. tally' \in Tallies
      <4>1. tally' = tally \/ tally' = [tally EXCEPT ![w].failure = @ + 1]
        BY <1>22 DEF BeginUnit
      <4>2. tally \in Tallies
        BY DEF WorkTypes, Tallies
      <4>3. [tally EXCEPT ![w].failure = @ + 1] \in Tallies
        BY TallyTypes
      <4>4. QED
        BY <4>1, <4>2, <4>3
    <3>3. QED
      BY <1>22, <3>1, <3>2 DEF BeginUnit, WorkTypes, Tallies
  <2>2. QED
    BY <1>22, <2>1, Frames DEF BeginUnit
<1>23. ASSUME NEW w \in Workers, NEW u \in Units, RecordSuccess(w, u) PROVE TypeOK'
  <2>1. RowTypes'
    BY <1>23, KeyTypes DEF RecordSuccess, RowTypes, rowVars, Row
  <2>2. WorkTypes'
    <3>1. stage' \in [Workers -> [Units -> Stages]]
      BY <1>23, StageTypes DEF RecordSuccess, SetStage, Stages
    <3>2. tally' \in Tallies
      BY <1>23, TallyTypes DEF RecordSuccess, WorkTypes, Tallies
    <3>3. QED
      BY <1>23, <3>1, <3>2 DEF RecordSuccess, WorkTypes, Tallies
  <2>3. QED
    BY <1>23, <2>1, <2>2, Frames DEF RecordSuccess
<1>24. ASSUME NEW w \in Workers, NEW u \in Units, RecordFailure(w, u) PROVE TypeOK'
  <2>1. RowTypes'
    BY <1>24, KeyTypes DEF RecordFailure, RowTypes, rowVars, Row
  <2>2. WorkTypes'
    <3>1. stage' \in [Workers -> [Units -> Stages]]
      BY <1>24, StageTypes DEF RecordFailure, SetStage, Stages
    <3>2. tally' \in Tallies
      BY <1>24, TallyTypes DEF RecordFailure, WorkTypes, Tallies
    <3>3. QED
      BY <1>24, <3>1, <3>2 DEF RecordFailure, WorkTypes, Tallies
  <2>3. QED
    BY <1>24, <2>1, <2>2, Frames DEF RecordFailure
<1>25. ASSUME NEW w \in Workers, NEW u \in Units, FailureThrows(w, u) PROVE TypeOK'
  <2>1. HandTypes'
    BY <1>25, KeyTypes DEF FailureThrows, HandTypes, Busy
  <2>2. WorkTypes'
    BY <1>25 DEF FailureThrows, WorkTypes, workVars, Stages
  <2>3. QED
    BY <1>25, <2>1, <2>2, Frames DEF FailureThrows
<1>26. ASSUME NEW w \in Workers, NEW u \in Units, ChargeRefused(w, u) PROVE TypeOK'
  <2>1. WorkTypes'
    BY <1>26 DEF ChargeRefused, WorkTypes, workVars, SetStage, Stages
  <2>2. QED
    BY <1>26, <2>1, Frames DEF ChargeRefused
<1>27. ASSUME NEW w \in Workers, NEW u \in Units, ChargeFirst(w, u) PROVE TypeOK'
  <2>1. WorkTypes'
    BY <1>27 DEF ChargeFirst, WorkTypes, workVars, SetStage, Stages
  <2>2. QED
    BY <1>27, <2>1, Frames DEF ChargeFirst
<1>28. ASSUME NEW w \in Workers, NEW u \in Units, ChargeUnit(w, u) PROVE TypeOK'
  <2>1. MoneyTypes'
    BY <1>28, KeyTypes DEF ChargeUnit, MoneyTypes, moneyVars, Row
  <2>2. WorkTypes'
    <3>1. stage' \in [Workers -> [Units -> Stages]]
      BY <1>28, StageTypes DEF ChargeUnit, SetStage, Stages
    <3>2. tally' \in Tallies
      BY <1>28, TallyTypes DEF ChargeUnit, WorkTypes, Tallies
    <3>3. QED
      BY <1>28, <3>1, <3>2 DEF ChargeUnit, WorkTypes, Tallies
  <2>3. QED
    BY <1>28, <2>1, <2>2, Frames DEF ChargeUnit
<1>29. ASSUME NEW w \in Workers, NEW u \in Units, ChargeLost(w, u) PROVE TypeOK'
  <2>1. WorkTypes'
    BY <1>29 DEF ChargeLost, WorkTypes, workVars, SetStage, Stages
  <2>2. QED
    BY <1>29, <2>1, Frames DEF ChargeLost
<1>30. ASSUME NEW w \in Workers, StartRound(w) PROVE TypeOK'
  <2>1. RunTypes'
    <3>1. job[w] \in RunId
      BY <1>30 DEF StartRound, HandTypes
    <3>2. QED
      BY <1>30, <3>1, BeatTypes DEF StartRound
  <2>2. HandTypes'
    BY <1>30 DEF StartRound, HandTypes, Busy
  <2>3. WorkTypes'
    BY <1>30, Sizes DEF StartRound, WorkTypes, workVars, FailedUnits, RowsOf,
       RowTypes, Row, Key, Sizes
  <2>4. QED
    BY <1>30, <2>1, <2>2, <2>3, Frames DEF StartRound
<1>31. ASSUME NEW w \in Workers, RetryUnit(w) PROVE TypeOK'
  <2>1. WorkTypes'
    <3>1. stage' \in [Workers -> [Units -> Stages]]
      <4>1. PICK u \in queue[w] : SetStage(w, u, "begin")
        BY <1>31 DEF RetryUnit
      <4>2. u \in Units
        BY <1>31 DEF WorkTypes
      <4>3. QED
        BY <4>1, <4>2, StageTypes DEF SetStage, Stages
    <3>2. tally' \in Tallies
      BY <1>31, TallyTypes DEF RetryUnit, WorkTypes, Tallies
    <3>3. QED
      BY <1>31, <3>1, <3>2 DEF RetryUnit, WorkTypes, Tallies
  <2>2. QED
    BY <1>31, <2>1, Frames DEF RetryUnit
<1>32. ASSUME NEW w \in Workers, EndRound(w) PROVE TypeOK'
  <2>1. HandTypes'
    BY <1>32 DEF EndRound, HandTypes, Busy
  <2>2. WorkTypes'
    BY <1>32 DEF EndRound, WorkTypes, workVars
  <2>3. QED
    BY <1>32, <2>1, <2>2, Frames DEF EndRound
<1>33. ASSUME NEW w \in Workers, EndRetries(w) PROVE TypeOK'
  <2>1. HandTypes'
    BY <1>33 DEF EndRetries, HandTypes, Busy
  <2>2. QED
    BY <1>33, <2>1, Frames DEF EndRetries
<1>34. ASSUME NEW w \in Workers, Decide(w) PROVE TypeOK'
  <2>1. HandTypes'
    BY <1>34 DEF Decide, HandTypes, Busy
  <2>2. WorkTypes'
    BY <1>34 DEF Decide, WorkTypes, workVars, RunStatusFor, RunStatus,
       Terminal
  <2>3. QED
    BY <1>34, <2>1, <2>2, Frames DEF Decide
<1>35. ASSUME NEW w \in Workers, WriteResult(w) PROVE TypeOK'
  <2>1. RunTypes'
    <3>1. job[w] \in RunId
      BY <1>35 DEF WriteResult, HandTypes
    <3>2. runs' \in [RunId -> Run]
      <4>1. /\ verdict[w] \in RunStatus
            /\ tally[w].success \in Nat /\ tally[w].credit \in Nat
        BY DEF WorkTypes
      <4>2. QED
        BY <1>35, <3>1, <4>1, ResultType DEF WriteResult
    <3>3. QED
      BY <1>35, <3>2 DEF WriteResult, RunTypes
  <2>2. HandTypes' /\ WorkTypes'
    BY <1>35, IdleTypes DEF WriteResult
  <2>3. QED
    BY <1>35, <2>1, <2>2, Frames DEF WriteResult
<1>36. ASSUME NEW r \in RunId, CancelRead(r) PROVE TypeOK'
  <2>1. EnvTypes'
    BY <1>36 DEF CancelRead, EnvTypes, envVars
  <2>2. PendingTypes'
    BY <1>36 DEF CancelRead, PendingTypes, pendingVars
  <2>3. QED
    BY <1>36, <2>1, <2>2, Frames DEF CancelRead
<1>37. ASSUME NEW r \in RunId, CancelWrite(r) PROVE TypeOK'
  <2>1. RunTypes'
    <3>1. [runs EXCEPT ![r].status = "CANCELLED", ![r].recovered = FALSE]
            \in [RunId -> Run]
      BY StatusTypes DEF RunStatus, Terminal
    <3>2. QED
      BY <1>37, <3>1 DEF CancelWrite, RunTypes
  <2>2. PendingTypes'
    BY <1>37 DEF CancelWrite, PendingTypes, pendingVars
  <2>3. QED
    BY <1>37, <2>1, <2>2, Frames DEF CancelWrite
<1>38. ASSUME NEW r \in RunId, GoSilent(r) PROVE TypeOK'
  <2>1. RunTypes'
    <3>1. [runs EXCEPT ![r].fresh = FALSE] \in [RunId -> Run]
      BY FreshTypes
    <3>2. QED
      BY <1>38, <3>1 DEF GoSilent, RunTypes
  <2>2. QED
    BY <1>38, <2>1, Frames DEF GoSilent
<1>39. CASE RecoverScan
  <2>1. PendingTypes'
    BY <1>39 DEF RecoverScan, PendingTypes, pendingVars, StaleRuns
  <2>2. QED
    BY <1>39, <2>1, Frames DEF RecoverScan
<1>40. ASSUME NEW r \in RunId, RecoverRun(r) PROVE TypeOK'
  <2>1. RunTypes'
    <3>1. [runs EXCEPT ![r].status = "FAILED", ![r].recovered = TRUE]
            \in [RunId -> Run]
      BY StatusTypes DEF RunStatus, Terminal
    <3>2. QED
      BY <1>40, <3>1 DEF RecoverRun, RunTypes
  <2>2. PendingTypes'
    BY <1>40 DEF RecoverRun, PendingTypes, pendingVars
  <2>3. QED
    BY <1>40, <2>1, <2>2, Frames DEF RecoverRun
<1>41. ASSUME NEW w \in Workers, Crash(w) PROVE TypeOK'
  <2>1. EnvTypes'
    BY <1>41 DEF Crash, EnvTypes, envVars
  <2>2. HandTypes' /\ WorkTypes'
    BY <1>41, IdleTypes DEF Crash
  <2>3. QED
    BY <1>41, <2>1, <2>2, Frames DEF Crash
<1>42. ASSUME NEW t \in Ticks, CrashTick(t) PROVE TypeOK'
  <2>1. EnvTypes'
    BY <1>42 DEF CrashTick, EnvTypes, envVars
  <2>2. SchedTypes'
    BY <1>42 DEF CrashTick, SchedTypes, schedVars
  <2>3. QED
    BY <1>42, <2>1, <2>2, Frames DEF CrashTick
<1>43. CASE UNCHANGED vars
  BY <1>43, Frames DEF vars
<1>44. QED
    BY <1>1, <1>2, <1>3, <1>4, <1>5, <1>6, <1>7, <1>8, <1>9, <1>10, <1>11,
       <1>12, <1>13, <1>14, <1>15, <1>16, <1>17, <1>18, <1>19, <1>20, <1>21,
       <1>22, <1>23, <1>24, <1>25, <1>26, <1>27, <1>28, <1>29, <1>30, <1>31,
       <1>32, <1>33, <1>34, <1>35, <1>36, <1>37, <1>38, <1>39, <1>40, <1>41,
       <1>42, <1>43 DEF Next, UserStep, FaultStep, RecoverStep, TickStep,
       WorkerStep, UnitStep

-----------------------------------------------------------------------------
(* What a step does to the run rows.                                        *)

RunKept(r) ==
  /\ runs'[r].window = runs[r].window
  /\ runs'[r].stamp = runs[r].stamp
  /\ runs'[r].sched \in {runs[r].sched, NoSchedule}
  /\ runs'[r].status # "ABSENT"
  /\ runs'[r].status = "QUEUED" => runs[r].status = "QUEUED"
  /\ runs[r].stamp = 0 /\ runs[r].status \in Terminal => runs'[r].status \in Terminal

RunsEvolve ==
  /\ created' \in Nat /\ created <= created'
  /\ \A r \in 1..created : RunKept(r)
  /\ \A r \in RunId : runs'[r].status = "ABSENT" <=> r > created'

\* A row is updated in place, and what is written is not a return to QUEUED.
LEMMA UpdateKeeps ==
  ASSUME RunTypes, JobsExist, NEW r \in 1..created, UNCHANGED created,
         \A q \in RunId : q # r => runs'[q] = runs[q], RunKept(r)
  PROVE  RunsEvolve
BY Sizes DEF RunTypes, JobsExist, RunsEvolve, RunKept, RunId, Sizes

LEMMA UnchangedKeeps ==
  ASSUME RunTypes, JobsExist, UNCHANGED runVars
  PROVE  RunsEvolve
BY Sizes DEF RunTypes, JobsExist, RunsEvolve, RunKept, RunId, runVars, Sizes

LEMMA InsertKeeps ==
  ASSUME RunTypes, JobsExist, created < MaxRuns, created' = created + 1,
         NEW s \in Schedules \union {NoSchedule}, NEW x, NEW y,
         runs' = [runs EXCEPT ![created + 1] = NewRun(s, x, y)]
  PROVE  RunsEvolve
BY Sizes DEF RunTypes, JobsExist, RunsEvolve, RunKept, RunId, NewRun, NoRun, Sizes

LEMMA BeatKeeps ==
  ASSUME RunTypes, JobsExist, NEW r \in 1..created, UNCHANGED created,
         Beat(r) \/ UNCHANGED runs
  PROVE  RunsEvolve
<1>1. CASE runs' = [runs EXCEPT ![r].fresh = TRUE] /\ runs[r].status = "RUNNING"
  <2>1. RunKept(r) /\ \A q \in RunId : q # r => runs'[q] = runs[q]
    BY <1>1, Sizes DEF RunTypes, RunKept, RunId, Run, Terminal, Sizes
  <2>2. QED
    BY <2>1, UpdateKeeps
<1>2. CASE UNCHANGED runs
  BY <1>2, UnchangedKeeps DEF runVars
<1>3. QED
  BY <1>1, <1>2 DEF Beat

LEMMA RunsStep == TypeOK /\ Control /\ [Next]_vars => RunsEvolve
<1> SUFFICES ASSUME TypeOK, Control, [Next]_vars
             PROVE  RunsEvolve
  OBVIOUS
<1> USE DEF TypeOK, Control
<1>1. ASSUME NEW s \in Schedules, DeleteSchedule(s) PROVE RunsEvolve
  BY <1>1, Sizes DEF DeleteSchedule, RunTypes, JobsExist, RunsEvolve, RunKept,
     RunId, Run, Sizes
<1>2. ASSUME NEW t \in Ticks, NEW s \in Schedules, TickCreate(t, s) PROVE RunsEvolve
  BY <1>2, InsertKeeps, UnchangedKeeps DEF TickCreate
<1>3. ASSUME NEW w \in Workers, ClaimRun(w) PROVE RunsEvolve
  <2>1. job[w] \in 1..created
    BY <1>3 DEF ClaimRun, JobsExist
  <2>2. RunKept(job[w]) /\ \A q \in RunId : q # job[w] => runs'[q] = runs[q]
    BY <1>3, <2>1, Sizes
    DEF ClaimRun, RunKept, RunTypes, RunId, Run, Terminal, Sizes
  <2>3. QED
    BY <1>3, <2>1, <2>2, UpdateKeeps DEF ClaimRun
<1>4. ASSUME NEW w \in Workers, CancelOrphan(w) PROVE RunsEvolve
  <2>1. job[w] \in 1..created
    BY <1>4 DEF CancelOrphan, JobsExist
  <2>2. RunKept(job[w]) /\ \A q \in RunId : q # job[w] => runs'[q] = runs[q]
    BY <1>4, <2>1, Sizes
    DEF CancelOrphan, RunKept, RunTypes, RunId, Run, Terminal, Sizes
  <2>3. QED
    BY <1>4, <2>1, <2>2, UpdateKeeps DEF CancelOrphan
<1>5. ASSUME NEW w \in Workers, RequestRun(w) PROVE RunsEvolve
  BY <1>5, InsertKeeps DEF RequestRun
<1>6. ASSUME NEW w \in Workers, StartManual(w) PROVE RunsEvolve
  <2>1. job[w] \in 1..created /\ runs[job[w]].stamp # 0
    BY <1>6 DEF StartManual, JobsExist, WritersHonest
  <2>2. RunKept(job[w]) /\ \A q \in RunId : q # job[w] => runs'[q] = runs[q]
    BY <1>6, <2>1, Sizes
    DEF StartManual, RunKept, RunTypes, RunId, Run, Terminal, Sizes
  <2>3. QED
    BY <1>6, <2>1, <2>2, UpdateKeeps DEF StartManual
<1>7. ASSUME NEW w \in Workers, StartUnits(w) \/ NextSlice(w) \/ EndPass(w) \/ StartRound(w)
      PROVE  RunsEvolve
  <2>1. job[w] \in 1..created
    BY <1>7 DEF StartUnits, NextSlice, EndPass, StartRound, JobsExist
  <2>2. UNCHANGED created /\ (Beat(job[w]) \/ UNCHANGED runs)
    BY <1>7 DEF StartUnits, NextSlice, EndPass, StartRound
  <2>3. QED
    BY <2>1, <2>2, BeatKeeps
<1>8. ASSUME NEW w \in Workers, WriteResult(w) PROVE RunsEvolve
  <2>1. job[w] \in 1..created /\ verdict[w] \in Terminal
    BY <1>8 DEF WriteResult, JobsExist, WritersHonest
  <2>2. RunKept(job[w]) /\ \A q \in RunId : q # job[w] => runs'[q] = runs[q]
    BY <1>8, <2>1, Sizes
    DEF WriteResult, RunKept, RunTypes, RunId, Run, Terminal, Sizes
  <2>3. QED
    BY <1>8, <2>1, <2>2, UpdateKeeps DEF WriteResult
<1>9. ASSUME NEW r \in RunId, CancelWrite(r) PROVE RunsEvolve
  <2>1. r \in 1..created
    BY <1>9 DEF CancelWrite, JobsExist
  <2>2. RunKept(r) /\ \A q \in RunId : q # r => runs'[q] = runs[q]
    BY <1>9, <2>1, Sizes
    DEF CancelWrite, RunKept, RunTypes, RunId, Run, Terminal, Sizes
  <2>3. QED
    BY <1>9, <2>1, <2>2, UpdateKeeps DEF CancelWrite
<1>10. ASSUME NEW r \in RunId, GoSilent(r) PROVE RunsEvolve
  <2>1. r \in 1..created
    BY <1>10, Sizes DEF GoSilent, JobsExist, RunTypes, RunId, Sizes
  <2>2. RunKept(r) /\ \A q \in RunId : q # r => runs'[q] = runs[q]
    BY <1>10, <2>1, Sizes DEF GoSilent, RunKept, RunTypes, RunId, Run, Terminal, Sizes
  <2>3. QED
    BY <1>10, <2>1, <2>2, UpdateKeeps DEF GoSilent
<1>11. ASSUME NEW r \in RunId, RecoverRun(r) PROVE RunsEvolve
  <2>1. CASE runs[r].status = "RUNNING"
    <3>1. r \in 1..created
      BY <2>1, Sizes DEF JobsExist, RunTypes, RunId, Sizes
    <3>2. runs' = [runs EXCEPT ![r].status = "FAILED", ![r].recovered = TRUE]
      BY <1>11, <2>1 DEF RecoverRun
    <3>3. /\ runs'[r].status = "FAILED" /\ runs'[r].window = runs[r].window
          /\ runs'[r].stamp = runs[r].stamp /\ runs'[r].sched = runs[r].sched
      BY <3>2 DEF RunTypes, Run
    <3>4. RunKept(r) /\ \A q \in RunId : q # r => runs'[q] = runs[q]
      BY <3>2, <3>3 DEF RunKept, RunTypes, Terminal
    <3>5. QED
      BY <1>11, <3>1, <3>4, UpdateKeeps DEF RecoverRun
  <2>2. CASE runs[r].status # "RUNNING"
    BY <1>11, <2>2, UnchangedKeeps DEF RecoverRun, runVars
  <2>3. QED
    BY <2>1, <2>2
<1>12. CASE UNCHANGED runVars
  BY <1>12, UnchangedKeeps
<1>13. ASSUME NEW w \in Workers,
              \/ PickNext(w) \/ ClaimedElsewhere(w) \/ LoadScope(w) \/ StartFails(w)
              \/ DeadlinePasses(w) \/ AbortEnds(w) \/ RetryUnit(w) \/ EndRound(w)
              \/ EndRetries(w) \/ Decide(w) \/ Crash(w)
              \/ \E u \in Units : UnitStep(w, u)
       PROVE  UNCHANGED runVars
  BY <1>13 DEF PickNext, ClaimedElsewhere, LoadScope, StartFails, DeadlinePasses,
     AbortEnds, RetryUnit, EndRound, EndRetries, Decide, Crash, UnitStep, BeginUnit,
     RecordSuccess, RecordFailure, FailureThrows, ChargeRefused, ChargeFirst,
     ChargeUnit, ChargeLost
<1>14. ASSUME NEW t \in Ticks,
              \/ TickScan(t) \/ TickAdvance(t) \/ CrashTick(t)
              \/ \E s \in Schedules : TickDeactivate(t, s)
       PROVE  UNCHANGED runVars
  BY <1>14 DEF TickScan, TickAdvance, CrashTick, TickDeactivate
<1>15. ASSUME \/ AdvanceWindow \/ SetSiteActive \/ RecoverScan
              \/ \E s \in Schedules : SetScheduleActive(s)
              \/ \E r \in RunId : CancelRead(r)
       PROVE  UNCHANGED runVars
  BY <1>15 DEF AdvanceWindow, SetSiteActive, RecoverScan, SetScheduleActive, CancelRead
<1>16. CASE UNCHANGED vars
  BY <1>12, <1>16 DEF vars
<1>17. CASE \E w \in Workers : WorkerStep(w)
  BY <1>3, <1>4, <1>6, <1>7, <1>8, <1>12, <1>13, <1>17 DEF WorkerStep
<1>18. CASE \E t \in Ticks : TickStep(t)
  BY <1>2, <1>12, <1>14, <1>18 DEF TickStep
<1>19. CASE AdvanceWindow \/ UserStep
  BY <1>1, <1>5, <1>9, <1>12, <1>15, <1>19 DEF UserStep
<1>20. CASE FaultStep \/ RecoverStep
  BY <1>10, <1>11, <1>12, <1>13, <1>14, <1>15, <1>20 DEF FaultStep, RecoverStep
<1>21. QED
  BY <1>16, <1>17, <1>18, <1>19, <1>20 DEF Next

-----------------------------------------------------------------------------
(* What a step of a worker does to the workers' control state.              *)

\* The parts of Control that speak of the rows, and of one worker.
RowsExist ==
  /\ \A r \in RunId : runs[r].status = "ABSENT" <=> r > created
  /\ cancelling \subseteq 1..created

Hand(w) ==
  /\ pc[w] # "idle" => job[w] \in 1..created
  /\ pc[w] = "created" => runs[job[w]].stamp # 0
  /\ pc[w] = "write" => verdict[w] \in Terminal
  /\ pc[w] \in Executing /\ runs[job[w]].stamp = 0 => runs[job[w]].status # "QUEUED"
  /\ \A u \in Units :
       /\ pc[w] \notin {"pass", "retrying", "aborted"} => stage[w][u] = "out"
       /\ pc[w] # "pass" => stage[w][u] # "todo"

LEMMA ControlParts == Control <=> RowsExist /\ \A w \in Workers : Hand(w)
BY DEF Control, IdleHands, JobsExist, WritersHonest, ExecutedIsClaimed, RowsExist, Hand

SameHand(v) ==
  /\ pc'[v] = pc[v] /\ job'[v] = job[v]
  /\ stage'[v] = stage[v] /\ verdict'[v] = verdict[v]

LEMMA SameHandKeeps ==
  ASSUME TypeOK, RunsEvolve, NEW v \in Workers, Hand(v), SameHand(v)
  PROVE  Hand(v)'
<1>1. pc[v] # "idle" => /\ job[v] \in 1..created /\ job[v] \in 1..created'
                        /\ RunKept(job[v])
  BY Sizes DEF Hand, RunsEvolve, TypeOK, RunTypes, RunId, Sizes
<1>2. QED
  BY <1>1 DEF Hand, SameHand, RunKept, Executing

IdleEnd(w) ==
  \/ ClaimedElsewhere(w) \/ CancelOrphan(w) \/ StartFails(w) \/ AbortEnds(w)
  \/ WriteResult(w) \/ Crash(w)

UnitMove(w, u) ==
  \/ BeginUnit(w, u) \/ RecordSuccess(w, u) \/ RecordFailure(w, u)
  \/ ChargeRefused(w, u) \/ ChargeFirst(w, u) \/ ChargeUnit(w, u) \/ ChargeLost(w, u)

PhaseMove(w) ==
  \/ PickNext(w) \/ ClaimRun(w) \/ LoadScope(w) \/ RequestRun(w) \/ StartManual(w)
  \/ StartUnits(w) \/ NextSlice(w) \/ EndPass(w)
  \/ StartRound(w) \/ RetryUnit(w) \/ EndRound(w) \/ EndRetries(w) \/ Decide(w)

WorkerMove(w) ==
  \/ IdleEnd(w) \/ PhaseMove(w) \/ DeadlinePasses(w)
  \/ \E u \in Units : UnitMove(w, u) \/ FailureThrows(w, u)

\* A worker's step leaves the other workers' control state alone.
LEMMA OthersSame ==
  ASSUME TypeOK, NEW w \in Workers, WorkerMove(w), NEW v \in Workers, v # w
  PROVE  SameHand(v)
<1> USE DEF TypeOK, HandTypes, WorkTypes, SameHand
<1>1. CASE IdleEnd(w)
  <2>1. Idle(w)
    BY <1>1 DEF IdleEnd, ClaimedElsewhere, CancelOrphan, StartFails, AbortEnds,
       WriteResult, Crash
  <2>2. QED
    BY <2>1 DEF Idle
<1>2. CASE PickNext(w) \/ ClaimRun(w) \/ LoadScope(w) \/ RequestRun(w) \/ StartManual(w)
  BY <1>2 DEF PickNext, ClaimRun, LoadScope, RequestRun, StartManual, workVars
<1>3. CASE StartUnits(w) \/ NextSlice(w) \/ EndPass(w)
  BY <1>3 DEF StartUnits, NextSlice, EndPass
<1>4. CASE StartRound(w) \/ RetryUnit(w) \/ EndRound(w) \/ EndRetries(w) \/ Decide(w)
  BY <1>4 DEF StartRound, RetryUnit, EndRound, EndRetries, Decide, SetStage, workVars
<1>5. CASE DeadlinePasses(w)
  BY <1>5 DEF DeadlinePasses
<1>6. ASSUME NEW u \in Units, UnitMove(w, u) PROVE SameHand(v)
  BY <1>6 DEF UnitMove, BeginUnit, RecordSuccess, RecordFailure, ChargeRefused,
     ChargeFirst, ChargeUnit, ChargeLost, SetStage
<1>7. ASSUME NEW u \in Units, FailureThrows(w, u) PROVE SameHand(v)
  BY <1>7 DEF FailureThrows
<1>8. QED
  BY <1>1, <1>2, <1>3, <1>4, <1>5, <1>6, <1>7 DEF WorkerMove, PhaseMove

\* Every step is a worker's, or leaves all workers alone.
LEMMA StepKinds ==
  ASSUME [Next]_vars
  PROVE  \/ \E w \in Workers : WorkerMove(w)
         \/ UNCHANGED <<pc, job, workVars, rowVars, moneyVars>>
<1>1. CASE AdvanceWindow \/ SetSiteActive \/ RecoverScan
  BY <1>1 DEF AdvanceWindow, SetSiteActive, RecoverScan
<1>2. ASSUME NEW t \in Ticks, TickStep(t) \/ CrashTick(t)
      PROVE  UNCHANGED <<pc, job, workVars, rowVars, moneyVars>>
  BY <1>2 DEF TickStep, TickScan, TickDeactivate, TickCreate, TickAdvance, CrashTick
<1>3. ASSUME NEW s \in Schedules, SetScheduleActive(s) \/ DeleteSchedule(s)
      PROVE  UNCHANGED <<pc, job, workVars, rowVars, moneyVars>>
  BY <1>3 DEF SetScheduleActive, DeleteSchedule
<1>4. ASSUME NEW r \in RunId,
             CancelRead(r) \/ CancelWrite(r) \/ GoSilent(r) \/ RecoverRun(r)
      PROVE  UNCHANGED <<pc, job, workVars, rowVars, moneyVars>>
  BY <1>4 DEF CancelRead, CancelWrite, GoSilent, RecoverRun
<1>5. ASSUME NEW w \in Workers,
             WorkerStep(w) \/ RequestRun(w) \/ DeadlinePasses(w) \/ Crash(w)
      PROVE  WorkerMove(w)
  BY <1>5 DEF WorkerStep, UnitStep, WorkerMove, IdleEnd, PhaseMove, UnitMove
<1>6. CASE UNCHANGED vars
  BY <1>6 DEF vars
<1>7. QED
  BY <1>1, <1>2, <1>3, <1>4, <1>5, <1>6 DEF Next, UserStep, FaultStep, RecoverStep

\* A worker's step keeps the worker itself well formed.
LEMMA OwnHand ==
  ASSUME TypeOK, Control, RunsEvolve, NEW w \in Workers, WorkerMove(w)
  PROVE  Hand(w)'
<1>1. Hand(w) /\ RowsExist
  BY ControlParts
<1>2. pc[w] # "idle" => /\ job[w] \in 1..created /\ job[w] \in 1..created'
                        /\ job[w] \in RunId /\ RunKept(job[w])
  BY <1>1, Sizes DEF Hand, RunsEvolve, TypeOK, RunTypes, RunId, Sizes
<1> USE DEF TypeOK, HandTypes, WorkTypes
<1>3. CASE IdleEnd(w)
  <2>1. Idle(w)
    BY <1>3 DEF IdleEnd, ClaimedElsewhere, CancelOrphan, StartFails, AbortEnds,
       WriteResult, Crash
  <2>2. QED
    BY <2>1 DEF Idle, Hand, Executing
<1>4. CASE PickNext(w)
  <2>1. job'[w] \in 1..created'
    BY <1>4, <1>1, Sizes
    DEF PickNext, OldestQueued, RowsExist, RunsEvolve, RunTypes, RunId, runVars, Sizes
  <2>2. QED
    BY <1>1, <1>4, <2>1 DEF PickNext, Hand, Executing, workVars
<1>5. CASE RequestRun(w)
  BY <1>1, <1>5, Sizes
  DEF RequestRun, Hand, Executing, NewRun, NoRun, RunTypes, RunId, Sizes
<1>6. CASE ClaimRun(w) \/ StartManual(w)
  <2>1. runs'[job[w]].status = "RUNNING"
    BY <1>2, <1>6 DEF ClaimRun, StartManual, RunTypes, Run
  <2>2. QED
    BY <1>1, <1>2, <1>6, <2>1 DEF ClaimRun, StartManual, Hand, Executing, workVars
<1>7. CASE LoadScope(w) \/ StartUnits(w) \/ EndRetries(w) \/ Decide(w)
  <2>1. runs[job[w]].stamp = 0 => runs'[job[w]].status # "QUEUED"
    BY <1>1, <1>2, <1>7
    DEF LoadScope, StartUnits, EndRetries, Decide, Hand, Executing, RunKept
  <2>2. CASE LoadScope(w) \/ EndRetries(w)
    BY <1>1, <1>2, <2>1, <2>2 DEF LoadScope, EndRetries, Hand, RunKept, workVars
  <2>3. CASE StartUnits(w)
    BY <1>1, <1>2, <2>1, <2>3 DEF StartUnits, Hand, RunKept
  <2>4. CASE Decide(w)
    BY <1>1, <1>2, <2>1, <2>4 DEF Decide, Hand, RunKept, RunStatusFor, Terminal
  <2>5. QED
    BY <1>7, <2>2, <2>3, <2>4
<1>8. CASE NextSlice(w) \/ EndPass(w) \/ StartRound(w) \/ RetryUnit(w) \/ EndRound(w)
  <2>1. runs[job[w]].stamp = 0 => runs'[job[w]].status # "QUEUED"
    BY <1>1, <1>2, <1>8
    DEF NextSlice, EndPass, StartRound, RetryUnit, EndRound, Hand, Executing, RunKept
  <2>2. CASE NextSlice(w) \/ EndPass(w)
    BY <1>1, <1>2, <2>1, <2>2 DEF NextSlice, EndPass, Hand, RunKept
  <2>3. CASE StartRound(w)
    BY <1>1, <1>2, <2>1, <2>3 DEF StartRound, Hand, RunKept
  <2>4. CASE RetryUnit(w)
    BY <1>1, <1>2, <2>1, <2>4 DEF RetryUnit, SetStage, Hand, RunKept
  <2>5. CASE EndRound(w)
    BY <1>1, <1>2, <2>1, <2>5 DEF EndRound, InFlight, Stages, Hand, RunKept
  <2>6. QED
    BY <1>8, <2>2, <2>3, <2>4, <2>5
<1>9. CASE DeadlinePasses(w)
  BY <1>1, <1>9, SameHandKeeps DEF DeadlinePasses, SameHand
<1>10. ASSUME NEW u \in Units, UnitMove(w, u) PROVE Hand(w)'
  <2>1. pc[w] \in {"pass", "retrying", "aborted"}
    BY <1>1, <1>10
    DEF UnitMove, BeginUnit, RecordSuccess, RecordFailure, ChargeRefused,
        ChargeFirst, ChargeUnit, ChargeLost, Hand
  <2>2. PICK x \in {"out", "call", "charge", "insert"} : SetStage(w, u, x)
    BY <1>10 DEF UnitMove, BeginUnit, RecordSuccess, RecordFailure, ChargeRefused,
       ChargeFirst, ChargeUnit, ChargeLost
  <2>3. UNCHANGED <<pc, job, verdict>>
    BY <1>10 DEF UnitMove, BeginUnit, RecordSuccess, RecordFailure, ChargeRefused,
       ChargeFirst, ChargeUnit, ChargeLost
  <2>4. QED
    BY <1>1, <1>2, <2>1, <2>2, <2>3 DEF SetStage, Hand, RunKept, Executing
<1>11. ASSUME NEW u \in Units, FailureThrows(w, u) PROVE Hand(w)'
  <2>1. pc[w] \in {"pass", "retrying", "aborted"}
    BY <1>1, <1>11 DEF FailureThrows, Hand
  <2>2. QED
    BY <1>1, <1>2, <1>11, <2>1 DEF FailureThrows, Hand, Executing
<1>12. QED
  BY <1>3, <1>4, <1>5, <1>6, <1>7, <1>8, <1>9, <1>10, <1>11 DEF WorkerMove, PhaseMove

LEMMA ControlStep ==
  ASSUME TypeOK, Control, [Next]_vars
  PROVE  Control'
<1>1. RunsEvolve
  BY RunsStep
<1>2. \A r \in RunId : runs'[r].status = "ABSENT" <=> r > created'
  BY <1>1 DEF RunsEvolve
<1>3. cancelling' \subseteq 1..created'
  <2>1. cancelling \subseteq 1..created /\ 1..created \subseteq 1..created'
    BY <1>1, Sizes
    DEF Control, JobsExist, RunsEvolve, TypeOK, RunTypes, Sizes
  <2>2. CASE UNCHANGED cancelling
    BY <2>1, <2>2
  <2>3. ASSUME NEW r \in RunId, CancelRead(r) \/ CancelWrite(r)
        PROVE  cancelling' \subseteq 1..created'
    <3>1. CASE CancelRead(r)
      <4>1. r \in 1..created
        BY <3>1, Sizes DEF CancelRead, Control, JobsExist, TypeOK, RunTypes, RunId, Sizes
      <4>2. QED
        BY <2>1, <3>1, <4>1 DEF CancelRead
    <3>2. CASE CancelWrite(r)
      BY <2>1, <3>2 DEF CancelWrite
    <3>3. QED
      BY <2>3, <3>1, <3>2
  <2>4. ASSUME NEW w \in Workers, WorkerMove(w) PROVE UNCHANGED cancelling
    <3>1. CASE IdleEnd(w) \/ DeadlinePasses(w)
      BY <3>1 DEF IdleEnd, ClaimedElsewhere, CancelOrphan, StartFails, AbortEnds,
         WriteResult, Crash, DeadlinePasses, pendingVars
    <3>2. CASE PhaseMove(w)
      BY <3>2 DEF PhaseMove, PickNext, ClaimRun, LoadScope, RequestRun, StartManual,
         StartUnits, NextSlice, EndPass, StartRound, RetryUnit, EndRound, EndRetries,
         Decide, pendingVars
    <3>3. ASSUME NEW u \in Units, UnitMove(w, u) \/ FailureThrows(w, u)
          PROVE  UNCHANGED cancelling
      BY <3>3 DEF UnitMove, BeginUnit, RecordSuccess, RecordFailure, ChargeRefused,
         ChargeFirst, ChargeUnit, ChargeLost, FailureThrows, pendingVars
    <3>4. QED
      BY <2>4, <3>1, <3>2, <3>3 DEF WorkerMove
  <2>5. CASE AdvanceWindow \/ SetSiteActive \/ RecoverStep \/ UNCHANGED vars
    BY <2>2, <2>5 DEF AdvanceWindow, SetSiteActive, RecoverStep, RecoverScan, GoSilent,
       RecoverRun, vars, pendingVars
  <2>6. ASSUME NEW t \in Ticks, TickStep(t) \/ CrashTick(t) PROVE UNCHANGED cancelling
    BY <2>6 DEF TickStep, TickScan, TickDeactivate, TickCreate, TickAdvance, CrashTick,
       pendingVars
  <2>7. ASSUME NEW s \in Schedules, SetScheduleActive(s) \/ DeleteSchedule(s)
        PROVE  UNCHANGED cancelling
    BY <2>7 DEF SetScheduleActive, DeleteSchedule, pendingVars
  <2>8. ASSUME NEW w \in Workers,
               WorkerStep(w) \/ RequestRun(w) \/ DeadlinePasses(w) \/ Crash(w)
        PROVE  WorkerMove(w)
    BY <2>8 DEF WorkerStep, UnitStep, WorkerMove, IdleEnd, PhaseMove, UnitMove
  <2>9. QED
    BY <2>2, <2>3, <2>4, <2>5, <2>6, <2>7, <2>8 DEF Next, UserStep, FaultStep
<1>4. ASSUME NEW v \in Workers PROVE Hand(v)'
  <2>1. Hand(v)
    BY ControlParts
  <2>2. CASE UNCHANGED <<pc, job, workVars>>
    BY <1>1, <2>1, <2>2, SameHandKeeps DEF SameHand, workVars
  <2>3. ASSUME NEW w \in Workers, WorkerMove(w) PROVE Hand(v)'
    <3>1. CASE w = v
      BY <1>1, <2>3, <3>1, OwnHand
    <3>2. CASE w # v
      BY <1>1, <2>1, <2>3, <3>2, OthersSame, SameHandKeeps
    <3>3. QED
      BY <3>1, <3>2
  <2>4. QED
    BY <2>2, <2>3, StepKinds
<1>5. QED
  <2>1. RowsExist'
    BY <1>2, <1>3 DEF RowsExist
  <2>2. QED
    BY <1>4, <2>1 DEF Control, IdleHands, JobsExist, WritersHonest, ExecutedIsClaimed,
       RowsExist, Hand

-----------------------------------------------------------------------------
(* The run table: one run per window, one executor per scheduled run.       *)

LEMMA OnlyTwoInsert ==
  ASSUME [Next]_vars
  PROVE  \/ UNCHANGED created
         \/ \E t \in Ticks, s \in Schedules : TickCreate(t, s)
         \/ \E w \in Workers : RequestRun(w)
<1>1. CASE AdvanceWindow \/ SetSiteActive \/ RecoverStep \/ UNCHANGED vars
  BY <1>1 DEF AdvanceWindow, SetSiteActive, RecoverStep, RecoverScan, GoSilent,
     RecoverRun, vars, runVars
<1>2. ASSUME NEW t \in Ticks,
             \/ TickScan(t) \/ TickAdvance(t) \/ CrashTick(t)
             \/ \E s \in Schedules : TickDeactivate(t, s)
      PROVE  UNCHANGED created
  BY <1>2 DEF TickScan, TickDeactivate, TickAdvance, CrashTick, runVars
<1>3. ASSUME NEW s \in Schedules, SetScheduleActive(s) \/ DeleteSchedule(s)
      PROVE  UNCHANGED created
  BY <1>3 DEF SetScheduleActive, DeleteSchedule, runVars
<1>4. ASSUME NEW r \in RunId, CancelRead(r) \/ CancelWrite(r)
      PROVE  UNCHANGED created
  BY <1>4 DEF CancelRead, CancelWrite, runVars
<1>5. ASSUME NEW w \in Workers, WorkerMove(w)
      PROVE  UNCHANGED created \/ RequestRun(w)
  <2>1. CASE IdleEnd(w) \/ DeadlinePasses(w)
    BY <2>1 DEF IdleEnd, ClaimedElsewhere, CancelOrphan, StartFails, AbortEnds,
       WriteResult, Crash, DeadlinePasses, runVars
  <2>2. CASE PhaseMove(w)
    BY <2>2 DEF PhaseMove, PickNext, ClaimRun, LoadScope, StartManual, StartUnits,
       NextSlice, EndPass, StartRound, RetryUnit, EndRound, EndRetries, Decide, runVars
  <2>3. ASSUME NEW u \in Units, UnitMove(w, u) \/ FailureThrows(w, u)
        PROVE  UNCHANGED created
    BY <2>3 DEF UnitMove, BeginUnit, RecordSuccess, RecordFailure, ChargeRefused,
       ChargeFirst, ChargeUnit, ChargeLost, FailureThrows, runVars
  <2>4. QED
    BY <1>5, <2>1, <2>2, <2>3 DEF WorkerMove
<1>6. ASSUME NEW w \in Workers,
             WorkerStep(w) \/ RequestRun(w) \/ DeadlinePasses(w) \/ Crash(w)
      PROVE  WorkerMove(w)
  BY <1>6 DEF WorkerStep, UnitStep, WorkerMove, IdleEnd, PhaseMove, UnitMove
<1>7. QED
  BY <1>1, <1>2, <1>3, <1>4, <1>5, <1>6 DEF Next, UserStep, FaultStep, TickStep

LEMMA OneRunStep ==
  ASSUME TypeOK, Control, OneRunPerWindow, [Next]_vars
  PROVE  OneRunPerWindow'
<1>1. RunsEvolve
  BY RunsStep
<1>2. \A r \in RunId : ~(r > created) => r \in 1..created
  BY Sizes DEF TypeOK, RunTypes, RunId, Sizes
<1>3. ASSUME created' = created
      PROVE  OneRunPerWindow'
  <2>1. \A r \in RunId : runs'[r].status # "ABSENT" => RunKept(r)
    BY <1>1, <1>2, <1>3 DEF RunsEvolve
  <2>2. \A r \in RunId : runs'[r].status # "ABSENT" => runs[r].status # "ABSENT"
    BY <1>1, <1>2, <1>3 DEF RunsEvolve, Control, JobsExist
  <2>3. QED
    BY <2>1, <2>2 DEF OneRunPerWindow, RunKept
<1>4. ASSUME NEW t \in Ticks, NEW s \in Schedules, TickCreate(t, s), created' # created
      PROVE  OneRunPerWindow'
  <2>1. /\ created' = created + 1 /\ ~Claimed(s, dueAt[t])
        /\ runs' = [runs EXCEPT ![created + 1] = NewRun(s, dueAt[t], 0)]
        /\ created + 1 \in RunId
    BY <1>4, Sizes DEF TickCreate, runVars, TypeOK, RunTypes, RunId, Sizes
  <2>2. /\ runs'[created + 1].sched = s /\ runs'[created + 1].window = dueAt[t]
        /\ \A r \in RunId : r # created + 1 => runs'[r] = runs[r]
    BY <2>1 DEF TypeOK, RunTypes, NewRun, NoRun
  <2>3. \A r \in RunId : r # created + 1 /\ runs'[r].status # "ABSENT" =>
          ~(runs'[r].sched = s /\ runs'[r].window = dueAt[t] /\ runs'[r].stamp = 0)
    BY <2>1, <2>2 DEF Claimed
  <2>4. QED
    BY <2>2, <2>3 DEF OneRunPerWindow
<1>5. ASSUME NEW w \in Workers, RequestRun(w) PROVE OneRunPerWindow'
  <2>1. /\ created + 1 \in RunId /\ runs'[created + 1].stamp # 0
        /\ \A r \in RunId : r # created + 1 => runs'[r] = runs[r]
    BY <1>5, Sizes DEF RequestRun, TypeOK, RunTypes, RunId, NewRun, NoRun, Sizes
  <2>2. QED
    BY <2>1 DEF OneRunPerWindow
<1>6. QED
  BY <1>3, <1>4, <1>5, OnlyTwoInsert

LEMMA ExclusiveStep ==
  ASSUME TypeOK, Control, ScheduledRunExclusive, [Next]_vars
  PROVE  ScheduledRunExclusive'
<1>1. RunsEvolve
  BY RunsStep
<1>2. \A w \in Workers : Hand(w)
  BY ControlParts
<1>3. \A w \in Workers : pc[w] # "idle" => RunKept(job[w])
  BY <1>1, <1>2 DEF Hand, RunsEvolve
<1>4. CASE UNCHANGED <<pc, job, workVars>>
  BY <1>3, <1>4 DEF ScheduledRunExclusive, RunKept, Executing
<1>5. ASSUME NEW w \in Workers, WorkerMove(w) PROVE ScheduledRunExclusive'
  \* The worker was executing the same run already, or it claims a QUEUED one.
  <2>1. pc'[w] \in Executing /\ runs'[job'[w]].stamp = 0 =>
          /\ job'[w] = job[w] /\ pc[w] # "idle"
          /\ pc[w] \in Executing \/ runs[job[w]].status = "QUEUED"
    <3> USE DEF TypeOK, HandTypes
    <3>1. CASE IdleEnd(w)
      BY <3>1 DEF IdleEnd, ClaimedElsewhere, CancelOrphan, StartFails, AbortEnds,
         WriteResult, Crash, Idle, Executing
    <3>2. CASE PickNext(w) \/ ClaimRun(w) \/ LoadScope(w) \/ RequestRun(w)
      BY <3>2 DEF PickNext, ClaimRun, LoadScope, RequestRun, Executing
    <3>3. CASE StartManual(w)
      <4>1. job'[w] = job[w] /\ pc[w] = "created"
        BY <3>3 DEF StartManual
      <4>2. runs'[job[w]].stamp # 0
        BY <1>2, <1>3, <4>1 DEF Hand, RunKept
      <4>3. QED
        BY <4>1, <4>2
    <3>4. CASE \/ StartUnits(w) \/ NextSlice(w) \/ EndPass(w) \/ StartRound(w)
               \/ RetryUnit(w) \/ EndRound(w) \/ EndRetries(w) \/ Decide(w)
      BY <3>4 DEF StartUnits, NextSlice, EndPass, StartRound, RetryUnit, EndRound,
         EndRetries, Decide, Executing
    <3>5. CASE DeadlinePasses(w)
      BY <3>5 DEF DeadlinePasses, Executing
    <3>6. ASSUME NEW u \in Units, UnitMove(w, u), pc'[w] \in Executing
          PROVE  job'[w] = job[w] /\ pc[w] \in Executing /\ pc[w] # "idle"
      BY <3>6 DEF UnitMove, BeginUnit, RecordSuccess, RecordFailure, ChargeRefused,
         ChargeFirst, ChargeUnit, ChargeLost, Executing
    <3>7. ASSUME NEW u \in Units, FailureThrows(w, u)
          PROVE  pc'[w] \notin Executing
      BY <3>7 DEF FailureThrows, Executing
    <3>8. QED
      BY <1>5, <3>1, <3>2, <3>3, <3>4, <3>5, <3>6, <3>7 DEF WorkerMove, PhaseMove
  <2>2. ASSUME NEW v \in Workers, v # w, pc'[v] \in Executing, pc'[w] \in Executing,
               job'[v] = job'[w], runs'[job'[v]].stamp = 0
        PROVE  FALSE
    <3>1. SameHand(v)
      BY <1>5, <2>2, OthersSame
    <3>2. pc[v] \in Executing /\ job[v] = job[w] /\ runs[job[v]].stamp = 0
      BY <1>3, <2>1, <2>2, <3>1 DEF SameHand, RunKept, Executing
    <3>3. runs[job[v]].status # "QUEUED"
      BY <1>2, <3>2 DEF Hand
    <3>4. pc[w] \in Executing
      BY <2>1, <2>2, <3>2, <3>3
    <3>5. QED
      BY <2>2, <3>2, <3>4 DEF ScheduledRunExclusive
  <2>3. ASSUME NEW v \in Workers, NEW x \in Workers, v # w, x # w,
               pc'[v] \in Executing, pc'[x] \in Executing,
               job'[v] = job'[x], runs'[job'[v]].stamp = 0
        PROVE  v = x
    <3>1. SameHand(v) /\ SameHand(x)
      BY <1>5, <2>3, OthersSame
    <3>2. QED
      BY <1>3, <2>3, <3>1 DEF SameHand, RunKept, Executing, ScheduledRunExclusive
  <2>4. QED
    BY <2>2, <2>3 DEF ScheduledRunExclusive
<1>6. QED
  BY <1>4, <1>5, StepKinds

-----------------------------------------------------------------------------
(* Money.                                                                   *)

\* Steps that neither observe nor charge, and give no attempt anything to charge.
Calm ==
  /\ UNCHANGED <<completed, used, charged>>
  /\ \A v \in Workers, u \in Units :
       /\ stage'[v][u] \in {"charge", "insert"} =>
            pc[v] # "idle" /\ job'[v] = job[v] /\ Paying(v, u)
       /\ stage'[v][u] = "insert" => Limit > 0

\* The keys of a worker's run do not change while it has the run in hand.
LEMMA KeyStable ==
  ASSUME RunsEvolve, NEW v \in Workers, Hand(v), pc[v] # "idle", job'[v] = job[v],
         NEW u \in Units
  PROVE  KeyOf(u, job[v])' = KeyOf(u, job[v])
BY DEF Hand, RunsEvolve, RunKept, KeyOf

LEMMA CalmKeeps ==
  ASSUME TypeOK, Control, Money, RunsEvolve, Calm
  PROVE  Money'
<1>1. \A v \in Workers, u \in Units :
        Paying(v, u)' => Paying(v, u) /\ KeyOf(u, job[v])' = KeyOf(u, job[v])
  <2> TAKE v \in Workers, u \in Units
  <2> HAVE Paying(v, u)'
  <2>1. Paying(v, u) /\ pc[v] # "idle" /\ job'[v] = job[v]
    BY DEF Calm, Paying
  <2>2. Hand(v)
    BY ControlParts
  <2>3. QED
    BY <2>1, <2>2, KeyStable
<1>2. UNCHANGED <<Observed, charged, used>>
  BY DEF Calm, Observed
<1>3. PendingChargesDistinct'
  BY <1>1, <1>2 DEF Money, PendingChargesDistinct, Calm
<1>4. UsageIsCharged' /\ IsFiniteSet(charged)'
  BY <1>2 DEF Money, UsageIsCharged
<1>5. QED
  BY <1>3, <1>4 DEF Money

\* A paying attempt belongs to a worker that is not idle.
LEMMA PayingHand ==
  ASSUME Control, NEW v \in Workers, NEW u \in Units, Paying(v, u)
  PROVE  Hand(v) /\ pc[v] \in {"pass", "retrying", "aborted"}
<1>1. Hand(v)
  BY ControlParts
<1>2. QED
  BY <1>1 DEF Hand, Paying

LEMMA ObservesOne ==
  ASSUME NEW w \in Workers, NEW u \in Units, RecordSuccess(w, u)
  PROVE  Observed' = Observed \union {KeyOf(u, job[w])} /\ KeyOf(u, job[w]) \notin Observed
<1> DEFINE k == KeyOf(u, job[w])
<1>1. completed' = completed \union {<<k, job[w]>>} /\ k \notin Observed
  BY DEF RecordSuccess
<1>2. <<k, job[w]>>[1] = k
  OBVIOUS
<1> HIDE DEF k
<1>3. \A row : row \in completed' <=> row \in completed \/ row = <<k, job[w]>>
  BY <1>1
<1>4. Observed' = Observed \union {k}
  BY <1>2, <1>3, Zenon DEF Observed
<1> USE DEF k
<1>5. QED
  BY <1>1, <1>4

LEMMA ObserveKeeps ==
  ASSUME TypeOK, Control, Money, RunsEvolve, NEW w \in Workers, NEW u \in Units,
         RecordSuccess(w, u)
  PROVE  Money'
<1> DEFINE k == KeyOf(u, job[w])
<1>1. Hand(w) /\ pc[w] # "idle" /\ UNCHANGED <<pc, job, used, charged>>
  BY ControlParts DEF RecordSuccess, Hand, moneyVars
<1>2. KeyOf(u, job[w])' = k
  BY <1>1, KeyStable
<1>3. Observed' = Observed \union {k} /\ k \notin Observed
  BY ObservesOne
<1>4. ASSUME NEW v \in Workers, NEW x \in Units, Paying(v, x)', v # w \/ x # u
      PROVE  /\ Paying(v, x) /\ KeyOf(x, job[v])' = KeyOf(x, job[v])
             /\ stage'[v][x] = stage[v][x]
  <2>1. stage'[v][x] = stage[v][x]
    BY <1>4 DEF RecordSuccess, SetStage, TypeOK, WorkTypes
  <2>2. Paying(v, x)
    BY <1>4, <2>1 DEF Paying
  <2>3. Hand(v) /\ pc[v] # "idle"
    BY <2>2, PayingHand
  <2>4. QED
    BY <1>1, <2>1, <2>2, <2>3, KeyStable
<1>5. k \notin charged /\ stage'[w][u] = "charge"
  BY <1>3 DEF Money, UsageIsCharged, RecordSuccess, SetStage, TypeOK, WorkTypes
<1>6. \A v \in Workers, x \in Units :
        /\ Paying(v, x)' => (KeyOf(x, job[v]) \in Observed \ charged)'
        /\ stage'[v][x] = "insert" => Limit > 0
  <2> TAKE v \in Workers, x \in Units
  <2>1. CASE v = w /\ x = u
    BY <1>1, <1>2, <1>3, <1>5, <2>1
  <2>2. CASE v # w \/ x # u
    BY <1>1, <1>3, <1>4, <2>2 DEF Money, PendingChargesDistinct, Paying
  <2>3. QED
    BY <2>1, <2>2
<1>7. \A v, y \in Workers, x \in Units :
        Paying(v, x)' /\ Paying(y, x)' /\ (KeyOf(x, job[v]) = KeyOf(x, job[y]))'
          => v = y
  <2> SUFFICES ASSUME NEW v \in Workers, NEW y \in Workers, NEW x \in Units, v # y,
                      Paying(v, x)', Paying(y, x)',
                      (KeyOf(x, job[v]) = KeyOf(x, job[y]))'
               PROVE  FALSE
    OBVIOUS
  <2>1. ASSUME NEW z \in Workers, z # w, Paying(z, u)'
        PROVE  KeyOf(u, job[z])' # k
    BY <1>3, <1>4, <2>1 DEF Money, PendingChargesDistinct
  <2>2. CASE x = u /\ (v = w \/ y = w)
    BY <1>2, <2>1, <2>2
  <2>3. CASE x # u \/ (v # w /\ y # w)
    BY <1>4, <2>3 DEF Money, PendingChargesDistinct
  <2>4. QED
    BY <2>2, <2>3
<1>8. UsageIsCharged' /\ IsFiniteSet(charged)'
  BY <1>1, <1>3 DEF Money, UsageIsCharged
<1>9. QED
  BY <1>6, <1>7, <1>8 DEF Money, PendingChargesDistinct

LEMMA ChargeKeeps ==
  ASSUME TypeOK, Control, Money, RunsEvolve, NEW w \in Workers, NEW u \in Units,
         ChargeUnit(w, u)
  PROVE  Money' /\ used < Limit /\ KeyOf(u, job[w]) \in Observed \ charged
<1> DEFINE k == KeyOf(u, job[w])
<1>1. /\ Paying(w, u) /\ UNCHANGED <<pc, job, completed>>
      /\ used' = used + 1 /\ charged' = charged \union {k}
  BY DEF ChargeUnit, Paying, rowVars
<1>2. k \in Observed \ charged /\ (stage[w][u] = "insert" => Limit > 0)
  BY <1>1 DEF Money, PendingChargesDistinct
<1>3. used < Limit
  BY <1>2 DEF ChargeUnit
<1>4. ASSUME NEW v \in Workers, NEW x \in Units, Paying(v, x)'
      PROVE  /\ Paying(v, x) /\ KeyOf(x, job[v])' = KeyOf(x, job[v])
             /\ stage'[v][x] = stage[v][x] /\ (v # w \/ x # u)
  <2>1. stage'[v][x] = stage[v][x] /\ (v # w \/ x # u)
    BY <1>4 DEF ChargeUnit, SetStage, TypeOK, WorkTypes, Paying
  <2>2. Paying(v, x)
    BY <1>4, <2>1 DEF Paying
  <2>3. Hand(v) /\ pc[v] # "idle"
    BY <2>2, PayingHand
  <2>4. QED
    BY <1>1, <2>1, <2>2, <2>3, KeyStable
<1>5. UNCHANGED Observed
  BY <1>1 DEF Observed
<1>6. ASSUME NEW v \in Workers, NEW x \in Units, Paying(v, x)'
      PROVE  KeyOf(x, job[v]) # k
  <2>1. CASE x = u
    BY <1>1, <1>4, <1>6, <2>1 DEF Money, PendingChargesDistinct
  <2>2. CASE x # u
    BY <2>2 DEF KeyOf
  <2>3. QED
    BY <2>1, <2>2
<1>7. PendingChargesDistinct'
  BY <1>1, <1>4, <1>5, <1>6 DEF Money, PendingChargesDistinct, Paying
<1>8. UsageIsCharged' /\ IsFiniteSet(charged)'
  <2>1. IsFiniteSet(charged') /\ Cardinality(charged') = Cardinality(charged) + 1
    BY <1>1, <1>2, FS_AddElement DEF Money
  <2>2. used' <= Limit
    BY <1>1, <1>3, Sizes DEF TypeOK, MoneyTypes, Sizes
  <2>3. QED
    BY <1>1, <1>2, <1>5, <2>1, <2>2 DEF Money, UsageIsCharged
<1>9. QED
  BY <1>2, <1>3, <1>7, <1>8 DEF Money

\* Every other step is calm.
LEMMA OthersCalm ==
  ASSUME TypeOK, Control, Money, [Next]_vars,
         ~ \E w \in Workers, u \in Units : RecordSuccess(w, u) \/ ChargeUnit(w, u)
  PROVE  Calm
<1>1. CASE UNCHANGED <<pc, job, workVars, rowVars, moneyVars>>
  <2>1. UNCHANGED <<job, stage, completed, used, charged>>
    BY <1>1 DEF workVars, rowVars, moneyVars
  <2>2. QED
    BY <2>1, PayingHand DEF Calm, Paying, Money, PendingChargesDistinct
<1>2. ASSUME NEW w \in Workers, WorkerMove(w) PROVE Calm
  <2>1. \A v \in Workers : v # w => SameHand(v)
    BY <1>2, OthersSame
  <2>2. UNCHANGED <<completed, used, charged>>
    <3>1. CASE IdleEnd(w) \/ DeadlinePasses(w)
      BY <3>1 DEF IdleEnd, ClaimedElsewhere, CancelOrphan, StartFails, AbortEnds,
         WriteResult, Crash, DeadlinePasses, rowVars, moneyVars
    <3>2. CASE PhaseMove(w)
      BY <3>2 DEF PhaseMove, PickNext, ClaimRun, LoadScope, RequestRun, StartManual,
         StartUnits, NextSlice, EndPass, StartRound, RetryUnit, EndRound, EndRetries,
         Decide, rowVars, moneyVars
    <3>3. ASSUME NEW u \in Units, UnitMove(w, u) \/ FailureThrows(w, u)
          PROVE  UNCHANGED <<completed, used, charged>>
      BY <3>3 DEF UnitMove, BeginUnit, RecordFailure, ChargeRefused, ChargeFirst,
         ChargeLost, FailureThrows, rowVars, moneyVars
    <3>4. QED
      BY <1>2, <3>1, <3>2, <3>3 DEF WorkerMove
  <2>3. ASSUME NEW u \in Units, stage'[w][u] \in {"charge", "insert"}
        PROVE  /\ job'[w] = job[w] /\ Paying(w, u)
               /\ stage'[w][u] = "insert" => stage[w][u] = "insert" \/ Limit > 0
    <3> USE DEF TypeOK, HandTypes, WorkTypes
    <3>1. CASE IdleEnd(w)
      <4>1. Idle(w)
        BY <3>1 DEF IdleEnd, ClaimedElsewhere, CancelOrphan, StartFails, AbortEnds,
           WriteResult, Crash
      <4>2. QED
        BY <2>3, <4>1 DEF Idle
    <3>2. CASE PickNext(w) \/ RequestRun(w)
      <4>1. stage'[w][u] = "out"
        BY <3>2 DEF PickNext, RequestRun, Control, IdleHands, workVars
      <4>2. QED
        BY <2>3, <4>1
    <3>3. CASE ClaimRun(w) \/ LoadScope(w) \/ StartManual(w) \/ EndRetries(w) \/ Decide(w)
      BY <2>3, <3>3 DEF ClaimRun, LoadScope, StartManual, EndRetries, Decide, Paying,
         workVars
    <3>4. CASE StartUnits(w) \/ EndPass(w)
      BY <2>3, <3>4 DEF StartUnits, EndPass
    <3>5. CASE NextSlice(w) \/ StartRound(w) \/ EndRound(w)
      BY <2>3, <3>5 DEF NextSlice, StartRound, EndRound, Paying
    <3>6. CASE RetryUnit(w)
      BY <2>3, <3>6 DEF RetryUnit, SetStage, Paying
    <3>7. CASE DeadlinePasses(w)
      BY <2>3, <3>7 DEF DeadlinePasses, Paying
    <3>8. ASSUME NEW x \in Units, UnitMove(w, x)
          PROVE  /\ job'[w] = job[w] /\ Paying(w, u)
                 /\ stage'[w][u] = "insert" => stage[w][u] = "insert" \/ Limit > 0
      <4>1. CASE BeginUnit(w, x)
        BY <2>3, <4>1 DEF BeginUnit, SetStage, Paying
      <4>2. CASE RecordFailure(w, x) \/ ChargeRefused(w, x) \/ ChargeLost(w, x)
        BY <2>3, <4>2 DEF RecordFailure, ChargeRefused, ChargeLost, SetStage, Paying
      <4>3. CASE ChargeFirst(w, x)
        BY <2>3, <4>3 DEF ChargeFirst, SetStage, Paying
      <4>4. QED
        BY <3>8, <4>1, <4>2, <4>3 DEF UnitMove
    <3>9. ASSUME NEW x \in Units, FailureThrows(w, x)
          PROVE  /\ job'[w] = job[w] /\ Paying(w, u)
                 /\ stage'[w][u] = "insert" => stage[w][u] = "insert" \/ Limit > 0
      BY <2>3, <3>9 DEF FailureThrows, Paying
    <3>10. QED
      BY <1>2, <3>1, <3>2, <3>3, <3>4, <3>5, <3>6, <3>7, <3>8, <3>9
      DEF WorkerMove, PhaseMove
  <2>4. ASSUME NEW v \in Workers, NEW u \in Units, stage'[v][u] \in {"charge", "insert"}
        PROVE  /\ pc[v] # "idle" /\ job'[v] = job[v] /\ Paying(v, u)
               /\ stage'[v][u] = "insert" => Limit > 0
    <3>1. /\ job'[v] = job[v] /\ Paying(v, u)
          /\ stage'[v][u] = "insert" => stage[v][u] = "insert" \/ Limit > 0
      BY <2>1, <2>3, <2>4 DEF SameHand, Paying
    <3>2. pc[v] # "idle"
      BY <3>1, PayingHand
    <3>3. QED
      BY <3>1, <3>2 DEF Money, PendingChargesDistinct
  <2>5. QED
    BY <2>2, <2>4 DEF Calm
<1>3. QED
  BY <1>1, <1>2, StepKinds

LEMMA MoneyStep ==
  ASSUME TypeOK, Control, Money, [Next]_vars
  PROVE  Money'
BY RunsStep, ObserveKeeps, ChargeKeeps, OthersCalm, CalmKeeps

-----------------------------------------------------------------------------
(* The theorems.                                                            *)

LEMMA StepInv == IInv /\ [Next]_vars => IInv'
<1> SUFFICES ASSUME IInv, [Next]_vars PROVE IInv'
  OBVIOUS
<1> USE DEF IInv
<1>1. TypeOK'
  BY TypeStep DEF Control
<1>2. Control' /\ Money'
  BY ControlStep, MoneyStep
<1>3. OneRunPerWindow' /\ ScheduledRunExclusive'
  BY OneRunStep, ExclusiveStep
<1>4. QED
  BY <1>1, <1>2, <1>3

LEMMA Invariance == Spec => []IInv
BY InitInv, StepInv, PTL DEF Spec

\* Every table and worker variable keeps its type.
THEOREM TypeCorrect == Spec => []TypeOK
<1>1. IInv => TypeOK
  BY DEF IInv
<1>2. QED
  BY <1>1, Invariance, PTL

\* However many workers, retries and crashes: one increment of the usage counter
\* per observation charged, never past the plan's limit.
THEOREM ChargedOncePerObservation == Spec => []UsageIsCharged
<1>1. IInv => UsageIsCharged
  BY DEF IInv, Money
<1>2. QED
  BY <1>1, Invariance, PTL

\* Overlapping ticks and tick crashes never create two runs of a schedule for one
\* window.
THEOREM WindowClaimedOnce == Spec => []OneRunPerWindow
<1>1. IInv => OneRunPerWindow
  BY DEF IInv
<1>2. QED
  BY <1>1, Invariance, PTL

\* Concurrent execute-next requests never execute the same scheduled run.
THEOREM ScheduledRunHasOneExecutor == Spec => []ScheduledRunExclusive
<1>1. IInv => ScheduledRunExclusive
  BY DEF IInv
<1>2. QED
  BY <1>1, Invariance, PTL

\* A scheduled run that has reached a terminal status stays in one.
THEOREM TerminalIsFinal == Spec => NoScheduledRestart
<1>1. ASSUME IInv, [Next]_vars, NEW r \in RunId,
             runs[r].stamp = 0, runs[r].status \in Terminal
      PROVE  runs'[r].status \in Terminal
  <2>1. r \in 1..created
    BY <1>1, Sizes
    DEF IInv, Control, JobsExist, TypeOK, RunTypes, RunId, Terminal, Sizes
  <2>2. QED
    BY <1>1, <2>1, RunsStep DEF IInv, RunsEvolve, RunKept
<1>2. IInv /\ [Next]_vars =>
        [\A r \in RunId : runs[r].stamp = 0 /\ runs[r].status \in Terminal
                            => runs'[r].status \in Terminal]_vars
  BY <1>1
<1>3. QED
  BY <1>2, Invariance, PTL DEF Spec, NoScheduledRestart

\* The service implements the abstract ledger: an observation or a charge of the
\* service is one of the ledger, everything else is a stutter.
THEOREM LedgerRefinement == Spec => ImplementsLedger
<1>1. Init => Ledger!LedgerInit
  BY DEF Init, Ledger!LedgerInit, Observed
<1>2. ASSUME IInv, [Next]_vars
      PROVE  [Ledger!LedgerNext]_(Ledger!ledger)
  <2>1. RunsEvolve /\ TypeOK /\ Control /\ Money
    BY <1>2, RunsStep DEF IInv
  <2>2. ASSUME NEW w \in Workers, NEW u \in Units, RecordSuccess(w, u)
        PROVE  Ledger!LedgerNext
    <3> DEFINE k == KeyOf(u, job[w])
    <3>1. k \in Key
      BY <2>1, <2>2, KeyTypes DEF RecordSuccess, Control
    <3>2. Observed' = Observed \union {k} /\ k \notin Observed
      BY <2>2, ObservesOne
    <3>3. UNCHANGED <<charged, used>>
      BY <2>2 DEF RecordSuccess, moneyVars
    <3>4. Ledger!Observe(k)
      BY <3>2, <3>3 DEF Ledger!Observe
    <3>5. QED
      BY <3>1, <3>4 DEF Ledger!LedgerNext
  <2>3. ASSUME NEW w \in Workers, NEW u \in Units, ChargeUnit(w, u)
        PROVE  Ledger!LedgerNext
    <3> DEFINE k == KeyOf(u, job[w])
    <3>1. k \in Key
      BY <2>1, <2>3, KeyTypes DEF ChargeUnit, Control
    <3>2. used < Limit /\ k \in Observed \ charged
      BY <2>1, <2>3, ChargeKeeps
    <3>3. charged' = charged \union {k} /\ used' = used + 1 /\ UNCHANGED Observed
      BY <2>3 DEF ChargeUnit, rowVars, Observed
    <3>4. Ledger!Charge(k)
      BY <3>2, <3>3 DEF Ledger!Charge
    <3>5. QED
      BY <3>1, <3>4 DEF Ledger!LedgerNext
  <2>4. ASSUME Calm PROVE UNCHANGED Ledger!ledger
    BY <2>4 DEF Calm, Ledger!ledger, Observed
  <2>5. QED
    BY <1>2, <2>1, <2>2, <2>3, <2>4, OthersCalm
<1>3. QED
  BY <1>1, <1>2, Invariance, PTL DEF Spec, ImplementsLedger, Ledger!LedgerSpec

-----------------------------------------------------------------------------
(* The books of a scheduled run: its one executor, its rows, its verdict.    *)

\* The worker that has claimed a scheduled run, until it lets go of it.
Handling == Executing \union {"aborted"}
Mine(w) == pc[w] \in Handling /\ runs[job[w]].stamp = 0

\* A scheduled run in a worker's hands has no other worker and is not QUEUED.
OneHandler ==
  /\ \A v, w \in Workers : Mine(v) /\ Mine(w) /\ job[v] = job[w] => v = w
  /\ \A w \in Workers : Mine(w) => runs[job[w]].status # "QUEUED"

\* Rows carry the key of their run, no two observations have the same key, and a
\* scheduled run has no row before it is claimed.
RowsNamed ==
  \A row \in completed \union failed :
    row[2] \in 1..created /\ row[1] = KeyOf(row[1][1], row[2])

RowsUnique == \A x, y \in completed : x[1] = y[1] => x = y

NoRows(r) == RowsOf(completed, r) = {} /\ RowsOf(failed, r) = {}

UnclaimedIsBlank ==
  \A r \in RunId :
    runs[r].stamp = 0 /\ runs[r].status \in {"QUEUED", "ABSENT"} => NoRows(r)

\* What an attempt is about to be charged for is the row it wrote itself.
PaysOwnRow ==
  \A w \in Workers, u \in Units :
    Paying(w, u) => <<KeyOf(u, job[w]), job[w]>> \in completed

\* A worker that has not started its units has counted nothing.
Unstarted == {"idle", "picked", "created", "claimed", "starting"}
BlankStart(w) ==
  /\ pc[w] \in Unstarted \union {"pass"} => rounds[w] = 0
  /\ pc[w] \in Unstarted => tally[w] = NoTally
  /\ pc[w] \in {"claimed", "starting"} /\ runs[job[w]].stamp = 0 => NoRows(job[w])

Rows ==
  /\ IsFiniteSet(completed) /\ RowsNamed /\ RowsUnique /\ UnclaimedIsBlank /\ PaysOwnRow
  /\ \A w \in Workers : BlankStart(w)

\* AccountsMatch at every moment of a run, not only before its last update.
OwnKeys(r) == {row[1] : row \in RowsOf(completed, r)}
Accounts(w) ==
  Mine(w) => /\ tally[w].success = Cardinality(OwnKeys(job[w]))
             /\ tally[w].credit = Cardinality(OwnKeys(job[w]) \intersect charged)

\* A retry round attempts failed units only, one at a time: the attempt finds the
\* key of its FAILED row taken, so no unit fails twice without aborting the run.
RetryDiscipline(w) ==
  pc[w] = "retrying" =>
    /\ queue[w] \union InFlight(w) \subseteq FailedUnits(w)
    /\ \A u, v \in InFlight(w) : u = v

\* Units of the run without an observation; those the worker has left behind;
\* those whose failure a retry has taken back and not yet tried again.
Unseen(w) == {u \in scope[w] : KeyOf(u, job[w]) \notin Observed}
Lost(w) == {u \in Unseen(w) : stage[w][u] = "out"}
Begun(w) == {u \in Units : stage[w][u] = "begin"}
Balance(w) == tally[w].failure + (IF Begun(w) = {} THEN 0 ELSE 1)

PassHonest(w) ==
  /\ tally[w].failure >= 0
  /\ Lost(w) # {} => tally[w].failure > 0
  /\ ~expired[w] => /\ Lost(w) \subseteq FailedUnits(w)
                    /\ tally[w].failure >= Cardinality(FailedUnits(w))

BetweenRoundsHonest(w) ==
  /\ Unseen(w) # {} => tally[w].failure > 0
  /\ ~expired[w] /\ rounds[w] = 0 =>
       /\ Unseen(w) \subseteq FailedUnits(w)
       /\ tally[w].failure >= Cardinality(FailedUnits(w))
  /\ ~expired[w] /\ rounds[w] # 0 => Unseen(w) = {}

RoundHonest(w) ==
  /\ Lost(w) # {} \/ Begun(w) \intersect Unseen(w) # {} => Balance(w) > 0
  /\ rounds[w] # 0
  /\ ~expired[w] /\ rounds[w] = 1 =>
       /\ Lost(w) \subseteq queue[w]
       /\ tally[w].failure >= Cardinality(queue[w])
  /\ ~expired[w] /\ rounds[w] > 1 => Unseen(w) = {}

\* Why a failure count of zero means that nothing is missing, phase by phase; a
\* cancelled run is not going to be COMPLETED.
Honest(w) ==
  Mine(w) =>
    /\ pc[w] = "pass" /\ ~CancelledNow(w) => PassHonest(w)
    /\ pc[w] = "retry" /\ ~CancelledNow(w) => BetweenRoundsHonest(w)
    /\ pc[w] = "retrying" /\ ~CancelledNow(w) => RoundHonest(w)
    /\ pc[w] = "finish" /\ ~CancelledNow(w) =>
         (Unseen(w) # {} => tally[w].failure > 0)
    /\ pc[w] = "write" /\ verdict[w] = "COMPLETED" => Unseen(w) = {}

\* A scheduled run a recovery has seen stale is past its claim, and neither it nor
\* a silent run is being executed, unless workers may be slow.
SparesLive ==
  /\ recovering \subseteq 1..created
  /\ \A r \in RunId :
       runs[r].stamp = 0 =>
         /\ r \in recovering => runs[r].status # "QUEUED"
         /\ ~SlowWorkers /\ runs[r].status = "RUNNING" /\ (~runs[r].fresh \/ r \in recovering)
              => ~Attended(r)

Books ==
  /\ OneHandler /\ Rows /\ SparesLive
  /\ \A w \in Workers : Accounts(w) /\ RetryDiscipline(w) /\ Honest(w)

BInv == IInv /\ Books

LEMMA BooksInit == Init => Books
<1> SUFFICES ASSUME Init PROVE Books
  OBVIOUS
<1> USE DEF Init, Mine, Handling, Executing
<1>1. OneHandler /\ \A w \in Workers : Accounts(w) /\ RetryDiscipline(w) /\ Honest(w)
  BY DEF OneHandler, Accounts, RetryDiscipline, Honest
<1>2. Rows
  BY FS_EmptySet DEF Rows, RowsNamed, RowsUnique, UnclaimedIsBlank, PaysOwnRow, Paying,
     BlankStart, Unstarted, NoRows, RowsOf
<1>3. SparesLive
  BY DEF SparesLive, NoRun, Attended
<1>4. QED
  BY <1>1, <1>2, <1>3 DEF Books

-----------------------------------------------------------------------------
(* What a step does to a scheduled run's row, seen field by field.          *)

RowSteady(r) ==
  /\ runs'[r].status = runs[r].status
  /\ runs'[r].recovered = runs[r].recovered
  /\ runs[r].fresh = TRUE => runs'[r].fresh = TRUE

LEMMA BeatSteady ==
  ASSUME RunTypes, NEW r \in RunId, NEW q \in RunId, Beat(q) \/ UNCHANGED runs
  PROVE  RowSteady(r)
<1>1. CASE runs' = [runs EXCEPT ![q].fresh = TRUE]
  BY <1>1 DEF RunTypes, Run, RowSteady
<1>2. CASE UNCHANGED runs
  BY <1>2 DEF RowSteady
<1>3. QED
  BY <1>1, <1>2 DEF Beat

\* Every other step leaves the status of a scheduled run as it is.
LEMMA RowMoves ==
  ASSUME TypeOK, Control, [Next]_vars, NEW r \in 1..created, runs[r].stamp = 0
  PROVE  \/ RowSteady(r)
         \/ \E w \in Workers : job[w] = r /\ (ClaimRun(w) \/ CancelOrphan(w) \/ WriteResult(w))
         \/ CancelWrite(r) \/ GoSilent(r) \/ RecoverRun(r)
<1> DEFINE Moved == \/ RowSteady(r)
                    \/ \E w \in Workers : job[w] = r /\ (ClaimRun(w) \/ CancelOrphan(w) \/ WriteResult(w))
                    \/ CancelWrite(r) \/ GoSilent(r) \/ RecoverRun(r)
<1> SUFFICES Moved
  OBVIOUS
<1>1. r \in RunId /\ r # created + 1 /\ RunTypes /\ created \in Nat
  BY Sizes DEF TypeOK, RunTypes, RunId, Sizes
<1>2. CASE UNCHANGED runs
  BY <1>2 DEF RowSteady
<1>3. ASSUME NEW s \in Schedules, DeleteSchedule(s) PROVE Moved
  BY <1>1, <1>3 DEF DeleteSchedule, RowSteady, RunTypes, Run
<1>4. ASSUME NEW t \in Ticks, NEW s \in Schedules, TickCreate(t, s) PROVE Moved
  <2>1. runs' = runs \/ runs' = [runs EXCEPT ![created + 1] = NewRun(s, dueAt[t], 0)]
    BY <1>4 DEF TickCreate, runVars
  <2>2. QED
    BY <1>1, <2>1 DEF RowSteady, RunTypes
<1>5. ASSUME NEW w \in Workers, RequestRun(w) PROVE Moved
  BY <1>1, <1>5 DEF RequestRun, RowSteady, RunTypes
<1>6. ASSUME NEW w \in Workers, StartManual(w) PROVE Moved
  <2>1. job[w] # r /\ runs' = [runs EXCEPT ![job[w]].status = "RUNNING", ![job[w]].fresh = TRUE]
    BY <1>6 DEF StartManual, Control, WritersHonest
  <2>2. QED
    BY <1>1, <2>1 DEF RowSteady, RunTypes
<1>7. ASSUME NEW w \in Workers, StartUnits(w) \/ NextSlice(w) \/ EndPass(w) \/ StartRound(w)
      PROVE  Moved
  <2>1. job[w] \in RunId
    BY <1>7, Sizes DEF StartUnits, NextSlice, EndPass, StartRound, TypeOK, HandTypes
  <2>2. Beat(job[w]) \/ UNCHANGED runs
    BY <1>7 DEF StartUnits, NextSlice, EndPass, StartRound
  <2>3. QED
    BY <1>1, <2>1, <2>2, BeatSteady
<1>8. ASSUME NEW w \in Workers, ClaimRun(w) \/ CancelOrphan(w) \/ WriteResult(w) PROVE Moved
  <2>1. CASE job[w] = r
    BY <1>8, <2>1
  <2>2. CASE job[w] # r
    <3>1. runs'[r] = runs[r]
      BY <1>1, <1>8, <2>2 DEF ClaimRun, CancelOrphan, WriteResult, RunTypes
    <3>2. QED
      BY <3>1 DEF RowSteady
  <2>3. QED
    BY <2>1, <2>2
<1>9. ASSUME NEW q \in RunId, CancelWrite(q) \/ GoSilent(q) \/ RecoverRun(q) PROVE Moved
  <2>1. CASE q = r
    BY <1>9, <2>1
  <2>2. CASE q # r
    <3>1. runs'[r] = runs[r]
      BY <1>1, <1>9, <2>2 DEF CancelWrite, GoSilent, RecoverRun, RunTypes
    <3>2. QED
      BY <3>1 DEF RowSteady
  <2>3. QED
    BY <2>1, <2>2
<1>10. ASSUME NEW w \in Workers,
              \/ PickNext(w) \/ ClaimedElsewhere(w) \/ LoadScope(w) \/ StartFails(w)
              \/ DeadlinePasses(w) \/ AbortEnds(w) \/ RetryUnit(w) \/ EndRound(w)
              \/ EndRetries(w) \/ Decide(w) \/ Crash(w)
              \/ \E u \in Units : UnitStep(w, u)
       PROVE  UNCHANGED runs
  BY <1>10 DEF PickNext, ClaimedElsewhere, LoadScope, StartFails, DeadlinePasses,
     AbortEnds, RetryUnit, EndRound, EndRetries, Decide, Crash, UnitStep, BeginUnit,
     RecordSuccess, RecordFailure, FailureThrows, ChargeRefused, ChargeFirst,
     ChargeUnit, ChargeLost, runVars
<1>11. ASSUME NEW t \in Ticks,
              \/ TickScan(t) \/ TickAdvance(t) \/ CrashTick(t)
              \/ \E s \in Schedules : TickDeactivate(t, s)
       PROVE  UNCHANGED runs
  BY <1>11 DEF TickScan, TickAdvance, CrashTick, TickDeactivate, runVars
<1>12. ASSUME \/ AdvanceWindow \/ SetSiteActive \/ RecoverScan
              \/ \E s \in Schedules : SetScheduleActive(s)
              \/ \E q \in RunId : CancelRead(q)
       PROVE  UNCHANGED runs
  BY <1>12 DEF AdvanceWindow, SetSiteActive, RecoverScan, SetScheduleActive, CancelRead,
     runVars
<1>13. CASE UNCHANGED vars
  BY <1>2, <1>13 DEF vars, runVars
<1> HIDE DEF Moved
<1>14. CASE \E w \in Workers : WorkerStep(w)
  BY <1>2, <1>6, <1>7, <1>8, <1>10, <1>14 DEF WorkerStep
<1>15. CASE \E t \in Ticks : TickStep(t)
  BY <1>2, <1>4, <1>11, <1>15 DEF TickStep
<1>16. CASE AdvanceWindow \/ UserStep
  BY <1>2, <1>3, <1>5, <1>9, <1>12, <1>16 DEF UserStep
<1>17. CASE FaultStep \/ RecoverStep
  BY <1>2, <1>9, <1>10, <1>11, <1>12, <1>17 DEF FaultStep, RecoverStep
<1>18. QED
  BY <1>13, <1>14, <1>15, <1>16, <1>17 DEF Next

-----------------------------------------------------------------------------
(* What a step does to a worker: nothing, or one of its own moves.          *)

SameWork(v) ==
  /\ SameHand(v)
  /\ scope'[v] = scope[v] /\ queue'[v] = queue[v] /\ rounds'[v] = rounds[v]
  /\ tally'[v] = tally[v] /\ expired'[v] = expired[v]

LEMMA OthersWork ==
  ASSUME TypeOK, NEW w \in Workers, WorkerMove(w), NEW v \in Workers, v # w
  PROVE  SameWork(v)
<1>0. SameHand(v)
  BY OthersSame
<1> USE DEF TypeOK, HandTypes, WorkTypes, SameWork
<1>1. CASE IdleEnd(w)
  <2>1. Idle(w)
    BY <1>1 DEF IdleEnd, ClaimedElsewhere, CancelOrphan, StartFails, AbortEnds,
       WriteResult, Crash
  <2>2. QED
    BY <1>0, <2>1 DEF Idle
<1>2. CASE PickNext(w) \/ ClaimRun(w) \/ LoadScope(w) \/ RequestRun(w) \/ StartManual(w)
  BY <1>0, <1>2 DEF PickNext, ClaimRun, LoadScope, RequestRun, StartManual, workVars
<1>3. CASE StartUnits(w) \/ NextSlice(w) \/ EndPass(w)
  BY <1>0, <1>3 DEF StartUnits, NextSlice, EndPass
<1>4. CASE StartRound(w) \/ RetryUnit(w) \/ EndRound(w) \/ EndRetries(w) \/ Decide(w)
  BY <1>0, <1>4 DEF StartRound, RetryUnit, EndRound, EndRetries, Decide, workVars
<1>5. CASE DeadlinePasses(w)
  BY <1>0, <1>5 DEF DeadlinePasses
<1>6. ASSUME NEW u \in Units, UnitMove(w, u) PROVE SameWork(v)
  BY <1>0, <1>6 DEF UnitMove, BeginUnit, RecordSuccess, RecordFailure, ChargeRefused,
     ChargeFirst, ChargeUnit, ChargeLost
<1>7. ASSUME NEW u \in Units, FailureThrows(w, u) PROVE SameWork(v)
  BY <1>0, <1>7 DEF FailureThrows
<1>8. QED
  BY <1>1, <1>2, <1>3, <1>4, <1>5, <1>6, <1>7 DEF WorkerMove, PhaseMove

LEMMA WorkKinds ==
  ASSUME TypeOK, [Next]_vars, NEW v \in Workers
  PROVE  SameWork(v) \/ WorkerMove(v)
<1>1. CASE UNCHANGED <<pc, job, workVars>>
  BY <1>1 DEF SameWork, SameHand, workVars
<1>2. QED
  BY <1>1, StepKinds, OthersWork

\* Who writes rows and charges: a worker with the unit in hand.
LEMMA Writers ==
  ASSUME [Next]_vars
  PROVE  /\ UNCHANGED completed \/ \E w \in Workers, u \in Units : RecordSuccess(w, u)
         /\ UNCHANGED failed \/ \E w \in Workers, u \in Units : RecordFailure(w, u)
         /\ UNCHANGED charged \/ \E w \in Workers, u \in Units : ChargeUnit(w, u)
<1>1. CASE UNCHANGED <<pc, job, workVars, rowVars, moneyVars>>
  BY <1>1 DEF rowVars, moneyVars
<1>2. ASSUME NEW w \in Workers, IdleEnd(w) \/ PhaseMove(w) \/ DeadlinePasses(w)
      PROVE  UNCHANGED <<completed, failed, charged>>
  BY <1>2 DEF IdleEnd, ClaimedElsewhere, CancelOrphan, StartFails, AbortEnds,
     WriteResult, Crash, DeadlinePasses, PhaseMove, PickNext, ClaimRun, LoadScope,
     RequestRun, StartManual, StartUnits, NextSlice, EndPass, StartRound, RetryUnit,
     EndRound, EndRetries, Decide, rowVars, moneyVars
<1>3. ASSUME NEW w \in Workers, NEW u \in Units, UnitMove(w, u) \/ FailureThrows(w, u)
      PROVE  /\ UNCHANGED completed \/ RecordSuccess(w, u)
             /\ UNCHANGED failed \/ RecordFailure(w, u)
             /\ UNCHANGED charged \/ ChargeUnit(w, u)
  <2>1. CASE \/ BeginUnit(w, u) \/ ChargeRefused(w, u) \/ ChargeFirst(w, u)
             \/ ChargeLost(w, u) \/ FailureThrows(w, u)
    BY <2>1 DEF BeginUnit, ChargeRefused, ChargeFirst, ChargeLost, FailureThrows,
       rowVars, moneyVars
  <2>2. CASE RecordSuccess(w, u) \/ RecordFailure(w, u) \/ ChargeUnit(w, u)
    BY <2>2 DEF RecordSuccess, RecordFailure, ChargeUnit, rowVars, moneyVars
  <2>3. QED
    BY <1>3, <2>1, <2>2 DEF UnitMove
<1>4. QED
  BY <1>1, <1>2, <1>3, StepKinds DEF WorkerMove

\* A worker with a unit in hand, and its run.
LEMMA HoldsUnit ==
  ASSUME TypeOK, Control, NEW w \in Workers, NEW u \in Units, stage[w][u] # "out"
  PROVE  /\ pc[w] \in {"pass", "retrying", "aborted"} /\ job[w] \in 1..created
         /\ runs[job[w]].stamp = 0 => Mine(w)
BY ControlParts DEF Hand, Mine, Handling, Executing

LEMMA WriterHolds ==
  ASSUME TypeOK, Control, NEW w \in Workers, NEW u \in Units,
         RecordSuccess(w, u) \/ RecordFailure(w, u) \/ ChargeUnit(w, u)
  PROVE  /\ pc[w] \in {"pass", "retrying", "aborted"} /\ job[w] \in 1..created
         /\ runs[job[w]].stamp = 0 => Mine(w)
<1>1. stage[w][u] # "out"
  BY DEF RecordSuccess, RecordFailure, ChargeUnit
<1>2. QED
  BY <1>1, HoldsUnit

\* A scheduled run is taken in hand by its claim only.
LEMMA MineMoves ==
  ASSUME TypeOK, Control, RunsEvolve, [Next]_vars, NEW w \in Workers, Mine(w)'
  PROVE  job'[w] = job[w] /\ (Mine(w) \/ ClaimRun(w))
<1>1. Hand(w)
  BY ControlParts
<1>2. pc[w] # "idle" => job[w] \in 1..created /\ RunKept(job[w])
  BY <1>1 DEF Hand, RunsEvolve
<1>3. SUFFICES job'[w] = job[w] /\ (pc[w] \in Handling \/ ClaimRun(w))
  BY <1>2 DEF Mine, RunKept, Handling, Executing
<1>4. pc'[w] \in Handling /\ runs'[job'[w]].stamp = 0
  BY DEF Mine
<1> USE DEF TypeOK, HandTypes
<1>5. CASE SameWork(w)
  BY <1>4, <1>5 DEF SameWork, SameHand
<1>6. CASE IdleEnd(w)
  BY <1>4, <1>6 DEF IdleEnd, ClaimedElsewhere, CancelOrphan, StartFails, AbortEnds,
     WriteResult, Crash, Idle, Handling, Executing
<1>7. CASE PickNext(w) \/ RequestRun(w)
  BY <1>4, <1>7 DEF PickNext, RequestRun, Handling, Executing
<1>8. CASE ClaimRun(w) \/ LoadScope(w)
  BY <1>8 DEF ClaimRun, LoadScope, Handling, Executing
<1>9. CASE StartManual(w)
  <2>1. job'[w] = job[w] /\ runs'[job[w]].stamp # 0
    BY <1>1, <1>2, <1>9 DEF StartManual, Hand, RunKept
  <2>2. QED
    BY <1>4, <2>1
<1>10. CASE \/ StartUnits(w) \/ NextSlice(w) \/ EndPass(w) \/ StartRound(w)
            \/ RetryUnit(w) \/ EndRound(w) \/ EndRetries(w) \/ Decide(w)
  BY <1>10 DEF StartUnits, NextSlice, EndPass, StartRound, RetryUnit, EndRound,
     EndRetries, Decide, Handling, Executing
<1>11. CASE DeadlinePasses(w)
  BY <1>11 DEF DeadlinePasses, Handling, Executing
<1>12. ASSUME NEW u \in Units, UnitMove(w, u) \/ FailureThrows(w, u)
       PROVE  job'[w] = job[w] /\ pc[w] \in Handling
  <2>1. stage[w][u] # "out" /\ job' = job
    BY <1>12 DEF UnitMove, BeginUnit, RecordSuccess, RecordFailure, ChargeRefused,
       ChargeFirst, ChargeUnit, ChargeLost, FailureThrows
  <2>2. QED
    BY <2>1, HoldsUnit DEF Handling, Executing
<1>13. QED
  BY <1>5, <1>6, <1>7, <1>8, <1>9, <1>10, <1>11, <1>12, WorkKinds
  DEF WorkerMove, PhaseMove

LEMMA OneHandlerStep ==
  ASSUME TypeOK, Control, OneHandler, [Next]_vars
  PROVE  OneHandler'
<1>1. RunsEvolve
  BY RunsStep
<1>2. \A w \in Workers : pc[w] # "idle" => job[w] \in 1..created /\ RunKept(job[w])
  BY <1>1, ControlParts DEF Hand, RunsEvolve
<1>3. ASSUME NEW v \in Workers, NEW w \in Workers, v # w, Mine(v)', ClaimRun(w)
      PROVE  job'[v] # job[w]
  <2>1. Mine(v) \/ ClaimRun(v)
    BY <1>1, <1>3, MineMoves
  <2>2. ~ClaimRun(v)
    BY <1>3 DEF ClaimRun, Mine, Handling, Executing, TypeOK, HandTypes
  <2>3. runs[job[v]].status # "QUEUED" /\ runs[job[w]].status = "QUEUED" /\ job' = job
    BY <1>3, <2>1, <2>2 DEF OneHandler, ClaimRun
  <2>4. QED
    BY <2>3
<1>4. \A v, w \in Workers : Mine(v)' /\ Mine(w)' /\ job'[v] = job'[w] => v = w
  BY <1>1, <1>3, MineMoves DEF OneHandler
<1>5. ASSUME NEW w \in Workers, Mine(w)' PROVE runs'[job'[w]].status # "QUEUED"
  <2>1. CASE Mine(w)
    <3>1. job'[w] = job[w] /\ pc[w] # "idle"
      BY <1>1, <1>5, <2>1, MineMoves DEF Mine, Handling, Executing
    <3>2. QED
      BY <1>2, <2>1, <3>1 DEF OneHandler, RunKept
  <2>2. CASE ClaimRun(w)
    BY <1>2, <2>2, Sizes DEF ClaimRun, TypeOK, RunTypes, Run, RunId, Sizes
  <2>3. QED
    BY <1>1, <1>5, <2>1, <2>2, MineMoves
<1>6. QED
  BY <1>4, <1>5 DEF OneHandler

-----------------------------------------------------------------------------
(* The rows of the runs.                                                    *)

\* The key and the run of the row a worker inserts.
LEMMA NewRow ==
  ASSUME NEW w \in Workers, NEW u \in Units
  PROVE  LET x == <<KeyOf(u, job[w]), job[w]>> IN
         x[1] = KeyOf(u, job[w]) /\ x[2] = job[w] /\ x[1][1] = u
BY DEF KeyOf

LEMMA CompletedMoves ==
  ASSUME [Next]_vars, NEW x
  PROVE  x \in completed' <=>
           \/ x \in completed
           \/ \E w \in Workers, u \in Units :
                RecordSuccess(w, u) /\ x = <<KeyOf(u, job[w]), job[w]>>
<1>1. \/ UNCHANGED completed /\ ~\E w \in Workers, u \in Units : RecordSuccess(w, u)
      \/ \E w \in Workers, u \in Units :
           RecordSuccess(w, u) /\ completed' = completed \union {<<KeyOf(u, job[w]), job[w]>>}
  BY Writers DEF RecordSuccess
<1>2. ASSUME NEW w \in Workers, NEW u \in Units, RecordSuccess(w, u)
      PROVE  completed' = completed \union {<<KeyOf(u, job[w]), job[w]>>}
  BY <1>2 DEF RecordSuccess
<1>3. QED
  BY <1>1, <1>2, Zenon

LEMMA FailedMoves ==
  ASSUME [Next]_vars, NEW x
  PROVE  x \in failed' <=>
           \/ x \in failed
           \/ \E w \in Workers, u \in Units :
                RecordFailure(w, u) /\ x = <<KeyOf(u, job[w]), job[w]>>
<1>1. \/ UNCHANGED failed /\ ~\E w \in Workers, u \in Units : RecordFailure(w, u)
      \/ \E w \in Workers, u \in Units :
           RecordFailure(w, u) /\ failed' = failed \union {<<KeyOf(u, job[w]), job[w]>>}
  BY Writers DEF RecordFailure
<1>2. ASSUME NEW w \in Workers, NEW u \in Units, RecordFailure(w, u)
      PROVE  failed' = failed \union {<<KeyOf(u, job[w]), job[w]>>}
  BY <1>2 DEF RecordFailure
<1>3. QED
  BY <1>1, <1>2, Zenon

\* No row of a run is inserted unless its worker inserts one.
LEMMA RowsOfMoves ==
  ASSUME [Next]_vars, NEW r,
         ~\E w \in Workers, u \in Units :
            job[w] = r /\ (RecordSuccess(w, u) \/ RecordFailure(w, u))
  PROVE  RowsOf(completed', r) = RowsOf(completed, r) /\ RowsOf(failed', r) = RowsOf(failed, r)
<1>1. \A x : x[2] = r => (x \in completed' <=> x \in completed) /\ (x \in failed' <=> x \in failed)
  BY CompletedMoves, FailedMoves, NewRow
<1>2. RowsOf(completed', r) = RowsOf(completed, r)
  BY <1>1 DEF RowsOf
<1>3. RowsOf(failed', r) = RowsOf(failed, r)
  BY <1>1 DEF RowsOf
<1>4. QED
  BY <1>2, <1>3

\* The rows of a scheduled run change by the steps of its one worker only.
LEMMA RowsKept ==
  ASSUME TypeOK, Control, OneHandler, [Next]_vars, NEW w \in Workers, Mine(w),
         ~\E u \in Units : RecordSuccess(w, u) \/ RecordFailure(w, u)
  PROVE  /\ RowsOf(completed', job[w]) = RowsOf(completed, job[w])
         /\ RowsOf(failed', job[w]) = RowsOf(failed, job[w])
<1>1. ASSUME NEW v \in Workers, NEW u \in Units, job[v] = job[w],
             RecordSuccess(v, u) \/ RecordFailure(v, u)
      PROVE  FALSE
  <2>1. Mine(v)
    BY <1>1, WriterHolds DEF Mine
  <2>2. v = w
    BY <1>1, <2>1 DEF OneHandler
  <2>3. QED
    BY <1>1, <2>2
<1>2. QED
  BY <1>1, RowsOfMoves

LEMMA RowsTableStep ==
  ASSUME TypeOK, Control, OneHandler, Rows, [Next]_vars
  PROVE  /\ IsFiniteSet(completed)' /\ RowsNamed' /\ RowsUnique'
         /\ UnclaimedIsBlank'
<1> USE DEF Rows
<1>1. RunsEvolve /\ created \in Nat /\ created' \in Nat /\ created <= created'
  BY RunsStep DEF RunsEvolve, TypeOK, RunTypes
<1>2. IsFiniteSet(completed)'
  <2>1. completed' = completed \/ \E x : completed' = completed \union {x}
    BY Writers DEF RecordSuccess
  <2>2. QED
    BY <2>1, FS_AddElement
<1>3. ASSUME NEW row \in completed \union failed
      PROVE  row[2] \in 1..created' /\ row[1] = KeyOf(row[1][1], row[2])'
  <2>1. row[2] \in 1..created /\ row[1] = KeyOf(row[1][1], row[2])
    BY DEF RowsNamed
  <2>2. RunKept(row[2])
    BY <1>1, <2>1 DEF RunsEvolve
  <2>3. QED
    BY <1>1, <2>1, <2>2 DEF RunKept, KeyOf
<1>4. ASSUME NEW w \in Workers, NEW u \in Units, RecordSuccess(w, u) \/ RecordFailure(w, u),
             NEW row, row = <<KeyOf(u, job[w]), job[w]>>
      PROVE  row[2] \in 1..created' /\ row[1] = KeyOf(row[1][1], row[2])'
  <2>1. job[w] \in 1..created
    BY <1>4, WriterHolds
  <2>2. RunKept(job[w])
    BY <1>1, <2>1 DEF RunsEvolve
  <2>3. row[1] = KeyOf(u, job[w]) /\ row[2] = job[w] /\ row[1][1] = u
    BY <1>4, NewRow
  <2>4. QED
    BY <1>1, <2>1, <2>2, <2>3 DEF RunKept, KeyOf
<1>5. RowsNamed'
  <2>1. \A row : row \in completed' \union failed' =>
          row[2] \in 1..created' /\ row[1] = KeyOf(row[1][1], row[2])'
    BY <1>3, <1>4, CompletedMoves, FailedMoves
  <2>2. QED
    BY <2>1 DEF RowsNamed
<1>6. RowsUnique'
  <2>1. ASSUME NEW w \in Workers, NEW u \in Units, RecordSuccess(w, u)
        PROVE  RowsUnique'
    <3>1. completed' = completed \union {<<KeyOf(u, job[w]), job[w]>>}
      BY <2>1 DEF RecordSuccess
    <3>2. \A x \in completed : x[1] # KeyOf(u, job[w])
      BY <2>1 DEF RecordSuccess, Observed
    <3>3. QED
      BY <3>1, <3>2, NewRow DEF RowsUnique
  <2>2. QED
    BY <2>1, Writers DEF RowsUnique
<1>7. UnclaimedIsBlank'
  <2> SUFFICES ASSUME NEW r \in RunId, runs'[r].stamp = 0,
                      runs'[r].status \in {"QUEUED", "ABSENT"}
               PROVE  NoRows(r)'
    BY DEF UnclaimedIsBlank
  <2>1. CASE r \in 1..created
    <3>1. RunKept(r)
      BY <1>1, <2>1 DEF RunsEvolve
    <3>2. runs[r].stamp = 0 /\ runs[r].status = "QUEUED" /\ NoRows(r)
      BY <3>1 DEF RunKept, UnclaimedIsBlank
    <3>3. ASSUME NEW w \in Workers, NEW u \in Units, job[w] = r,
                 RecordSuccess(w, u) \/ RecordFailure(w, u)
          PROVE  FALSE
      BY <3>2, <3>3, WriterHolds DEF OneHandler
    <3>4. QED
      BY <3>2, <3>3, RowsOfMoves DEF NoRows
  <2>2. CASE r \notin 1..created
    <3>1. \A row \in completed \union failed : row[2] # r
      BY <2>2 DEF RowsNamed
    <3>2. NoRows(r)
      BY <3>1 DEF NoRows, RowsOf
    <3>3. ASSUME NEW w \in Workers, NEW u \in Units, job[w] = r,
                 RecordSuccess(w, u) \/ RecordFailure(w, u)
          PROVE  FALSE
      BY <2>2, <3>3, WriterHolds
    <3>4. QED
      BY <3>2, <3>3, RowsOfMoves DEF NoRows
  <2>3. QED
    BY <2>1, <2>2
<1>8. QED
  BY <1>2, <1>5, <1>6, <1>7

LEMMA PaysOwnRowStep ==
  ASSUME TypeOK, Control, Money, PaysOwnRow, [Next]_vars
  PROVE  PaysOwnRow'
<1>1. RunsEvolve
  BY RunsStep
<1>2. completed \subseteq completed'
  BY CompletedMoves
<1>3. ASSUME NEW v \in Workers, NEW x \in Units, Paying(v, x), job'[v] = job[v]
      PROVE  <<KeyOf(x, job[v]), job[v]>>' \in completed'
  <2>1. Hand(v) /\ pc[v] # "idle"
    BY <1>3, PayingHand
  <2>2. KeyOf(x, job[v])' = KeyOf(x, job[v])
    BY <1>1, <1>3, <2>1, KeyStable
  <2>3. QED
    BY <1>2, <1>3, <2>2 DEF PaysOwnRow
<1>4. CASE Calm
  BY <1>3, <1>4 DEF Calm, PaysOwnRow, Paying
<1>5. ASSUME NEW w \in Workers, NEW u \in Units, RecordSuccess(w, u) PROVE PaysOwnRow'
  <2>1. UNCHANGED job /\ <<KeyOf(u, job[w]), job[w]>> \in completed'
    BY <1>5 DEF RecordSuccess
  <2>2. ASSUME NEW v \in Workers, NEW x \in Units, Paying(v, x)', v # w \/ x # u
        PROVE  Paying(v, x)
    BY <1>5, <2>2 DEF RecordSuccess, SetStage, TypeOK, WorkTypes, Paying
  <2>3. Hand(w) /\ pc[w] # "idle"
    BY <1>5, ControlParts DEF RecordSuccess, Hand
  <2>4. KeyOf(u, job[w])' = KeyOf(u, job[w])
    BY <1>1, <2>1, <2>3, KeyStable
  <2>5. QED
    BY <1>3, <2>1, <2>2, <2>4 DEF PaysOwnRow
<1>6. ASSUME NEW w \in Workers, NEW u \in Units, ChargeUnit(w, u) PROVE PaysOwnRow'
  <2>1. UNCHANGED job
    BY <1>6 DEF ChargeUnit
  <2>2. ASSUME NEW v \in Workers, NEW x \in Units, Paying(v, x)' PROVE Paying(v, x)
    BY <1>6, <2>2 DEF ChargeUnit, SetStage, TypeOK, WorkTypes, Paying
  <2>3. QED
    BY <1>3, <2>1, <2>2 DEF PaysOwnRow
<1>7. QED
  BY <1>4, <1>5, <1>6, OthersCalm

LEMMA BlankStep ==
  ASSUME TypeOK, Control, OneHandler, Rows, [Next]_vars, NEW w \in Workers
  PROVE  BlankStart(w)'
<1>1. RunsEvolve /\ BlankStart(w) /\ Hand(w)
  BY RunsStep, ControlParts DEF Rows
<1>2. pc[w] # "idle" => job[w] \in 1..created /\ job[w] \in RunId /\ RunKept(job[w])
  BY <1>1, Sizes DEF Hand, RunsEvolve, TypeOK, RunTypes, RunId, Sizes
<1> USE DEF TypeOK, HandTypes, WorkTypes
\* The rows of a run that is claimed and not started.
<1>3. ASSUME pc'[w] \in {"claimed", "starting"}, runs'[job'[w]].stamp = 0
      PROVE  NoRows(job[w])' /\ job'[w] = job[w]
  <2>1. Mine(w)'
    BY <1>3 DEF Mine, Handling, Executing
  <2>2. job'[w] = job[w] /\ (Mine(w) \/ ClaimRun(w))
    BY <1>1, <2>1, MineMoves
  <2>3. NoRows(job[w]) /\ runs[job[w]].stamp = 0
    <3>1. CASE ClaimRun(w)
      BY <1>2, <1>3, <3>1 DEF ClaimRun, Rows, UnclaimedIsBlank, RunKept
    <3>2. CASE Mine(w) /\ SameWork(w)
      BY <1>1, <1>3, <3>2 DEF BlankStart, SameWork, SameHand, Mine
    <3>3. CASE Mine(w) /\ WorkerMove(w)
      <4>1. pc[w] \in {"claimed", "starting"}
        <5>1. CASE IdleEnd(w)
          BY <1>3, <5>1 DEF IdleEnd, ClaimedElsewhere, CancelOrphan, StartFails, AbortEnds,
             WriteResult, Crash, Idle
        <5>2. CASE PhaseMove(w)
          BY <1>3, <3>3, <5>2 DEF PhaseMove, PickNext, ClaimRun, LoadScope, RequestRun,
             StartManual, StartUnits, NextSlice, EndPass, StartRound, RetryUnit, EndRound,
             EndRetries, Decide, Mine, Handling, Executing
        <5>3. CASE DeadlinePasses(w)
          BY <1>3, <5>3 DEF DeadlinePasses
        <5>4. ASSUME NEW u \in Units, UnitMove(w, u) \/ FailureThrows(w, u)
              PROVE  FALSE
          <6>1. stage[w][u] # "out" /\ (pc' = pc \/ pc'[w] = "aborted")
            BY <5>4 DEF UnitMove, BeginUnit, RecordSuccess, RecordFailure, ChargeRefused,
               ChargeFirst, ChargeUnit, ChargeLost, FailureThrows
          <6>2. QED
            BY <1>3, <6>1, HoldsUnit
        <5>5. QED
          BY <3>3, <5>1, <5>2, <5>3, <5>4 DEF WorkerMove
      <4>2. QED
        BY <1>1, <3>3, <4>1 DEF BlankStart, Mine
    <3>4. QED
      BY <2>2, <3>1, <3>2, <3>3, WorkKinds
  <2>4. ASSUME NEW v \in Workers, NEW u \in Units, job[v] = job[w],
               RecordSuccess(v, u) \/ RecordFailure(v, u)
        PROVE  FALSE
    <3>1. Mine(v) /\ pc[v] \in {"pass", "retrying", "aborted"} /\ UNCHANGED <<pc, job>>
      BY <2>3, <2>4, WriterHolds DEF RecordSuccess, RecordFailure
    <3>2. v # w /\ Mine(w)
      BY <1>3, <2>2, <3>1 DEF ClaimRun, Mine
    <3>3. QED
      BY <2>4, <3>1, <3>2 DEF OneHandler
  <2>5. RowsOf(completed', job[w]) = RowsOf(completed, job[w])
        /\ RowsOf(failed', job[w]) = RowsOf(failed, job[w])
    BY <2>4, RowsOfMoves
  <2>6. QED
    BY <2>2, <2>3, <2>5 DEF NoRows
<1>4. /\ pc'[w] \in Unstarted \union {"pass"} => rounds'[w] = 0
      /\ pc'[w] \in Unstarted => tally'[w] = NoTally
  <2>1. CASE SameWork(w)
    BY <1>1, <2>1 DEF SameWork, SameHand, BlankStart
  <2>2. CASE IdleEnd(w)
    <3>1. Idle(w)
      BY <2>2 DEF IdleEnd, ClaimedElsewhere, CancelOrphan, StartFails, AbortEnds,
         WriteResult, Crash
    <3>2. QED
      BY <3>1 DEF Idle
  <2>3. CASE PickNext(w) \/ ClaimRun(w) \/ LoadScope(w) \/ RequestRun(w) \/ StartManual(w)
             \/ StartUnits(w) \/ NextSlice(w)
    BY <1>1, <2>3 DEF PickNext, ClaimRun, LoadScope, RequestRun, StartManual, StartUnits,
       NextSlice, BlankStart, Unstarted, workVars
  <2>4. CASE \/ EndPass(w) \/ StartRound(w) \/ RetryUnit(w) \/ EndRound(w)
             \/ EndRetries(w) \/ Decide(w)
    BY <2>4 DEF EndPass, StartRound, RetryUnit, EndRound, EndRetries, Decide, Unstarted
  <2>5. CASE DeadlinePasses(w)
    BY <1>1, <2>5 DEF DeadlinePasses, BlankStart, Unstarted
  <2>6. ASSUME NEW u \in Units, UnitMove(w, u) \/ FailureThrows(w, u)
        PROVE  pc'[w] \notin Unstarted /\ (pc'[w] = "pass" => rounds'[w] = 0)
    <3>1. /\ stage[w][u] # "out" /\ rounds' = rounds
          /\ pc' = pc \/ pc'[w] = "aborted"
      BY <2>6 DEF UnitMove, BeginUnit, RecordSuccess, RecordFailure, ChargeRefused,
         ChargeFirst, ChargeUnit, ChargeLost, FailureThrows
    <3>2. QED
      BY <1>1, <3>1, HoldsUnit DEF BlankStart, Unstarted
  <2>7. QED
    BY <2>1, <2>2, <2>3, <2>4, <2>5, <2>6, WorkKinds DEF WorkerMove, PhaseMove
<1>5. QED
  BY <1>3, <1>4 DEF BlankStart

LEMMA RowsStep ==
  ASSUME TypeOK, Control, Money, OneHandler, Rows, [Next]_vars
  PROVE  Rows'
<1>1. PaysOwnRow'
  BY PaysOwnRowStep DEF Rows
<1>2. QED
  BY <1>1, RowsTableStep, BlankStep DEF Rows

-----------------------------------------------------------------------------
(* The accounts of a run.                                                   *)

LEMMA OwnKeysMoves ==
  ASSUME NEW r, RowsOf(completed', r) = RowsOf(completed, r)
  PROVE  OwnKeys(r)' = OwnKeys(r)
BY DEF OwnKeys

LEMMA OwnKeysFinite ==
  ASSUME IsFiniteSet(completed), NEW r
  PROVE  IsFiniteSet(OwnKeys(r)) /\ OwnKeys(r) \subseteq Observed
<1>1. RowsOf(completed, r) \subseteq completed
  BY DEF RowsOf
<1>2. IsFiniteSet(RowsOf(completed, r))
  BY <1>1, FS_Subset
<1> DEFINE f == [row \in RowsOf(completed, r) |-> row[1]]
<1>3. f \in Surjection(RowsOf(completed, r), OwnKeys(r))
  BY DEF Surjection, OwnKeys
<1>4. IsFiniteSet(OwnKeys(r))
  BY <1>2, <1>3, FS_Surjection
<1>5. QED
  BY <1>1, <1>4 DEF OwnKeys, Observed

\* What a worker counts besides: nothing, in a step that neither records nor charges.
LEMMA TallyMoves ==
  ASSUME TypeOK, Control, RunsEvolve, [Next]_vars, NEW w \in Workers, Mine(w), Mine(w)',
         ~\E u \in Units : RecordSuccess(w, u) \/ ChargeUnit(w, u)
  PROVE  tally'[w].success = tally[w].success /\ tally'[w].credit = tally[w].credit
<1> USE DEF TypeOK, WorkTypes, HandTypes
<1>1. CASE SameWork(w)
  BY <1>1 DEF SameWork
<1>2. CASE IdleEnd(w)
  BY <1>2 DEF IdleEnd, ClaimedElsewhere, CancelOrphan, StartFails, AbortEnds,
     WriteResult, Crash, Idle, Mine, Handling, Executing
<1>3. CASE PhaseMove(w)
  <2>1. tally' = tally \/ tally' = [tally EXCEPT ![w].failure = @ - 1]
    BY <1>3 DEF PhaseMove, PickNext, ClaimRun, LoadScope, RequestRun, StartManual,
       StartUnits, NextSlice, EndPass, StartRound, RetryUnit, EndRound, EndRetries, Decide,
       workVars
  <2>2. QED
    BY <2>1
<1>4. CASE DeadlinePasses(w)
  BY <1>4 DEF DeadlinePasses
<1>5. ASSUME NEW u \in Units, UnitMove(w, u) \/ FailureThrows(w, u)
      PROVE  tally' = tally \/ tally' = [tally EXCEPT ![w].failure = @ + 1]
  BY <1>5 DEF UnitMove, BeginUnit, RecordFailure, ChargeRefused, ChargeFirst, ChargeLost,
     FailureThrows
<1>6. CASE \E u \in Units : UnitMove(w, u) \/ FailureThrows(w, u)
  BY <1>5, <1>6
<1>7. QED
  BY <1>1, <1>2, <1>3, <1>4, <1>6, WorkKinds DEF WorkerMove

\* Another run's observation, or another worker's charge, is not in these books.
LEMMA AccountsKept ==
  ASSUME TypeOK, Control, Money, OneHandler, Rows, RunsEvolve, [Next]_vars,
         NEW w \in Workers, Mine(w), Mine(w)', job'[w] = job[w], Accounts(w),
         ~\E u \in Units : RecordSuccess(w, u) \/ ChargeUnit(w, u)
  PROVE  Accounts(w)'
<1>1. ASSUME NEW v \in Workers, NEW u \in Units, RecordSuccess(v, u) PROVE job[v] # job[w]
  <2>1. job[v] = job[w] => Mine(v)
    BY <1>1, WriterHolds DEF Mine
  <2>2. QED
    BY <1>1, <2>1 DEF OneHandler
<1>2. \A x : x[2] = job[w] => (x \in completed' <=> x \in completed)
  BY <1>1, CompletedMoves, NewRow
<1>3. RowsOf(completed', job[w]) = RowsOf(completed, job[w])
  BY <1>2 DEF RowsOf
<1>4. OwnKeys(job[w])' = OwnKeys(job[w])
  BY <1>3 DEF OwnKeys
<1>5. ASSUME NEW v \in Workers, NEW u \in Units, ChargeUnit(v, u)
      PROVE  KeyOf(u, job[v]) \notin OwnKeys(job[w])
  <2> DEFINE mine == <<KeyOf(u, job[v]), job[v]>>
  <2>1. mine \in completed
    BY <1>5 DEF Rows, PaysOwnRow, Paying, ChargeUnit
  <2>2. mine[1] = KeyOf(u, job[v]) /\ mine[2] = job[v]
    OBVIOUS
  <2> HIDE DEF mine
  <2>3. SUFFICES ASSUME NEW y \in completed, y[2] = job[w], y[1] = KeyOf(u, job[v])
                 PROVE  FALSE
    BY DEF OwnKeys, RowsOf
  <2>4. y = mine
    BY <2>1, <2>2, <2>3 DEF Rows, RowsUnique
  <2>5. job[v] = job[w]
    BY <2>2, <2>3, <2>4
  <2>6. Mine(v)
    BY <1>5, <2>5, WriterHolds DEF Mine
  <2>7. QED
    BY <1>5, <2>5, <2>6 DEF OneHandler
<1>6. OwnKeys(job[w]) \intersect charged' = OwnKeys(job[w]) \intersect charged
  <2>1. ASSUME NEW v \in Workers, NEW u \in Units, ChargeUnit(v, u)
        PROVE  charged' = charged \union {KeyOf(u, job[v])}
    BY <2>1 DEF ChargeUnit
  <2>2. QED
    BY <1>5, <2>1, Writers
<1>7. tally'[w].success = tally[w].success /\ tally'[w].credit = tally[w].credit
  BY TallyMoves
<1>8. QED
  BY <1>4, <1>6, <1>7 DEF Accounts

LEMMA AccountsStep ==
  ASSUME TypeOK, Control, Money, OneHandler, Rows, [Next]_vars,
         NEW w \in Workers, Accounts(w)
  PROVE  Accounts(w)'
<1> SUFFICES ASSUME Mine(w)' PROVE Accounts(w)'
  BY DEF Accounts
<1>1. RunsEvolve
  BY RunsStep
<1>2. job'[w] = job[w] /\ (Mine(w) \/ ClaimRun(w))
  BY <1>1, MineMoves
<1>3. CASE ClaimRun(w)
  <2>1. NoRows(job[w])'
    <3>1. Rows'
      BY RowsStep
    <3>2. pc'[w] = "claimed" /\ runs'[job'[w]].stamp = 0
      BY <1>3 DEF Mine, ClaimRun, TypeOK, HandTypes
    <3>3. NoRows(job[w])'
      BY <3>1, <3>2 DEF Rows, BlankStart
    <3>4. QED
      BY <3>3
  <2>2. tally'[w] = NoTally
    BY <1>3 DEF ClaimRun, Rows, BlankStart, Unstarted, workVars
  <2>3. OwnKeys(job[w])' = {}
    BY <2>1 DEF NoRows, OwnKeys
  <2>4. QED
    BY <2>2, <2>3, FS_EmptySet DEF Accounts, NoTally
<1>4. ASSUME NEW u \in Units, RecordSuccess(w, u) PROVE Accounts(w)'
  <2> DEFINE k == KeyOf(u, job[w])
             own == OwnKeys(job[w])
  <2>1. /\ k \notin Observed /\ completed' = completed \union {<<k, job[w]>>}
        /\ charged' = charged /\ job' = job
    BY <1>4 DEF RecordSuccess, moneyVars
  <2>2. tally'[w].success = tally[w].success + 1 /\ tally'[w].credit = tally[w].credit
    BY <1>4 DEF RecordSuccess, TypeOK, WorkTypes
  <2>3. Mine(w)
    BY <1>2, <1>4 DEF RecordSuccess, ClaimRun, Control, IdleHands
  <2>4. IsFiniteSet(own) /\ own \subseteq Observed
    BY OwnKeysFinite DEF Rows
  <2>5. <<k, job[w]>>[1] = k /\ <<k, job[w]>>[2] = job[w]
    OBVIOUS
  <2>6. OwnKeys(job[w])' = own \union {k}
    <3> HIDE DEF k
    <3> DEFINE new == <<k, job[w]>>
    <3>1. new[1] = k /\ new[2] = job[w] /\ completed' = completed \union {new}
      BY <2>1, <2>5
    <3> HIDE DEF new
    <3>2. RowsOf(completed', job[w]) = RowsOf(completed, job[w]) \union {new}
      BY <3>1 DEF RowsOf
    <3>3. OwnKeys(job[w])' = {row[1] : row \in RowsOf(completed', job[w])}
      BY <2>1 DEF OwnKeys
    <3>4. QED
      BY <3>1, <3>2, <3>3 DEF OwnKeys
  <2>7. k \notin own /\ k \notin charged
    BY <2>1, <2>4 DEF Money, UsageIsCharged
  <2>8. Cardinality(own \union {k}) = Cardinality(own) + 1
    BY <2>4, <2>7, FS_AddElement
  <2>9. (own \union {k}) \intersect charged = own \intersect charged
    BY <2>7
  <2>10. Accounts(w)' <=>
           /\ tally'[w].success = Cardinality(OwnKeys(job[w])')
           /\ tally'[w].credit = Cardinality(OwnKeys(job[w])' \intersect charged')
    BY DEF Accounts
  <2>11. /\ tally[w].success = Cardinality(own)
         /\ tally[w].credit = Cardinality(own \intersect charged)
    BY <2>3 DEF Accounts
  <2> HIDE DEF k, own
  <2>12. QED
    BY <2>1, <2>2, <2>6, <2>8, <2>9, <2>10, <2>11
<1>5. ASSUME NEW u \in Units, ChargeUnit(w, u) PROVE Accounts(w)'
  <2> DEFINE k == KeyOf(u, job[w])
             own == OwnKeys(job[w])
  <2>1. completed' = completed /\ charged' = charged \union {k} /\ job' = job
    BY <1>5 DEF ChargeUnit, rowVars
  <2>2. tally'[w].success = tally[w].success /\ tally'[w].credit = tally[w].credit + 1
    BY <1>5 DEF ChargeUnit, TypeOK, WorkTypes
  <2>3. Mine(w)
    BY <1>2, <1>5 DEF ChargeUnit, ClaimRun, Control, IdleHands
  <2>4. IsFiniteSet(own)
    BY OwnKeysFinite DEF Rows
  <2>5. k \in own
    <3> DEFINE mine == <<k, job[w]>>
    <3>1. mine \in completed
      BY <1>5 DEF Rows, PaysOwnRow, Paying, ChargeUnit
    <3>2. mine[1] = k /\ mine[2] = job[w]
      OBVIOUS
    <3> HIDE DEF mine, k
    <3>3. QED
      BY <3>1, <3>2 DEF OwnKeys, RowsOf
  <2>6. k \notin charged
    BY <1>1, <1>5, ChargeKeeps
  <2>7. OwnKeys(job[w])' = own
    BY <2>1 DEF OwnKeys
  <2>8. IsFiniteSet(own \intersect charged)
    BY <2>4, FS_Intersection
  <2>9. own \intersect (charged \union {k}) = (own \intersect charged) \union {k}
    BY <2>5
  <2>10. Cardinality(own \intersect (charged \union {k})) = Cardinality(own \intersect charged) + 1
    BY <2>6, <2>8, <2>9, FS_AddElement
  <2>11. Accounts(w)' <=>
           /\ tally'[w].success = Cardinality(OwnKeys(job[w])')
           /\ tally'[w].credit = Cardinality(OwnKeys(job[w])' \intersect charged')
    BY DEF Accounts
  <2>12. /\ tally[w].success = Cardinality(own)
         /\ tally[w].credit = Cardinality(own \intersect charged)
    BY <2>3 DEF Accounts
  <2> HIDE DEF k, own
  <2>13. QED
    BY <2>1, <2>2, <2>7, <2>10, <2>11, <2>12
<1>6. QED
  BY <1>1, <1>2, <1>3, <1>4, <1>5, AccountsKept

-----------------------------------------------------------------------------
(* The retry rounds.                                                        *)

LEMMA FailedGrows ==
  ASSUME [Next]_vars, NEW w \in Workers, job'[w] = job[w]
  PROVE  FailedUnits(w) \subseteq FailedUnits(w)'
<1>1. failed \subseteq failed'
  BY FailedMoves
<1>2. QED
  BY <1>1 DEF FailedUnits, RowsOf

LEMMA RetryStep ==
  ASSUME TypeOK, Control, [Next]_vars, NEW w \in Workers, RetryDiscipline(w)
  PROVE  RetryDiscipline(w)'
<1> SUFFICES ASSUME pc'[w] = "retrying" PROVE RetryDiscipline(w)'
  BY DEF RetryDiscipline
<1> USE DEF TypeOK, HandTypes, WorkTypes
\* Within the round.
<1>1. ASSUME pc[w] = "retrying", job'[w] = job[w], queue'[w] = queue[w],
             InFlight(w)' \subseteq InFlight(w)
      PROVE  RetryDiscipline(w)'
  BY <1>1, FailedGrows DEF RetryDiscipline
<1>2. CASE SameWork(w)
  <2>1. InFlight(w)' = InFlight(w)
    BY <1>2 DEF SameWork, SameHand, InFlight
  <2>2. QED
    BY <1>1, <1>2, <2>1 DEF SameWork, SameHand
<1>3. CASE IdleEnd(w)
  BY <1>3 DEF IdleEnd, ClaimedElsewhere, CancelOrphan, StartFails, AbortEnds,
     WriteResult, Crash, Idle
<1>4. CASE StartRound(w)
  <2>1. job' = job /\ queue'[w] = FailedUnits(w) /\ stage' = stage /\ pc[w] = "retry"
    BY <1>4 DEF StartRound
  <2>2. InFlight(w)' = {}
    BY <2>1 DEF InFlight, Control, IdleHands
  <2>3. QED
    BY <2>1, <2>2, FailedGrows DEF RetryDiscipline
<1>5. CASE RetryUnit(w)
  <2>1. PICK u \in queue[w] : queue'[w] = queue[w] \ {u} /\ SetStage(w, u, "begin")
    BY <1>5 DEF RetryUnit
  <2>2. InFlight(w) = {} /\ job' = job /\ pc[w] = "retrying" /\ u \in Units
    BY <1>5 DEF RetryUnit
  <2>3. InFlight(w)' = {u}
    BY <2>1, <2>2 DEF InFlight, SetStage
  <2>4. QED
    BY <2>1, <2>2, <2>3, FailedGrows DEF RetryDiscipline
<1>6. CASE DeadlinePasses(w)
  BY <1>1, <1>6 DEF DeadlinePasses, InFlight
<1>7. CASE \/ PickNext(w) \/ ClaimRun(w) \/ LoadScope(w) \/ RequestRun(w) \/ StartManual(w)
           \/ StartUnits(w) \/ EndPass(w) \/ EndRound(w) \/ EndRetries(w)
           \/ Decide(w)
  BY <1>7 DEF PickNext, ClaimRun, LoadScope, RequestRun, StartManual, StartUnits,
     EndPass, EndRound, EndRetries, Decide
<1>8. CASE NextSlice(w)
  BY <1>8 DEF NextSlice
<1>9. ASSUME NEW u \in Units, UnitMove(w, u) PROVE RetryDiscipline(w)'
  <2>1. /\ stage[w][u] \in {"begin", "call", "charge", "insert"}
        /\ \E x \in Stages : SetStage(w, u, x)
        /\ UNCHANGED <<pc, job, queue>>
    BY <1>9 DEF UnitMove, BeginUnit, RecordSuccess, RecordFailure, ChargeRefused,
       ChargeFirst, ChargeUnit, ChargeLost, Stages
  <2>2. InFlight(w)' \subseteq InFlight(w)
    BY <2>1 DEF InFlight, SetStage
  <2>3. QED
    BY <1>1, <2>1, <2>2
<1>10. ASSUME NEW u \in Units, FailureThrows(w, u) PROVE FALSE
  BY <1>10 DEF FailureThrows
<1>11. QED
  BY <1>2, <1>3, <1>4, <1>5, <1>6, <1>7, <1>8, <1>9, <1>10, WorkKinds
  DEF WorkerMove, PhaseMove

-----------------------------------------------------------------------------
(* The verdict.                                                             *)

\* A run in a worker's hands that is cancelled stays so until the worker lets go.
LEMMA CancelStays ==
  ASSUME TypeOK, Control, OneHandler, RunsEvolve, [Next]_vars, NEW w \in Workers,
         Mine(w), Mine(w)', job'[w] = job[w], CancelledNow(w)
  PROVE  CancelledNow(w)'
<1>1. SUFFICES ASSUME NEW r \in 1..created, job[w] = r
               PROVE  runs'[r].status = "CANCELLED"
  BY ControlParts DEF CancelledNow, Hand, Mine, Handling, Executing
<1>2. runs[r].status = "CANCELLED" /\ runs[r].stamp = 0 /\ r \in RunId
  BY <1>1, Sizes DEF CancelledNow, Mine, TypeOK, RunTypes, RunId, Sizes
<1>3. ASSUME NEW v \in Workers, job[v] = r, CancelOrphan(v) \/ WriteResult(v)
      PROVE  FALSE
  <2>1. Mine(v)
    BY <1>2, <1>3 DEF CancelOrphan, WriteResult, Mine, Handling, Executing
  <2>2. v = w
    BY <1>1, <1>3, <2>1 DEF OneHandler
  <2>3. pc'[v] = "idle"
    BY <1>3 DEF CancelOrphan, WriteResult, Idle, TypeOK, HandTypes
  <2>4. QED
    BY <2>2, <2>3 DEF Mine, Handling, Executing
<1>4. ASSUME NEW v \in Workers, job[v] = r, ClaimRun(v)
      PROVE  FALSE
  BY <1>2, <1>4 DEF ClaimRun
<1>5. CASE RowSteady(r)
  BY <1>2, <1>5 DEF RowSteady
<1>6. CASE CancelWrite(r)
  BY <1>2, <1>6 DEF CancelWrite, TypeOK, RunTypes, Run
<1>7. CASE GoSilent(r) \/ RecoverRun(r)
  BY <1>2, <1>7 DEF GoSilent, RecoverRun
<1>8. QED
  BY <1>2, <1>3, <1>4, <1>5, <1>6, <1>7, RowMoves

LEMMA UnseenShrinks ==
  ASSUME Control, RunsEvolve, [Next]_vars, NEW w \in Workers, Mine(w),
         job'[w] = job[w], scope'[w] = scope[w], scope[w] \subseteq Units
  PROVE  Unseen(w)' \subseteq Unseen(w)
<1>1. Hand(w) /\ pc[w] # "idle"
  BY ControlParts DEF Mine, Handling, Executing
<1>2. \A u \in Units : KeyOf(u, job[w])' = KeyOf(u, job[w])
  BY <1>1, KeyStable
<1>3. completed \subseteq completed'
  BY CompletedMoves
<1>4. Observed \subseteq Observed'
  BY <1>3 DEF Observed
<1>5. QED
  BY <1>2, <1>4 DEF Unseen

\* Steps that make nothing worse: no unit is newly lost, no failure taken back.
Harmless(w) ==
  /\ pc'[w] = pc[w] /\ queue'[w] = queue[w] /\ rounds'[w] = rounds[w]
  /\ tally'[w].failure = tally[w].failure /\ verdict'[w] = verdict[w]
  /\ expired[w] => expired'[w]
  /\ Lost(w)' \subseteq Lost(w)
  /\ pc[w] = "retrying" => Begun(w)' = Begun(w)
  /\ FailedUnits(w)' = FailedUnits(w)

LEMMA HarmlessKeeps ==
  ASSUME NEW w \in Workers, Mine(w), Honest(w), Harmless(w),
         Unseen(w)' \subseteq Unseen(w), CancelledNow(w) => CancelledNow(w)'
  PROVE  Honest(w)'
<1> USE DEF Harmless
<1>1. pc[w] = "pass" /\ ~CancelledNow(w)' => PassHonest(w)'
  BY DEF Honest, PassHonest
<1>2. pc[w] = "retry" /\ ~CancelledNow(w)' => BetweenRoundsHonest(w)'
  BY DEF Honest, BetweenRoundsHonest
<1>3. pc[w] = "retrying" /\ ~CancelledNow(w)' => RoundHonest(w)'
  <2> SUFFICES ASSUME pc[w] = "retrying", ~CancelledNow(w)' PROVE RoundHonest(w)'
    OBVIOUS
  <2>1. RoundHonest(w) /\ Begun(w)' = Begun(w)
    BY DEF Honest
  <2>2. Balance(w)' = Balance(w)
    BY <2>1 DEF Balance
  <2>3. Lost(w)' # {} \/ Begun(w)' \intersect Unseen(w)' # {} => Balance(w)' > 0
    BY <2>1, <2>2 DEF RoundHonest
  <2>4. QED
    BY <2>1, <2>3 DEF RoundHonest
<1>4. pc[w] = "finish" /\ ~CancelledNow(w)' =>
        (Unseen(w)' # {} => tally'[w].failure > 0)
  BY DEF Honest
<1>5. pc[w] = "write" /\ verdict[w] = "COMPLETED" => Unseen(w)' = {}
  BY DEF Honest
<1>6. QED
  BY <1>1, <1>2, <1>3, <1>4, <1>5 DEF Honest

LEMMA FailedFinite ==
  ASSUME TypeOK, NEW w \in Workers
  PROVE  /\ FailedUnits(w) \subseteq Units /\ IsFiniteSet(FailedUnits(w))
         /\ Cardinality(FailedUnits(w)) \in Nat
         /\ FailedUnits(w) # {} => Cardinality(FailedUnits(w)) > 0
<1>1. FailedUnits(w) \subseteq Units
  BY DEF FailedUnits, RowsOf, TypeOK, RowTypes, Row, Key
<1>2. IsFiniteSet(FailedUnits(w))
  BY <1>1, FS_Subset, Shapes DEF Shapes
<1>3. QED
  BY <1>1, <1>2, FS_CardinalityType, FS_EmptySet

LEMMA QueueFinite ==
  ASSUME TypeOK, NEW w \in Workers
  PROVE  /\ IsFiniteSet(queue[w]) /\ Cardinality(queue[w]) \in Nat
         /\ queue[w] # {} => Cardinality(queue[w]) > 0
<1>1. queue[w] \subseteq Units
  BY DEF TypeOK, WorkTypes
<1>2. IsFiniteSet(queue[w])
  BY <1>1, FS_Subset, Shapes DEF Shapes
<1>3. QED
  BY <1>2, FS_CardinalityType, FS_EmptySet

LEMMA OneLess ==
  ASSUME NEW S, IsFiniteSet(S), NEW x, x \in S
  PROVE  Cardinality(S \ {x}) = Cardinality(S) - 1
BY FS_RemoveElement

\* The phases of a run, each from the one before.
LEMMA StartHonest ==
  ASSUME TypeOK, Control, Rows, NEW w \in Workers, Mine(w), StartUnits(w),
         job'[w] = job[w], FailedUnits(w)' = FailedUnits(w)
  PROVE  Honest(w)'
<1>1. pc[w] = "starting" /\ pc'[w] = "pass" /\ tally'[w] = NoTally
  BY DEF StartUnits, TypeOK, HandTypes, Rows, BlankStart, Unstarted
<1>2. FailedUnits(w) = {}
  BY <1>1 DEF Mine, Rows, BlankStart, NoRows, FailedUnits
<1>3. Lost(w)' = {}
  BY DEF StartUnits, Lost, Unseen, TypeOK, WorkTypes
<1>4. Cardinality(FailedUnits(w)') = 0
  BY <1>2, FS_EmptySet
<1>5. PassHonest(w)'
  BY <1>1, <1>3, <1>4 DEF PassHonest, NoTally
<1>6. QED
  BY <1>1, <1>5 DEF Honest

LEMMA EndPassHonest ==
  ASSUME TypeOK, Rows, NEW w \in Workers, Mine(w), Honest(w), EndPass(w),
         FailedUnits(w)' = FailedUnits(w), Unseen(w)' \subseteq Unseen(w),
         CancelledNow(w) => CancelledNow(w)'
  PROVE  Honest(w)'
<1> USE DEF TypeOK, HandTypes, WorkTypes
<1>1. pc[w] = "pass" /\ pc'[w] = "retry" /\ rounds[w] = 0 /\ InFlight(w) = {}
      /\ tally' = tally /\ expired' = expired /\ rounds' = rounds
  BY DEF EndPass, Rows, BlankStart
<1>2. SUFFICES ASSUME ~CancelledNow(w)' PROVE BetweenRoundsHonest(w)'
  BY <1>1 DEF Honest
<1>3. PassHonest(w) /\ Todo(w) = {}
  BY <1>1, <1>2 DEF Honest, EndPass
<1>4. \A u \in Units : stage[w][u] = "out"
  BY <1>1, <1>3 DEF Todo, InFlight, Stages
<1>5. Lost(w) = Unseen(w)
  BY <1>4 DEF Lost, Unseen
<1>6. QED
  BY <1>1, <1>3, <1>5 DEF PassHonest, BetweenRoundsHonest

LEMMA StartRoundHonest ==
  ASSUME TypeOK, Control, NEW w \in Workers, Mine(w), Honest(w), StartRound(w),
         FailedUnits(w)' = FailedUnits(w), Unseen(w)' \subseteq Unseen(w),
         CancelledNow(w) => CancelledNow(w)'
  PROVE  Honest(w)'
<1> USE DEF TypeOK, HandTypes, WorkTypes
<1>1. /\ pc[w] = "retry" /\ pc'[w] = "retrying" /\ ~CancelledNow(w)
      /\ tally' = tally /\ expired' = expired /\ stage' = stage
      /\ queue'[w] = FailedUnits(w) /\ rounds'[w] = rounds[w] + 1
  BY DEF StartRound
<1>2. BetweenRoundsHonest(w) /\ rounds[w] \in Nat
  BY <1>1, Sizes DEF Honest, Sizes
<1>3. Lost(w)' \subseteq Unseen(w) /\ Begun(w)' = {}
  BY <1>1 DEF Lost, Begun, Control, IdleHands
<1>4. Balance(w)' = tally[w].failure
  BY <1>1, <1>3 DEF Balance
<1>5. RoundHonest(w)'
  <2>1. Lost(w)' # {} \/ Begun(w)' \intersect Unseen(w)' # {} => Balance(w)' > 0
    BY <1>2, <1>3, <1>4 DEF BetweenRoundsHonest
  <2>2. rounds'[w] # 0
    BY <1>1, <1>2
  <2>3. ~expired'[w] /\ rounds'[w] = 1 =>
          /\ Lost(w)' \subseteq queue'[w]
          /\ tally'[w].failure >= Cardinality(queue'[w])
    <3>1. rounds'[w] = 1 => rounds[w] = 0
      BY <1>1, <1>2
    <3>2. QED
      BY <1>1, <1>2, <1>3, <3>1 DEF BetweenRoundsHonest
  <2>4. ~expired'[w] /\ rounds'[w] > 1 => Unseen(w)' = {}
    <3>1. rounds'[w] > 1 => rounds[w] # 0
      BY <1>1, <1>2
    <3>2. QED
      BY <1>1, <1>2, <3>1 DEF BetweenRoundsHonest
  <2>5. QED
    BY <2>1, <2>2, <2>3, <2>4 DEF RoundHonest
<1>6. QED
  BY <1>1, <1>5 DEF Honest

LEMMA RetryUnitHonest ==
  ASSUME TypeOK, Control, NEW w \in Workers, Mine(w), Honest(w), RetryUnit(w),
         Unseen(w)' \subseteq Unseen(w)
  PROVE  Honest(w)'
<1> USE DEF TypeOK, HandTypes, WorkTypes
<1>1. PICK u \in queue[w] : queue'[w] = queue[w] \ {u} /\ SetStage(w, u, "begin")
  BY DEF RetryUnit
<1>2. /\ pc[w] = "retrying" /\ pc'[w] = "retrying" /\ ~CancelledNow(w) /\ InFlight(w) = {}
      /\ tally'[w].failure = tally[w].failure - 1
      /\ expired' = expired /\ rounds' = rounds /\ u \in Units
  BY DEF RetryUnit
<1>3. RoundHonest(w)
  BY <1>2 DEF Honest
<1>4. Begun(w) = {} /\ Begun(w)' = {u}
  BY <1>1, <1>2 DEF Begun, InFlight, SetStage
<1>5. tally[w].failure \in Int /\ Balance(w) = tally[w].failure
      /\ Balance(w)' = tally[w].failure
  <2>1. tally[w].failure \in Int
    OBVIOUS
  <2>2. Begun(w)' # {} /\ Balance(w)' = tally'[w].failure + 1
    BY <1>4 DEF Balance
  <2>3. Balance(w) = tally[w].failure
    BY <1>4, <2>1 DEF Balance
  <2>4. QED
    BY <1>2, <2>1, <2>2, <2>3
<1>6. stage[w][u] = "out"
  BY <1>2 DEF InFlight, Stages, Control, IdleHands
<1>7. Lost(w)' \subseteq Lost(w) \ {u}
  BY <1>1, <1>2 DEF Lost, SetStage
<1>8. u \in Unseen(w) => u \in Lost(w)
  BY <1>6 DEF Lost
<1>9. Lost(w)' # {} \/ Begun(w)' \intersect Unseen(w)' # {} => Balance(w)' > 0
  BY <1>3, <1>4, <1>5, <1>7, <1>8 DEF RoundHonest
<1>10. ~expired'[w] /\ rounds'[w] = 1 =>
         /\ Lost(w)' \subseteq queue'[w]
         /\ tally'[w].failure >= Cardinality(queue'[w])
  <2> SUFFICES ASSUME ~expired'[w], rounds'[w] = 1
               PROVE  /\ Lost(w)' \subseteq queue'[w]
                      /\ tally'[w].failure >= Cardinality(queue'[w])
    OBVIOUS
  <2>1. Lost(w) \subseteq queue[w] /\ tally[w].failure >= Cardinality(queue[w])
    BY <1>2, <1>3 DEF RoundHonest
  <2>2. Cardinality(queue'[w]) = Cardinality(queue[w]) - 1
    <3>1. IsFiniteSet(queue[w]) /\ u \in queue[w]
      BY QueueFinite
    <3>2. Cardinality(queue[w] \ {u}) = Cardinality(queue[w]) - 1
      BY <3>1, OneLess
    <3>3. QED
      BY <1>1, <3>2
  <2>3. Cardinality(queue[w]) \in Nat
    BY QueueFinite
  <2>4. QED
    BY <1>1, <1>2, <1>5, <1>7, <2>1, <2>2, <2>3
<1>11. ~expired'[w] /\ rounds'[w] > 1 => Unseen(w)' = {}
  BY <1>2, <1>3 DEF RoundHonest
<1>12. RoundHonest(w)'
  BY <1>2, <1>3, <1>9, <1>10, <1>11 DEF RoundHonest
<1>13. QED
  BY <1>2, <1>12 DEF Honest

LEMMA EndRoundHonest ==
  ASSUME TypeOK, Control, NEW w \in Workers, Mine(w), Honest(w), EndRound(w),
         Unseen(w)' \subseteq Unseen(w), CancelledNow(w) => CancelledNow(w)'
  PROVE  Honest(w)'
<1> USE DEF TypeOK, HandTypes, WorkTypes
<1>1. /\ pc[w] = "retrying" /\ pc'[w] = "retry" /\ InFlight(w) = {}
      /\ queue[w] = {} \/ CancelledNow(w)
      /\ tally' = tally /\ expired' = expired /\ rounds' = rounds
  BY DEF EndRound
<1>2. SUFFICES ASSUME ~CancelledNow(w)' PROVE BetweenRoundsHonest(w)'
  BY <1>1 DEF Honest
<1>3. RoundHonest(w) /\ queue[w] = {}
  BY <1>1, <1>2 DEF Honest
<1>4. Begun(w) = {} /\ Lost(w) = Unseen(w)
  BY <1>1 DEF Begun, Lost, Unseen, InFlight, Stages, Control, IdleHands
<1>5. tally[w].failure \in Int /\ Balance(w) = tally[w].failure
  BY <1>4 DEF Balance
<1>6. Unseen(w)' # {} => tally'[w].failure > 0
  BY <1>1, <1>3, <1>4, <1>5 DEF RoundHonest
<1>7. ~expired'[w] /\ rounds'[w] # 0 => Unseen(w)' = {}
  <2>1. rounds[w] \in Nat /\ (rounds[w] # 0 => rounds[w] = 1 \/ rounds[w] > 1)
    BY Sizes DEF Sizes
  <2>2. QED
    BY <1>1, <1>3, <1>4, <2>1 DEF RoundHonest
<1>8. QED
  BY <1>1, <1>3, <1>6, <1>7 DEF RoundHonest, BetweenRoundsHonest

LEMMA FinishHonest ==
  ASSUME TypeOK, NEW w \in Workers, Mine(w), Honest(w), EndRetries(w) \/ Decide(w),
         Unseen(w)' \subseteq Unseen(w), CancelledNow(w) => CancelledNow(w)'
  PROVE  Honest(w)'
<1> USE DEF TypeOK, HandTypes, WorkTypes
<1>1. CASE EndRetries(w)
  BY <1>1 DEF EndRetries, Honest, BetweenRoundsHonest, workVars
<1>2. CASE Decide(w)
  <2>1. /\ pc[w] = "finish" /\ pc'[w] = "write"
        /\ verdict'[w] = IF CancelledNow(w) THEN "CANCELLED"
                         ELSE RunStatusFor(tally[w].success, tally[w].failure)
    BY <1>2 DEF Decide
  <2>2. verdict'[w] = "COMPLETED" => ~CancelledNow(w) /\ tally[w].failure = 0
    BY <2>1 DEF RunStatusFor
  <2>3. QED
    BY <2>1, <2>2 DEF Honest
<1>3. QED
  BY <1>1, <1>2

LEMMA RecordFailureHonest ==
  ASSUME TypeOK, Control, Rows, NEW w \in Workers, RetryDiscipline(w), Mine(w), Honest(w),
         NEW u \in Units, RecordFailure(w, u),
         Unseen(w)' \subseteq Unseen(w), CancelledNow(w) => CancelledNow(w)'
  PROVE  Honest(w)'
<1> USE DEF TypeOK, HandTypes, WorkTypes
<1>1. /\ stage[w][u] = "call" /\ KeyOf(u, job[w]) \notin Attempted /\ SetStage(w, u, "out")
      /\ failed' = failed \union {<<KeyOf(u, job[w]), job[w]>>}
      /\ tally'[w].failure = tally[w].failure + 1
      /\ UNCHANGED <<pc, job, expired>>
  BY DEF RecordFailure
<1>2. pc[w] # "retrying"
  <2> SUFFICES ASSUME pc[w] = "retrying" PROVE FALSE
    OBVIOUS
  <2>1. u \in FailedUnits(w)
    BY <1>1 DEF RetryDiscipline, InFlight
  <2>2. PICK row \in failed : row[2] = job[w] /\ row[1][1] = u
    BY <2>1 DEF FailedUnits, RowsOf
  <2>3. row[1] = KeyOf(u, job[w])
    BY <2>2 DEF Rows, RowsNamed
  <2>4. QED
    BY <1>1, <2>2, <2>3 DEF Attempted
<1>3. pc[w] \in {"pass", "aborted"} /\ pc'[w] = pc[w]
  BY <1>1, <1>2, HoldsUnit
<1>4. SUFFICES ASSUME pc[w] = "pass", ~CancelledNow(w)' PROVE PassHonest(w)'
  BY <1>3 DEF Honest
<1>5. PassHonest(w)
  BY <1>4 DEF Honest
<1>6. FailedUnits(w)' = FailedUnits(w) \union {u}
  <2> DEFINE new == <<KeyOf(u, job[w]), job[w]>>
  <2>1. new[2] = job[w] /\ new[1][1] = u
    BY DEF KeyOf
  <2>2. failed' = failed \union {new}
    BY <1>1
  <2> HIDE DEF new
  <2>3. RowsOf(failed', job[w]) = RowsOf(failed, job[w]) \union {new}
    BY <2>1, <2>2 DEF RowsOf
  <2>4. FailedUnits(w)' = {row[1][1] : row \in RowsOf(failed', job[w])}
    BY <1>1 DEF FailedUnits
  <2>5. QED
    BY <2>1, <2>3, <2>4 DEF FailedUnits
<1>7. Lost(w)' \subseteq Lost(w) \union {u}
  BY <1>1 DEF Lost, SetStage, Unseen
<1>8. /\ Cardinality(FailedUnits(w)) \in Nat /\ Cardinality(FailedUnits(w)') \in Nat
      /\ Cardinality(FailedUnits(w)') <= Cardinality(FailedUnits(w)) + 1
  <2>1. IsFiniteSet(FailedUnits(w)) /\ Cardinality(FailedUnits(w)) \in Nat
    BY FailedFinite
  <2>2. Cardinality(FailedUnits(w) \union {u}) =
          IF u \in FailedUnits(w) THEN Cardinality(FailedUnits(w))
                                 ELSE Cardinality(FailedUnits(w)) + 1
    BY <2>1, FS_AddElement
  <2>3. QED
    BY <1>6, <2>1, <2>2
<1>9. tally[w].failure \in Int
  OBVIOUS
<1>10. tally'[w].failure > 0
  BY <1>1, <1>5, <1>9 DEF PassHonest
<1>11. ~expired'[w] => /\ Lost(w)' \subseteq FailedUnits(w)'
                       /\ tally'[w].failure >= Cardinality(FailedUnits(w)')
  BY <1>1, <1>5, <1>6, <1>7, <1>8, <1>9 DEF PassHonest
<1>12. QED
  BY <1>9, <1>10, <1>11, <1>1 DEF PassHonest

LEMMA BeginUnitHonest ==
  ASSUME TypeOK, Control, NEW w \in Workers, RetryDiscipline(w), Mine(w), Honest(w),
         NEW u \in Units, BeginUnit(w, u), FailedUnits(w)' = FailedUnits(w),
         Unseen(w)' \subseteq Unseen(w), CancelledNow(w) => CancelledNow(w)'
  PROVE  Honest(w)'
<1> USE DEF TypeOK, HandTypes, WorkTypes
<1>1. /\ stage[w][u] = "begin" /\ pc' = pc /\ queue' = queue /\ rounds' = rounds
      /\ expired' = expired /\ verdict' = verdict /\ tally[w].failure \in Int
  BY DEF BeginUnit
<1>2. pc[w] \in {"pass", "retrying", "aborted"}
  BY <1>1, HoldsUnit
<1>3. CASE pc[w] = "aborted"
  BY <1>1, <1>3 DEF Honest
\* The deadline has passed: a failure is counted and the unit left behind.
<1>4. ASSUME expired[w], tally'[w].failure = tally[w].failure + 1, SetStage(w, u, "out")
      PROVE  Honest(w)'
  <2>1. Lost(w)' \subseteq Lost(w) \union {u}
    BY <1>4 DEF Lost, SetStage, Unseen
  <2>2. CASE pc[w] = "pass"
    <3>1. SUFFICES ASSUME ~CancelledNow(w)' PROVE PassHonest(w)'
      BY <1>1, <2>2 DEF Honest
    <3>2. PassHonest(w)
      BY <2>2, <3>1 DEF Honest
    <3>3. QED
      BY <1>1, <1>4, <3>2 DEF PassHonest
  <2>3. CASE pc[w] = "retrying"
    <3>1. SUFFICES ASSUME ~CancelledNow(w)' PROVE RoundHonest(w)'
      BY <1>1, <2>3 DEF Honest
    <3>2. RoundHonest(w)
      BY <2>3, <3>1 DEF Honest
    <3>3. u \in Begun(w) /\ Begun(w)' = {}
      BY <1>1, <1>4, <2>3 DEF Begun, RetryDiscipline, InFlight, SetStage
    <3>4. Balance(w)' = Balance(w)
      BY <1>1, <1>4, <3>3 DEF Balance
    <3>5. Lost(w)' # {} => Lost(w) # {} \/ Begun(w) \intersect Unseen(w) # {}
      <4>1. Lost(w)' \subseteq Unseen(w)
        BY DEF Lost
      <4>2. QED
        BY <2>1, <3>3, <4>1
    <3>6. Lost(w)' # {} \/ Begun(w)' \intersect Unseen(w)' # {} => Balance(w)' > 0
      BY <3>2, <3>3, <3>4, <3>5 DEF RoundHonest
    <3>7. QED
      BY <1>1, <1>4, <3>2, <3>6 DEF RoundHonest
  <2>4. QED
    BY <1>2, <1>3, <2>2, <2>3
\* It has not: the unit is found observed, or is about to be attempted.
<1>5. ASSUME ~expired[w], tally' = tally,
             \/ SetStage(w, u, "out") /\ KeyOf(u, job[w]) \in Observed
             \/ SetStage(w, u, "call")
      PROVE  Honest(w)'
  <2>1. Lost(w)' \subseteq Lost(w)
    <3>1. KeyOf(u, job[w]) \in Observed => u \notin Unseen(w)'
      BY DEF Unseen
    <3>2. SUFFICES ASSUME NEW x \in Units, x \in Unseen(w)', stage'[w][x] = "out"
                   PROVE  x \in Unseen(w) /\ stage[w][x] = "out"
      BY DEF Lost, Unseen
    <3>3. x # u
      BY <1>5, <3>1, <3>2 DEF SetStage
    <3>4. QED
      BY <1>5, <3>2, <3>3 DEF SetStage
  <2>2. CASE pc[w] = "pass"
    <3>1. Harmless(w)
      BY <1>1, <1>5, <2>1, <2>2 DEF Harmless
    <3>2. QED
      BY <3>1, HarmlessKeeps
  <2>3. CASE pc[w] = "retrying"
    <3>1. SUFFICES ASSUME ~CancelledNow(w)' PROVE RoundHonest(w)'
      BY <1>1, <2>3 DEF Honest
    <3>2. RoundHonest(w)
      BY <2>3, <3>1 DEF Honest
    <3>3. Begun(w)' = {}
      BY <1>1, <1>5, <2>3 DEF Begun, RetryDiscipline, InFlight, SetStage
    <3>4. Balance(w)' = tally[w].failure
      BY <1>1, <1>5, <3>3 DEF Balance
    <3>5. Lost(w) # {} => tally[w].failure > 0
      <4>1. Lost(w) \subseteq Unseen(w)
        BY DEF Lost
      <4>2. rounds[w] = 1 \/ rounds[w] > 1
        BY <3>2, Sizes DEF RoundHonest, Sizes
      <4>3. QED
        BY <1>1, <1>5, <3>2, <4>1, <4>2, QueueFinite DEF RoundHonest
    <3>6. QED
      BY <1>1, <1>5, <2>1, <3>2, <3>3, <3>4, <3>5 DEF RoundHonest
  <2>4. QED
    BY <1>2, <1>3, <2>2, <2>3
<1>6. QED
  BY <1>4, <1>5 DEF BeginUnit

LEMMA HonestStep ==
  ASSUME TypeOK, Control, Money, OneHandler, Rows, [Next]_vars,
         NEW w \in Workers, RetryDiscipline(w), Honest(w)
  PROVE  Honest(w)'
<1> SUFFICES ASSUME Mine(w)' PROVE Honest(w)'
  BY DEF Honest
<1>1. RunsEvolve
  BY RunsStep
<1>2. job'[w] = job[w] /\ (Mine(w) \/ ClaimRun(w))
  BY <1>1, MineMoves
<1>3. CASE ClaimRun(w)
  BY <1>3 DEF ClaimRun, Honest, TypeOK, HandTypes
<1>4. SUFFICES ASSUME Mine(w) PROVE Honest(w)'
  BY <1>2, <1>3
<1>5. CancelledNow(w) => CancelledNow(w)'
  BY <1>1, <1>2, <1>4, CancelStays
<1>6. scope'[w] = scope[w] => Unseen(w)' \subseteq Unseen(w)
  BY <1>1, <1>2, <1>4, UnseenShrinks DEF TypeOK, WorkTypes
<1>7. ASSUME ~\E u \in Units : RecordSuccess(w, u) \/ RecordFailure(w, u)
      PROVE  FailedUnits(w)' = FailedUnits(w)
  <2>1. RowsOf(failed', job[w]) = RowsOf(failed, job[w])
    BY <1>4, <1>7, RowsKept
  <2>2. QED
    BY <1>2, <2>1 DEF FailedUnits
<1> USE DEF TypeOK, HandTypes, WorkTypes
<1>8. ASSUME UNCHANGED <<stage, completed, failed>> \/ SameWork(w) \/ PhaseMove(w)
             \/ DeadlinePasses(w), NEW u \in Units, RecordFailure(w, u) \/ RecordSuccess(w, u)
      PROVE  FALSE
  BY <1>8 DEF RecordFailure, RecordSuccess, SetStage, SameWork, SameHand, PhaseMove,
     DeadlinePasses, PickNext, ClaimRun, LoadScope, RequestRun, StartManual, StartUnits,
     NextSlice, EndPass, StartRound, RetryUnit, EndRound, EndRetries, Decide, rowVars
<1>9. CASE SameWork(w)
  <2>1. FailedUnits(w)' = FailedUnits(w)
    BY <1>7, <1>8, <1>9
  <2>2. Unseen(w)' \subseteq Unseen(w)
    BY <1>6, <1>9 DEF SameWork
  <2>3. Harmless(w)
    BY <1>9, <2>1, <2>2 DEF SameWork, SameHand, Harmless, Lost, Begun
  <2>4. QED
    BY <1>4, <1>5, <2>2, <2>3, HarmlessKeeps
<1>10. CASE IdleEnd(w)
  BY <1>10 DEF IdleEnd, ClaimedElsewhere, CancelOrphan, StartFails, AbortEnds,
     WriteResult, Crash, Idle, Mine, Handling, Executing
<1>11. CASE PickNext(w) \/ LoadScope(w) \/ RequestRun(w) \/ StartManual(w)
  BY <1>11 DEF PickNext, LoadScope, RequestRun, StartManual, Honest
<1>12. CASE DeadlinePasses(w)
  <2>1. FailedUnits(w)' = FailedUnits(w)
    BY <1>7, <1>8, <1>12
  <2>2. UNCHANGED <<pc, job, scope, stage, queue, rounds, tally, verdict>>
        /\ expired'[w]
    BY <1>12 DEF DeadlinePasses
  <2>3. Unseen(w)' \subseteq Unseen(w)
    BY <1>6, <2>2
  <2>4. Harmless(w)
    BY <2>1, <2>2, <2>3 DEF Harmless, Lost, Begun
  <2>5. QED
    BY <1>4, <1>5, <2>3, <2>4, HarmlessKeeps
<1>13. CASE NextSlice(w)
  <2>1. FailedUnits(w)' = FailedUnits(w)
    BY <1>7, <1>8, <1>13 DEF PhaseMove
  <2>2. UNCHANGED <<pc, job, scope, queue, rounds, tally, expired, verdict>> /\ pc[w] = "pass"
    BY <1>13 DEF NextSlice
  <2>3. Unseen(w)' \subseteq Unseen(w)
    BY <1>6, <2>2
  <2>4. \A u \in Units : stage'[w][u] = "out" => stage[w][u] = "out"
    BY <1>13 DEF NextSlice
  <2>5. Lost(w)' \subseteq Lost(w)
    BY <2>2, <2>3, <2>4 DEF Lost, Unseen
  <2>6. Harmless(w)
    BY <2>1, <2>2, <2>5 DEF Harmless
  <2>7. QED
    BY <1>4, <1>5, <2>3, <2>6, HarmlessKeeps
<1>14. CASE StartUnits(w) \/ EndPass(w) \/ StartRound(w) \/ RetryUnit(w) \/ EndRound(w)
            \/ EndRetries(w) \/ Decide(w)
  <2>1. FailedUnits(w)' = FailedUnits(w)
    BY <1>7, <1>8, <1>14 DEF PhaseMove
  <2>2. Unseen(w)' \subseteq Unseen(w)
    BY <1>6, <1>14 DEF StartUnits, EndPass, StartRound, RetryUnit, EndRound, EndRetries,
       Decide, workVars
  <2>3. QED
    BY <1>2, <1>4, <1>5, <1>14, <2>1, <2>2, StartHonest, EndPassHonest, StartRoundHonest,
       RetryUnitHonest, EndRoundHonest, FinishHonest
<1>15. ASSUME NEW u \in Units, UnitMove(w, u) PROVE Honest(w)'
  <2>1. Unseen(w)' \subseteq Unseen(w)
    BY <1>6, <1>15 DEF UnitMove, BeginUnit, RecordSuccess, RecordFailure, ChargeRefused,
       ChargeFirst, ChargeUnit, ChargeLost
  <2>2. CASE BeginUnit(w, u)
    <3>1. UNCHANGED <<completed, failed>>
      BY <2>2 DEF BeginUnit, rowVars
    <3>2. FailedUnits(w)' = FailedUnits(w)
      BY <1>2, <3>1 DEF FailedUnits
    <3>3. QED
      BY <1>4, <1>5, <2>1, <2>2, <3>2, BeginUnitHonest
  <2>3. CASE RecordFailure(w, u)
    BY <1>4, <1>5, <2>1, <2>3, RecordFailureHonest
  <2>4. CASE RecordSuccess(w, u) \/ ChargeRefused(w, u) \/ ChargeFirst(w, u)
             \/ ChargeUnit(w, u) \/ ChargeLost(w, u)
    <3>1. /\ UNCHANGED <<failed, pc, queue, rounds, verdict, expired>>
          /\ tally'[w].failure = tally[w].failure
      BY <2>4 DEF RecordSuccess, ChargeRefused, ChargeFirst, ChargeUnit, ChargeLost, rowVars
    <3>2. FailedUnits(w)' = FailedUnits(w)
      BY <1>2, <3>1 DEF FailedUnits
    <3>3. /\ \/ SetStage(w, u, "charge") \/ SetStage(w, u, "insert")
             \/ SetStage(w, u, "out") /\ Paying(w, u)
          /\ stage[w][u] # "begin"
      BY <2>4 DEF RecordSuccess, ChargeRefused, ChargeFirst, ChargeUnit, ChargeLost, Paying
    <3>4. Paying(w, u) => u \notin Unseen(w)
      BY DEF Money, PendingChargesDistinct, Unseen
    <3>5. Lost(w)' \subseteq Lost(w)
      <4>1. SUFFICES ASSUME NEW x \in Units, x \in Unseen(w)', stage'[w][x] = "out"
                     PROVE  x \in Unseen(w) /\ stage[w][x] = "out"
        BY <2>1 DEF Lost, Unseen
      <4>2. PICK y : SetStage(w, u, y) /\ (y = "out" => Paying(w, u)) /\ y \in Stages
        BY <3>3 DEF Stages
      <4>3. x # u
        <5>1. stage'[w][u] = y
          BY <4>2 DEF SetStage
        <5>2. QED
          BY <2>1, <3>4, <4>1, <4>2, <5>1
      <4>4. stage'[w][x] = stage[w][x]
        BY <4>2, <4>3 DEF SetStage
      <4>5. QED
        BY <2>1, <4>1, <4>4
    <3>6. Begun(w)' = Begun(w)
      BY <3>3 DEF Begun, SetStage
    <3>7. Harmless(w)
      BY <3>1, <3>2, <3>5, <3>6 DEF Harmless
    <3>8. QED
      BY <1>4, <1>5, <2>1, <3>7, HarmlessKeeps
  <2>5. QED
    BY <1>15, <2>2, <2>3, <2>4 DEF UnitMove
<1>16. ASSUME NEW u \in Units, FailureThrows(w, u) PROVE Honest(w)'
  BY <1>16 DEF FailureThrows, Honest
<1>17. QED
  BY <1>2, <1>3, <1>9, <1>10, <1>11, <1>12, <1>13, <1>14, <1>15, <1>16, WorkKinds
  DEF WorkerMove, PhaseMove

-----------------------------------------------------------------------------
(* Recovery.                                                                *)

LEMMA RecoveringMoves ==
  ASSUME [Next]_vars
  PROVE  \/ UNCHANGED recovering
         \/ RecoverScan
         \/ \E r \in RunId : RecoverRun(r)
<1>1. ASSUME NEW w \in Workers, WorkerMove(w) PROVE UNCHANGED recovering
  <2>1. CASE IdleEnd(w) \/ DeadlinePasses(w)
    BY <2>1 DEF IdleEnd, ClaimedElsewhere, CancelOrphan, StartFails, AbortEnds,
       WriteResult, Crash, DeadlinePasses, pendingVars
  <2>2. CASE PhaseMove(w)
    BY <2>2 DEF PhaseMove, PickNext, ClaimRun, LoadScope, RequestRun, StartManual,
       StartUnits, NextSlice, EndPass, StartRound, RetryUnit, EndRound, EndRetries,
       Decide, pendingVars
  <2>3. ASSUME NEW u \in Units, UnitMove(w, u) \/ FailureThrows(w, u)
        PROVE  UNCHANGED recovering
    BY <2>3 DEF UnitMove, BeginUnit, RecordSuccess, RecordFailure, ChargeRefused,
       ChargeFirst, ChargeUnit, ChargeLost, FailureThrows, pendingVars
  <2>4. QED
    BY <1>1, <2>1, <2>2, <2>3 DEF WorkerMove
<1>2. ASSUME NEW t \in Ticks, TickStep(t) \/ CrashTick(t) PROVE UNCHANGED recovering
  BY <1>2 DEF TickStep, TickScan, TickDeactivate, TickCreate, TickAdvance, CrashTick,
     pendingVars
<1>3. ASSUME NEW s \in Schedules, SetScheduleActive(s) \/ DeleteSchedule(s)
      PROVE  UNCHANGED recovering
  BY <1>3 DEF SetScheduleActive, DeleteSchedule, pendingVars
<1>4. ASSUME NEW r \in RunId, CancelRead(r) \/ CancelWrite(r) \/ GoSilent(r)
      PROVE  UNCHANGED recovering
  BY <1>4 DEF CancelRead, CancelWrite, GoSilent, pendingVars
<1>5. CASE AdvanceWindow \/ SetSiteActive \/ UNCHANGED vars
  BY <1>5 DEF AdvanceWindow, SetSiteActive, vars, pendingVars
<1>6. ASSUME NEW w \in Workers,
             WorkerStep(w) \/ RequestRun(w) \/ DeadlinePasses(w) \/ Crash(w)
      PROVE  WorkerMove(w)
  BY <1>6 DEF WorkerStep, UnitStep, WorkerMove, IdleEnd, PhaseMove, UnitMove
<1>7. QED
  BY <1>1, <1>2, <1>3, <1>4, <1>5, <1>6 DEF Next, UserStep, FaultStep, RecoverStep

\* A scheduled run gets a worker by a claim only.
LEMMA AttendedMoves ==
  ASSUME TypeOK, Control, [Next]_vars, NEW r \in RunId, Attended(r)', runs'[r].stamp = 0
  PROVE  Attended(r) \/ \E w \in Workers : ClaimRun(w) /\ job[w] = r
<1>1. RunsEvolve
  BY RunsStep
<1>2. PICK w \in Workers : job'[w] = r /\ pc'[w] \in Executing
  BY DEF Attended
<1>3. Mine(w)'
  BY <1>2 DEF Mine, Handling
<1>4. job'[w] = job[w] /\ (Mine(w) \/ ClaimRun(w))
  BY <1>1, <1>3, MineMoves
<1>5. CASE pc[w] = "aborted"
  <2>1. pc'[w] \notin Executing
    <3>1. CASE SameWork(w)
      BY <1>5, <3>1 DEF SameWork, SameHand, Executing
    <3>2. CASE IdleEnd(w)
      BY <3>2 DEF IdleEnd, ClaimedElsewhere, CancelOrphan, StartFails, AbortEnds,
         WriteResult, Crash, Idle, Executing, TypeOK, HandTypes
    <3>3. CASE PhaseMove(w) \/ DeadlinePasses(w)
      BY <1>5, <3>3 DEF PhaseMove, PickNext, ClaimRun, LoadScope, RequestRun,
         StartManual, StartUnits, NextSlice, EndPass, StartRound, RetryUnit, EndRound,
         EndRetries, Decide, DeadlinePasses
    <3>4. ASSUME NEW u \in Units, UnitMove(w, u) \/ FailureThrows(w, u)
          PROVE  pc' = pc \/ pc'[w] = "aborted"
      BY <3>4 DEF UnitMove, BeginUnit, RecordSuccess, RecordFailure, ChargeRefused,
         ChargeFirst, ChargeUnit, ChargeLost, FailureThrows, TypeOK, HandTypes
    <3>5. QED
      BY <1>5, <3>1, <3>2, <3>3, <3>4, WorkKinds DEF WorkerMove, Executing
  <2>2. QED
    BY <1>2, <2>1
<1>6. QED
  BY <1>2, <1>4, <1>5 DEF Attended, Mine, Handling

LEMMA RecoveringStep ==
  ASSUME TypeOK, Control, SparesLive, [Next]_vars
  PROVE  recovering' \subseteq 1..created'
<1>1. 1..created \subseteq 1..created'
  BY RunsStep DEF RunsEvolve, TypeOK, RunTypes
<1>2. RecoverScan => recovering' \subseteq 1..created
  BY Sizes DEF RecoverScan, StaleRuns, Control, JobsExist, TypeOK, RunTypes, RunId, Sizes
<1>3. ~RecoverScan => recovering' \subseteq recovering
  BY RecoveringMoves DEF RecoverRun
<1>4. QED
  BY <1>1, <1>2, <1>3 DEF SparesLive

LEMMA SparesLiveStep ==
  ASSUME TypeOK, Control, SparesLive, [Next]_vars
  PROVE  SparesLive'
<1>1. RunsEvolve
  BY RunsStep
<1> SUFFICES ASSUME NEW r \in RunId, runs'[r].stamp = 0
             PROVE  /\ r \in recovering' => runs'[r].status # "QUEUED"
                    /\ ~SlowWorkers /\ runs'[r].status = "RUNNING"
                         /\ (~runs'[r].fresh \/ r \in recovering')
                         => ~Attended(r)'
  BY RecoveringStep DEF SparesLive
<1>2. CASE RecoverScan
  <2>1. UNCHANGED <<runs, pc, job>> /\ recovering' = StaleRuns
    BY <1>2 DEF RecoverScan, runVars
  <2>2. Attended(r)' = Attended(r)
    BY <2>1 DEF Attended
  <2>3. QED
    BY <2>1, <2>2 DEF StaleRuns, SparesLive
<1>3. CASE ~RecoverScan /\ r \in 1..created
  <2>1. recovering' \subseteq recovering
    BY <1>3, RecoveringMoves DEF RecoverRun
  <2>2. runs[r].stamp = 0 /\ RunKept(r) /\ runs[r].fresh \in BOOLEAN
    BY <1>1, <1>3 DEF RunsEvolve, RunKept, TypeOK, RunTypes, Run
  <2>3. ASSUME ~SlowWorkers, runs'[r].status = "RUNNING", ~runs'[r].fresh \/ r \in recovering',
               Attended(r)'
        PROVE  FALSE
    <3> USE DEF TypeOK, RunTypes, Run
    <3>1. ASSUME NEW w \in Workers, ClaimRun(w), job[w] = r PROVE FALSE
      BY <2>1, <2>2, <2>3, <3>1 DEF ClaimRun, SparesLive
    <3>2. Attended(r)
      BY <2>3, <3>1, AttendedMoves
    <3>3. CASE RowSteady(r)
      BY <2>1, <2>2, <2>3, <3>2, <3>3 DEF RowSteady, SparesLive
    <3>4. ASSUME NEW w \in Workers, job[w] = r, CancelOrphan(w) \/ WriteResult(w) PROVE FALSE
      <4>1. runs'[r].status \in Terminal
        BY <3>4 DEF CancelOrphan, WriteResult, Control, WritersHonest, Terminal
      <4>2. QED
        BY <2>3, <4>1 DEF Terminal
    <3>5. CASE CancelWrite(r) \/ RecoverRun(r)
      <4>1. runs'[r].status # "RUNNING"
        BY <3>5 DEF CancelWrite, RecoverRun
      <4>2. QED
        BY <2>3, <4>1
    <3>6. CASE GoSilent(r)
      BY <2>3, <3>2, <3>6 DEF GoSilent
    <3>7. QED
      BY <1>3, <2>2, <3>1, <3>3, <3>4, <3>5, <3>6, RowMoves
  <2>4. QED
    BY <2>1, <2>2, <2>3 DEF RunKept, SparesLive
<1>4. CASE ~RecoverScan /\ r \notin 1..created
  <2>1. r \notin recovering'
    BY <1>4, RecoveringMoves DEF RecoverRun, SparesLive
  <2>2. \A w \in Workers : pc[w] # "idle" => job[w] # r
    BY <1>4 DEF Control, JobsExist
  <2>3. ~Attended(r)
    BY <2>2 DEF Attended, Executing
  <2>4. \A w \in Workers : ClaimRun(w) => job[w] # r
    BY <2>2 DEF ClaimRun
  <2>5. ~Attended(r)'
    BY <2>3, <2>4, AttendedMoves
  <2>6. QED
    BY <2>1, <2>5
<1>5. QED
  BY <1>2, <1>3, <1>4

\* The run a recovery fails is not being executed.
LEMMA SparesLiveHolds ==
  ASSUME TypeOK, Control, SparesLive, [Next]_vars, NEW r \in RunId,
         ~runs[r].recovered, runs'[r].recovered, runs[r].stamp = 0, ~SlowWorkers
  PROVE  ~Attended(r)
<1>1. CASE r \notin 1..created
  BY <1>1 DEF Control, JobsExist, Attended, Executing
<1>2. CASE r \in 1..created
  <2> USE DEF TypeOK, RunTypes, Run
  <2>1. ~RowSteady(r)
    BY DEF RowSteady
  <2>2. ASSUME NEW w \in Workers, job[w] = r,
               ClaimRun(w) \/ CancelOrphan(w) \/ WriteResult(w)
        PROVE  runs'[r].recovered \in {runs[r].recovered, FALSE}
    BY <2>2 DEF ClaimRun, CancelOrphan, WriteResult
  <2>3. ASSUME CancelWrite(r) \/ GoSilent(r)
        PROVE  runs'[r].recovered \in {runs[r].recovered, FALSE}
    BY <2>3 DEF CancelWrite, GoSilent
  <2>4. RecoverRun(r)
    BY <1>2, <2>1, <2>2, <2>3, RowMoves
  <2>5. r \in recovering /\ runs[r].status = "RUNNING"
    BY <2>4 DEF RecoverRun
  <2>6. QED
    BY <2>5 DEF SparesLive
<1>3. QED
  BY <1>1, <1>2

-----------------------------------------------------------------------------
(* The theorems about the books.                                            *)

LEMMA BooksStep == BInv /\ [Next]_vars => BInv'
<1> SUFFICES ASSUME BInv, [Next]_vars PROVE BInv'
  OBVIOUS
<1>1. IInv /\ IInv' /\ Books
  BY StepInv DEF BInv
<1>2. TypeOK /\ Control /\ Money
  BY <1>1 DEF IInv
<1>3. OneHandler' /\ Rows' /\ SparesLive'
  BY <1>1, <1>2, OneHandlerStep, RowsStep, SparesLiveStep DEF Books
<1>4. \A w \in Workers : (Accounts(w) /\ RetryDiscipline(w) /\ Honest(w))'
  BY <1>1, <1>2, AccountsStep, RetryStep, HonestStep DEF Books
<1>5. QED
  BY <1>1, <1>3, <1>4 DEF BInv, Books

LEMMA BooksInvariance == Spec => []BInv
<1>1. Init => BInv
  BY InitInv, BooksInit DEF BInv
<1>2. QED
  BY <1>1, BooksStep, PTL DEF Spec

\* A scheduled run is reported COMPLETED only with an observation for every unit
\* of its scope, whatever failed, was retried, expired or was observed meanwhile.
THEOREM VerdictIsHonest == Spec => []VerdictHonest
<1>1. BInv => VerdictHonest
  BY DEF BInv, Books, Honest, Mine, Handling, Executing, Unseen, VerdictHonest
<1>2. QED
  BY <1>1, BooksInvariance, PTL

\* The success and credit counts a scheduled run reports are those of its rows.
THEOREM AccountsAreTrue == Spec => []AccountsMatch
<1>1. BInv => AccountsMatch
  BY DEF BInv, Books, Accounts, Mine, Handling, Executing, OwnKeys, AccountsMatch
<1>2. QED
  BY <1>1, BooksInvariance, PTL

\* Workers that beat in time are never declared dead.
THEOREM RecoveryIsSafe == Spec => RecoverySparesLive
<1>1. BInv /\ [Next]_vars =>
        [\A r \in RunId :
           /\ ~runs[r].recovered /\ runs'[r].recovered
           /\ runs[r].stamp = 0 /\ ~SlowWorkers
           => ~Attended(r)]_vars
  BY SparesLiveHolds DEF BInv, Books, IInv
<1>2. QED
  BY <1>1, BooksInvariance, PTL DEF Spec, RecoverySparesLive
=============================================================================
