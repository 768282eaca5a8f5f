---------------------------- MODULE AiMonitoring ----------------------------
(***************************************************************************)
(* The AI prompt monitoring loop of backend/src/ai-visibility: schedules,   *)
(* the external scheduler's three ticks (due, execute-next, recover), manual *)
(* runs, cancellation, and the bounded execution of a run's units with      *)
(* idempotency keys and charge-on-success.                                  *)
(*                                                                          *)
(* One action is one database round trip (or a block of code between two    *)
(* awaits): everything else in the process may run in between.  A worker is *)
(* one execution context, an execute-next request or a manual request, in   *)
(* any process of the deployment; it dies with its process (Crash).         *)
(***************************************************************************)
EXTENDS Integers, FiniteSets

CONSTANTS
  Schedules,     \* ids of AiMonitorSchedule rows, one website, one cadence
  Units,         \* prompt x surface pairs of the website's tracked prompts
  UnitsOf,       \* executable units of each schedule's surfaces
  DefaultUnits,  \* units of the fallback surfaces ['GEMINI']
  ManualScopes,  \* the unit sets a manual request may ask for
  Workers, Ticks,
  NoSchedule,    \* scheduleId = NULL
  Billing,       \* "SUBSCRIBED", "FREE" or "INTERNAL" workspace
  Limit,         \* AI_SCANS allowance of the current period
  Concurrency,   \* AI_MONITOR_CONCURRENCY, 1..4
  MaxRetries,    \* AI_MONITOR_MAX_RETRIES, 0..2
  SlowWorkers,   \* may a live worker outlast the stale timeout?
  MaxWindow, MaxRuns, MaxManual, MaxCrashes, MaxCancels, MaxSiteChanges
                 \* bounds of the model, not of the code

ASSUME Sizes ==
  /\ Limit \in Nat
  /\ Concurrency \in 1..4
  /\ MaxRetries \in 0..2
  /\ {MaxWindow, MaxRuns, MaxManual, MaxCrashes, MaxCancels, MaxSiteChanges}
       \subseteq Nat

ASSUME Shapes ==
  /\ UnitsOf \in [Schedules -> SUBSET Units]
  /\ DefaultUnits \subseteq Units
  /\ ManualScopes \subseteq SUBSET Units
  /\ NoSchedule \notin Schedules
  /\ Billing \in {"SUBSCRIBED", "FREE", "INTERNAL"}
  /\ SlowWorkers \in BOOLEAN
  /\ IsFiniteSet(Units)

VARIABLES
  window,      \* index of the cadence window the clock is in
  site,        \* website.isActive
  schedules,   \* AiMonitorSchedule rows
  due, dueAt, advancing,  \* claimDueRuns in progress, per tick
  runs, created,          \* AiMonitorRun rows in creation order; their number
  completed, failed,      \* AiVisibilityCheck rows, by status
  used, charged,          \* usage counter; keys it was incremented for
  cancelling,  \* runs a cancelRun has read and not yet written
  recovering,  \* runs a recoverStaleRuns has read and not yet written
  pc, job, scope, stage, queue, rounds, tally, expired, verdict, \* workers
  crashes, cancels, siteChanges

schedVars == <<schedules, due, dueAt, advancing>>
runVars == <<runs, created>>
rowVars == <<completed, failed>>
moneyVars == <<used, charged>>
envVars == <<window, site, crashes, cancels, siteChanges>>
pendingVars == <<cancelling, recovering>>
workVars == <<scope, stage, queue, rounds, tally, expired, verdict>>
vars == <<schedVars, runVars, rowVars, moneyVars, envVars, pendingVars,
          pc, job, workVars>>

-----------------------------------------------------------------------------
RunId == 1..MaxRuns
Terminal == {"COMPLETED", "PARTIAL", "FAILED", "CANCELLED"}
RunStatus == {"ABSENT", "QUEUED", "RUNNING"} \union Terminal
Run == [status : RunStatus, sched : Schedules \union {NoSchedule},
        window : 0..MaxWindow, stamp : 0..MaxRuns, fresh : BOOLEAN, recovered : BOOLEAN,
        success : Nat, credit : Nat]
NoRun == [status |-> "ABSENT", sched |-> NoSchedule, window |-> 0, stamp |-> 0,
          fresh |-> FALSE, recovered |-> FALSE, success |-> 0, credit |-> 0]

\* AiMonitorRun.windowKey: the window, and for a manual run a stamp no other
\* run has (Date.now() in the code).  A key is a unit inside a window key.
Key == Units \X (0..MaxWindow) \X (0..MaxRuns)
KeyOf(u, r) == <<u, runs[r].window, runs[r].stamp>>

Row == Key \X RunId
Observed == {row[1] : row \in completed}
Attempted == {row[1] : row \in failed}
RowsOf(rows, r) == {row \in rows : row[2] = r}

Live(s) == schedules[s].exists /\ schedules[s].active

Busy == {"picked", "claimed", "created", "starting", "pass", "retry",
         "retrying", "finish", "write", "aborted"}
\* The pc values between the RUNNING update and the end of executeRunUnits.
Executing == {"claimed", "starting", "pass", "retry", "retrying", "finish",
              "write"}
Stages == {"out", "todo", "begin", "call", "charge", "insert"}
InFlight(w) == {u \in Units : stage[w][u] \in {"begin", "call", "charge", "insert"}}
Todo(w) == {u \in Units : stage[w][u] = "todo"}
NoTally == [success |-> 0, failure |-> 0, credit |-> 0]
Idle(w) ==
  /\ pc' = [pc EXCEPT ![w] = "idle"]
  /\ job' = [job EXCEPT ![w] = 0]
  /\ scope' = [scope EXCEPT ![w] = {}]
  /\ stage' = [stage EXCEPT ![w] = [u \in Units |-> "out"]]
  /\ queue' = [queue EXCEPT ![w] = {}]
  /\ rounds' = [rounds EXCEPT ![w] = 0]
  /\ tally' = [tally EXCEPT ![w] = NoTally]
  /\ expired' = [expired EXCEPT ![w] = FALSE]
  /\ verdict' = [verdict EXCEPT ![w] = "ABSENT"]

Init ==
  /\ window = 0 /\ site = TRUE
  /\ \E present \in SUBSET Schedules :
       schedules = [s \in Schedules |-> [exists |-> s \in present, active |-> TRUE,
                                        nextRun |-> 1]]
  /\ due = [t \in Ticks |-> {}]
  /\ dueAt = [t \in Ticks |-> 0]
  /\ advancing = [t \in Ticks |-> NoSchedule]
  /\ runs = [r \in RunId |-> NoRun] /\ created = 0
  /\ completed = {} /\ failed = {}
  /\ used = 0 /\ charged = {}
  /\ cancelling = {} /\ recovering = {}
  /\ pc = [w \in Workers |-> "idle"]
  /\ job = [w \in Workers |-> 0]
  /\ scope = [w \in Workers |-> {}]
  /\ stage = [w \in Workers |-> [u \in Units |-> "out"]]
  /\ queue = [w \in Workers |-> {}]
  /\ rounds = [w \in Workers |-> 0]
  /\ tally = [w \in Workers |-> NoTally]
  /\ expired = [w \in Workers |-> FALSE]
  /\ verdict = [w \in Workers |-> "ABSENT"]
  /\ crashes = 0 /\ cancels = 0 /\ siteChanges = 0

-----------------------------------------------------------------------------
(* Environment: time, the website switch, the schedule switches.            *)

AdvanceWindow ==
  /\ window < MaxWindow
  /\ window' = window + 1
  /\ UNCHANGED <<site, crashes, cancels, siteChanges, schedVars, runVars,
                 rowVars, moneyVars, pendingVars, pc, job, workVars>>

\* updateWebsite writes isActive; archiving and restoring both go through it.
SetSiteActive ==
  /\ siteChanges < MaxSiteChanges
  /\ siteChanges' = siteChanges + 1
  /\ site' = ~site
  /\ UNCHANGED <<window, crashes, cancels, schedVars, runVars, rowVars,
                 moneyVars, pendingVars, pc, job, workVars>>

\* updateSchedule with isActive only: nextRunAt is not recomputed.
SetScheduleActive(s) ==
  /\ siteChanges < MaxSiteChanges
  /\ siteChanges' = siteChanges + 1
  /\ schedules[s].exists
  /\ schedules' = [schedules EXCEPT ![s].active = ~@]
  /\ UNCHANGED <<window, site, crashes, cancels, due, dueAt, advancing, runVars,
                 rowVars, moneyVars, pendingVars, pc, job, workVars>>

\* deleteSchedule; AiMonitorRun.scheduleId is ON DELETE SET NULL.
DeleteSchedule(s) ==
  /\ siteChanges < MaxSiteChanges
  /\ siteChanges' = siteChanges + 1
  /\ schedules[s].exists
  /\ schedules' = [schedules EXCEPT ![s].exists = FALSE]
  /\ runs' = [r \in RunId |-> IF runs[r].sched = s
                              THEN [runs[r] EXCEPT !.sched = NoSchedule]
                              ELSE runs[r]]
  /\ UNCHANGED <<window, site, crashes, cancels, due, dueAt, advancing, created,
                 rowVars, moneyVars, pendingVars, pc, job, workVars>>

-----------------------------------------------------------------------------
(* POST /monitoring/internal/due: claimDueRuns, one schedule after another. *)

DueSchedules == {s \in Schedules : Live(s) /\ schedules[s].nextRun <= window}

TickScan(t) ==
  /\ due[t] = {} /\ advancing[t] = NoSchedule
  /\ DueSchedules # {}
  /\ due' = [due EXCEPT ![t] = DueSchedules]
  /\ dueAt' = [dueAt EXCEPT ![t] = window]
  /\ UNCHANGED <<schedules, advancing, runVars, rowVars, moneyVars, envVars,
                 pendingVars, pc, job, workVars>>

\* The unique index on (scheduleId, windowKey).
Claimed(s, w) ==
  \E r \in RunId : /\ runs[r].status # "ABSENT"
                   /\ runs[r].sched = s
                   /\ runs[r].window = w
                   /\ runs[r].stamp = 0

NewRun(s, w, stamp) ==
  [NoRun EXCEPT !.status = "QUEUED", !.sched = s, !.window = w, !.stamp = stamp]

\* The website lookup failed: the schedule is switched off and skipped.  The
\* update throws on a row deleted meanwhile and ends the tick.
TickDeactivate(t, s) ==
  /\ s \in due[t] /\ advancing[t] = NoSchedule
  /\ ~site
  /\ IF schedules[s].exists
     THEN /\ schedules' = [schedules EXCEPT ![s].active = FALSE,
                                            ![s].nextRun = dueAt[t] + 1]
          /\ due' = [due EXCEPT ![t] = @ \ {s}]
     ELSE /\ due' = [due EXCEPT ![t] = {}]
          /\ UNCHANGED schedules
  /\ UNCHANGED <<dueAt, advancing, runVars, rowVars, moneyVars, envVars,
                 pendingVars, pc, job, workVars>>

\* Fault: the unique index is missing and only existence is checked.
TickCreateUnchecked(t, s) ==
  /\ s \in due[t] /\ advancing[t] = NoSchedule
  /\ site /\ created < MaxRuns
  /\ due' = [due EXCEPT ![t] = @ \ {s}]
  /\ advancing' = [advancing EXCEPT ![t] = s]
  /\ created' = created + 1
  /\ runs' = [runs EXCEPT ![created + 1] = NewRun(s, dueAt[t], 0)]
  /\ UNCHANGED <<schedules, dueAt, rowVars, moneyVars, envVars, pendingVars,
                 pc, job, workVars>>

\* The create: refused by the unique index, or by the foreign key of a schedule
\* deleted meanwhile; both are caught and the finally block follows.
TickCreate(t, s) ==
  /\ s \in due[t] /\ advancing[t] = NoSchedule
  /\ site
  /\ due' = [due EXCEPT ![t] = @ \ {s}]
  /\ advancing' = [advancing EXCEPT ![t] = s]
  /\ IF Claimed(s, dueAt[t]) \/ ~schedules[s].exists
     THEN UNCHANGED runVars
     ELSE /\ created < MaxRuns
          /\ created' = created + 1
          /\ runs' = [runs EXCEPT ![created + 1] = NewRun(s, dueAt[t], 0)]
  /\ UNCHANGED <<schedules, dueAt, rowVars, moneyVars, envVars, pendingVars,
                 pc, job, workVars>>

\* Fault: nextRunAt is advanced only from the present value, to the window just
\* claimed.
TickAdvanceNowhere(t) ==
  LET s == advancing[t] IN
  /\ s # NoSchedule
  /\ advancing' = [advancing EXCEPT ![t] = NoSchedule]
  /\ schedules' = [schedules EXCEPT ![s].nextRun = dueAt[t]]
  /\ UNCHANGED <<due, dueAt, runVars, rowVars, moneyVars, envVars, pendingVars,
                 pc, job, workVars>>

\* The finally block; on a deleted schedule it throws and ends the tick.
TickAdvance(t) ==
  LET s == advancing[t] IN
  /\ s # NoSchedule
  /\ advancing' = [advancing EXCEPT ![t] = NoSchedule]
  /\ IF schedules[s].exists
     THEN /\ schedules' = [schedules EXCEPT ![s].nextRun = dueAt[t] + 1]
          /\ UNCHANGED due
     ELSE /\ due' = [due EXCEPT ![t] = {}]
          /\ UNCHANGED schedules
  /\ UNCHANGED <<dueAt, runVars, rowVars, moneyVars, envVars, pendingVars,
                 pc, job, workVars>>

-----------------------------------------------------------------------------
(* POST /monitoring/internal/execute-next: read the oldest QUEUED run, then *)
(* one conditional update.                                                  *)

OldestQueued(r) ==
  /\ runs[r].status = "QUEUED"
  /\ \A q \in 1..(r - 1) : runs[q].status # "QUEUED"

PickNext(w) ==
  /\ pc[w] = "idle"
  /\ \E r \in RunId : /\ OldestQueued(r)
                      /\ job' = [job EXCEPT ![w] = r]
  /\ pc' = [pc EXCEPT ![w] = "picked"]
  /\ UNCHANGED <<schedVars, runVars, rowVars, moneyVars, envVars, pendingVars,
                 workVars>>

\* Fault: the claim does not ask for QUEUED again.
ClaimRunUnconditional(w) ==
  /\ pc[w] = "picked"
  /\ runs' = [runs EXCEPT ![job[w]].status = "RUNNING", ![job[w]].fresh = TRUE]
  /\ pc' = [pc EXCEPT ![w] = "claimed"]
  /\ UNCHANGED <<schedVars, created, rowVars, moneyVars, envVars, pendingVars,
                 job, workVars>>

ClaimRun(w) ==
  /\ pc[w] = "picked"
  /\ runs[job[w]].status = "QUEUED"
  /\ runs' = [runs EXCEPT ![job[w]].status = "RUNNING", ![job[w]].fresh = TRUE]
  /\ pc' = [pc EXCEPT ![w] = "claimed"]
  /\ UNCHANGED <<schedVars, created, rowVars, moneyVars, envVars, pendingVars,
                 job, workVars>>

ClaimedElsewhere(w) ==
  /\ pc[w] = "picked"
  /\ runs[job[w]].status # "QUEUED"
  /\ Idle(w)
  /\ UNCHANGED <<schedVars, runVars, rowVars, moneyVars, envVars, pendingVars>>

\* The website is gone: CANCELLED by an unconditional update.
CancelOrphan(w) ==
  /\ pc[w] = "claimed" /\ ~site
  /\ runs' = [runs EXCEPT ![job[w]].status = "CANCELLED"]
  /\ Idle(w)
  /\ UNCHANGED <<schedVars, created, rowVars, moneyVars, envVars, pendingVars>>

\* executeClaimedRun: the surfaces of the schedule as it is now, or the default.
LoadScope(w) ==
  LET s == runs[job[w]].sched IN
  /\ pc[w] = "claimed" /\ site
  /\ scope' = [scope EXCEPT ![w] = IF s = NoSchedule THEN DefaultUnits
                                                     ELSE UnitsOf[s]]
  /\ pc' = [pc EXCEPT ![w] = "starting"]
  /\ UNCHANGED <<schedVars, runVars, rowVars, moneyVars, envVars, pendingVars,
                 job, stage, queue, rounds, tally, expired, verdict>>

-----------------------------------------------------------------------------
(* requestRun: a manual run, executed by the request itself.                *)

\* scanAllowance().used: the counter, or for a free workspace the month's rows.
AllowanceUsed ==
  IF Billing = "FREE" THEN Cardinality(completed) + Cardinality(failed) ELSE used

CreditGuard(estimate) ==
  Billing = "INTERNAL" \/ estimate <= Limit - AllowanceUsed

RequestRun(w) ==
  /\ pc[w] = "idle" /\ site
  /\ created < MaxRuns
  /\ Cardinality({r \in RunId : runs[r].stamp # 0}) < MaxManual
  /\ created' = created + 1
  /\ \E units \in ManualScopes :
       \E s \in {x \in Schedules : schedules[x].exists} \union {NoSchedule} :
         /\ CreditGuard(Cardinality(units))
         /\ scope' = [scope EXCEPT ![w] = units]
         /\ runs' = [runs EXCEPT ![created + 1] = NewRun(s, window, created + 1)]
  /\ job' = [job EXCEPT ![w] = created + 1]
  /\ pc' = [pc EXCEPT ![w] = "created"]
  /\ UNCHANGED <<schedVars, rowVars, moneyVars, envVars, pendingVars,
                 stage, queue, rounds, tally, expired, verdict>>

\* The second write of requestRun: RUNNING, whatever the row says by now.
StartManual(w) ==
  /\ pc[w] = "created"
  /\ runs' = [runs EXCEPT ![job[w]].status = "RUNNING", ![job[w]].fresh = TRUE]
  /\ pc' = [pc EXCEPT ![w] = "starting"]
  /\ UNCHANGED <<schedVars, created, rowVars, moneyVars, envVars, pendingVars,
                 job, workVars>>

-----------------------------------------------------------------------------
(* executeRunUnits.                                                         *)

\* beatRun: only a RUNNING row takes the heartbeat.
Beat(r) ==
  runs' = IF runs[r].status = "RUNNING" THEN [runs EXCEPT ![r].fresh = TRUE]
                                        ELSE runs

\* verifyWebsite throws: the run stays RUNNING and nobody executes it.
StartFails(w) ==
  /\ pc[w] = "starting" /\ ~site
  /\ Idle(w)
  /\ UNCHANGED <<schedVars, runVars, rowVars, moneyVars, envVars, pendingVars>>

StartUnits(w) ==
  /\ pc[w] = "starting" /\ site
  /\ stage' = [stage EXCEPT ![w] =
                 [u \in Units |-> IF u \in scope[w] THEN "todo" ELSE "out"]]
  /\ pc' = [pc EXCEPT ![w] = "pass"]
  /\ Beat(job[w])
  /\ UNCHANGED <<schedVars, created, rowVars, moneyVars, envVars, pendingVars,
                 job, scope, queue, rounds, tally, expired, verdict>>

\* The run deadline passes while the worker is at it.
DeadlinePasses(w) ==
  /\ pc[w] \in {"pass", "retry", "retrying"} /\ ~expired[w]
  /\ expired' = [expired EXCEPT ![w] = TRUE]
  /\ UNCHANGED <<schedVars, runVars, rowVars, moneyVars, envVars, pendingVars,
                 pc, job, scope, stage, queue, rounds, tally, verdict>>

\* cancelled(): polled before every slice, retry round and retried unit.
CancelledNow(w) == runs[job[w]].status = "CANCELLED"

\* The next slice of at most Concurrency attempts starts (Promise.all), a
\* shorter one at the end of a batch (AI_MONITOR_BATCH_SIZE); the throttled
\* heartbeat between batches may or may not be due.
NextSlice(w) ==
  /\ pc[w] = "pass" /\ InFlight(w) = {} /\ Todo(w) # {}
  /\ ~CancelledNow(w)
  /\ \E slice \in SUBSET Todo(w) :
       /\ slice # {} /\ Cardinality(slice) <= Concurrency
       /\ stage' = [stage EXCEPT ![w] =
                      [u \in Units |-> IF u \in slice THEN "begin" ELSE @[u]]]
  /\ Beat(job[w]) \/ UNCHANGED runs
  /\ UNCHANGED <<schedVars, created, rowVars, moneyVars, envVars, pendingVars,
                 pc, job, scope, queue, rounds, tally, expired, verdict>>

EndPass(w) ==
  /\ pc[w] = "pass" /\ InFlight(w) = {}
  /\ Todo(w) = {} \/ CancelledNow(w)
  /\ stage' = [stage EXCEPT ![w] = [u \in Units |-> "out"]]
  /\ pc' = [pc EXCEPT ![w] = "retry"]
  /\ Beat(job[w]) \/ UNCHANGED runs
  /\ UNCHANGED <<schedVars, created, rowVars, moneyVars, envVars, pendingVars,
                 job, scope, queue, rounds, tally, expired, verdict>>

SetStage(w, u, s) == stage' = [stage EXCEPT ![w][u] = s]

\* Faults: a unit found done counts as a success; a unit past the deadline is
\* dropped without counting as a failure.
BeginUnitCountingSkips(w, u) ==
  /\ stage[w][u] = "begin"
  /\ IF KeyOf(u, job[w]) \in Observed
     THEN /\ tally' = [tally EXCEPT ![w].success = @ + 1]
          /\ SetStage(w, u, "out")
     ELSE SetStage(w, u, "call") /\ UNCHANGED tally
  /\ UNCHANGED <<schedVars, runVars, rowVars, moneyVars, envVars, pendingVars,
                 pc, job, scope, queue, rounds, expired, verdict>>

BeginUnitDroppingLate(w, u) ==
  /\ stage[w][u] = "begin"
  /\ SetStage(w, u, IF expired[w] \/ KeyOf(u, job[w]) \in Observed
                    THEN "out" ELSE "call")
  /\ UNCHANGED <<schedVars, runVars, rowVars, moneyVars, envVars, pendingVars,
                 pc, job, scope, queue, rounds, tally, expired, verdict>>

\* attempt(), up to the lookup of the idempotency key.
BeginUnit(w, u) ==
  /\ stage[w][u] = "begin"
  /\ \/ /\ expired[w]
        /\ tally' = [tally EXCEPT ![w].failure = @ + 1]
        /\ SetStage(w, u, "out")
     \/ /\ ~expired[w] /\ KeyOf(u, job[w]) \in Observed
        /\ SetStage(w, u, "out")
        /\ UNCHANGED tally
     \/ /\ ~expired[w] /\ KeyOf(u, job[w]) \notin Observed
        /\ SetStage(w, u, "call")
        /\ UNCHANGED tally
  /\ UNCHANGED <<schedVars, runVars, rowVars, moneyVars, envVars, pendingVars,
                 pc, job, scope, queue, rounds, expired, verdict>>

\* Fault: idempotencyKey is not unique.
RecordSuccessAgain(w, u) ==
  /\ stage[w][u] = "call"
  /\ completed' = completed \union {<<KeyOf(u, job[w]), job[w]>>}
  /\ tally' = [tally EXCEPT ![w].success = @ + 1]
  /\ SetStage(w, u, "charge")
  /\ UNCHANGED <<schedVars, runVars, failed, moneyVars, envVars, pendingVars,
                 pc, job, scope, queue, rounds, expired, verdict>>

\* The provider answered and the COMPLETED row's key was free.
RecordSuccess(w, u) ==
  LET k == KeyOf(u, job[w]) IN
  /\ stage[w][u] = "call"
  /\ k \notin Observed
  /\ completed' = completed \union {<<k, job[w]>>}
  /\ tally' = [tally EXCEPT ![w].success = @ + 1]
  /\ SetStage(w, u, "charge")
  /\ UNCHANGED <<schedVars, runVars, failed, moneyVars, envVars, pendingVars,
                 pc, job, scope, queue, rounds, expired, verdict>>

\* The catch block: provider error, timeout, or a COMPLETED key taken meanwhile.
\* Its own row is unique by key|attempt.
RecordFailure(w, u) ==
  LET k == KeyOf(u, job[w]) IN
  /\ stage[w][u] = "call"
  /\ k \notin Attempted
  /\ failed' = failed \union {<<k, job[w]>>}
  /\ tally' = [tally EXCEPT ![w].failure = @ + 1]
  /\ SetStage(w, u, "out")
  /\ UNCHANGED <<schedVars, runVars, completed, moneyVars, envVars, pendingVars,
                 pc, job, scope, queue, rounds, expired, verdict>>

\* The catch block's create hits its own unique key and throws: Promise.all and
\* executeRunUnits reject, attempts in flight go on by themselves.
FailureThrows(w, u) ==
  /\ stage[w][u] = "call"
  /\ KeyOf(u, job[w]) \in Attempted
  /\ stage' = [stage EXCEPT ![w] =
                 [v \in Units |-> IF v = u \/ @[v] = "todo" THEN "out" ELSE @[v]]]
  /\ pc' = [pc EXCEPT ![w] = "aborted"]
  /\ UNCHANGED <<schedVars, runVars, rowVars, moneyVars, envVars, pendingVars,
                 job, scope, queue, rounds, tally, expired, verdict>>

AbortEnds(w) ==
  /\ pc[w] = "aborted" /\ InFlight(w) = {}
  /\ Idle(w)
  /\ UNCHANGED <<schedVars, runVars, rowVars, moneyVars, envVars, pendingVars>>

\* consumeOnSuccess, when nothing is charged: not a billed workspace, or the
\* allowance is used up (the exception is swallowed).
ChargeRefused(w, u) ==
  /\ stage[w][u] = "charge"
  /\ Billing # "SUBSCRIBED" \/ used >= Limit
  /\ SetStage(w, u, "out")
  /\ UNCHANGED <<schedVars, runVars, rowVars, moneyVars, envVars, pendingVars,
                 pc, job, scope, queue, rounds, tally, expired, verdict>>

\* consumeUsage found no counter row (used = 0) and is about to create it.
ChargeFirst(w, u) ==
  /\ stage[w][u] = "charge"
  /\ Billing = "SUBSCRIBED" /\ used = 0 /\ used < Limit
  /\ SetStage(w, u, "insert")
  /\ UNCHANGED <<schedVars, runVars, rowVars, moneyVars, envVars, pendingVars,
                 pc, job, scope, queue, rounds, tally, expired, verdict>>

\* Fault: the first row is an upsert that sets the counter to 1.
ChargeUnitUpsert(w, u) ==
  /\ \/ stage[w][u] = "charge" /\ used > 0 /\ used < Limit
     \/ stage[w][u] = "insert"
  /\ Billing = "SUBSCRIBED"
  /\ used' = IF stage[w][u] = "insert" THEN 1 ELSE used + 1
  /\ charged' = charged \union {KeyOf(u, job[w])}
  /\ tally' = [tally EXCEPT ![w].credit = @ + 1]
  /\ SetStage(w, u, "out")
  /\ UNCHANGED <<schedVars, runVars, rowVars, envVars, pendingVars,
                 pc, job, scope, queue, rounds, expired, verdict>>

\* The increment: the conditional update, or the create of the first row.
ChargeUnit(w, u) ==
  /\ \/ stage[w][u] = "charge" /\ used > 0 /\ used < Limit
     \/ stage[w][u] = "insert" /\ used = 0
  /\ Billing = "SUBSCRIBED"
  /\ used' = used + 1
  /\ charged' = charged \union {KeyOf(u, job[w])}
  /\ tally' = [tally EXCEPT ![w].credit = @ + 1]
  /\ SetStage(w, u, "out")
  /\ UNCHANGED <<schedVars, runVars, rowVars, envVars, pendingVars,
                 pc, job, scope, queue, rounds, expired, verdict>>

\* Another create of the counter row won: unique violation, swallowed.
ChargeLost(w, u) ==
  /\ stage[w][u] = "insert" /\ used > 0
  /\ SetStage(w, u, "out")
  /\ UNCHANGED <<schedVars, runVars, rowVars, moneyVars, envVars, pendingVars,
                 pc, job, scope, queue, rounds, tally, expired, verdict>>

UnitStep(w, u) ==
  \/ BeginUnit(w, u) \/ RecordSuccess(w, u) \/ RecordFailure(w, u)
  \/ FailureThrows(w, u) \/ ChargeRefused(w, u) \/ ChargeFirst(w, u)
  \/ ChargeUnit(w, u) \/ ChargeLost(w, u)

-----------------------------------------------------------------------------
(* The retry rounds: all FAILED rows of the run, one after another.         *)

FailedUnits(w) == {row[1][1] : row \in RowsOf(failed, job[w])}

StartRound(w) ==
  /\ pc[w] = "retry"
  /\ ~CancelledNow(w) /\ rounds[w] < MaxRetries /\ FailedUnits(w) # {}
  /\ queue' = [queue EXCEPT ![w] = FailedUnits(w)]
  /\ rounds' = [rounds EXCEPT ![w] = @ + 1]
  /\ pc' = [pc EXCEPT ![w] = "retrying"]
  /\ Beat(job[w]) \/ UNCHANGED runs
  /\ UNCHANGED <<schedVars, created, rowVars, moneyVars, envVars, pendingVars,
                 job, scope, stage, tally, expired, verdict>>

RetryUnit(w) ==
  /\ pc[w] = "retrying" /\ InFlight(w) = {}
  /\ ~CancelledNow(w)
  /\ \E u \in queue[w] :
       /\ queue' = [queue EXCEPT ![w] = @ \ {u}]
       /\ SetStage(w, u, "begin")
  /\ tally' = [tally EXCEPT ![w].failure = @ - 1]
  /\ UNCHANGED <<schedVars, runVars, rowVars, moneyVars, envVars, pendingVars,
                 pc, job, scope, rounds, expired, verdict>>

EndRound(w) ==
  /\ pc[w] = "retrying" /\ InFlight(w) = {}
  /\ queue[w] = {} \/ CancelledNow(w)
  /\ queue' = [queue EXCEPT ![w] = {}]
  /\ pc' = [pc EXCEPT ![w] = "retry"]
  /\ UNCHANGED <<schedVars, runVars, rowVars, moneyVars, envVars, pendingVars,
                 job, scope, stage, rounds, tally, expired, verdict>>

EndRetries(w) ==
  /\ pc[w] = "retry"
  /\ CancelledNow(w) \/ rounds[w] = MaxRetries \/ FailedUnits(w) = {}
  /\ pc' = [pc EXCEPT ![w] = "finish"]
  /\ UNCHANGED <<schedVars, runVars, rowVars, moneyVars, envVars, pendingVars,
                 job, workVars>>

\* Fault: a status the schema does not know.
RunStatusForUnknown(success, failure) ==
  IF success > 0 /\ failure = 0 THEN "SUCCESS" ELSE "FAILED"

\* runStatusFor; the number of unavailable surfaces does not change its result.
RunStatusFor(success, failure) ==
  CASE success > 0 /\ failure = 0 -> "COMPLETED"
    [] success > 0 /\ failure # 0 -> "PARTIAL"
    [] OTHER -> "FAILED"

Decide(w) ==
  /\ pc[w] = "finish"
  /\ verdict' = [verdict EXCEPT ![w] =
                   IF CancelledNow(w) THEN "CANCELLED"
                   ELSE RunStatusFor(tally[w].success, tally[w].failure)]
  /\ pc' = [pc EXCEPT ![w] = "write"]
  /\ UNCHANGED <<schedVars, runVars, rowVars, moneyVars, envVars, pendingVars,
                 job, scope, stage, queue, rounds, tally, expired>>

\* The final update is by id only: it does not ask what the status is now.
WriteResult(w) ==
  /\ pc[w] = "write"
  /\ runs' = [runs EXCEPT ![job[w]].status = verdict[w],
                          ![job[w]].recovered = FALSE,
                          ![job[w]].success = tally[w].success,
                          ![job[w]].credit = tally[w].credit]
  /\ Idle(w)
  /\ UNCHANGED <<schedVars, created, rowVars, moneyVars, envVars, pendingVars>>

-----------------------------------------------------------------------------
(* cancelRun: a read that lets a finished run alone, then an update by id.  *)

CancelRead(r) ==
  /\ cancels < MaxCancels
  /\ cancels' = cancels + 1
  /\ runs[r].status \in {"QUEUED", "RUNNING", "CANCELLED"}
  /\ cancelling' = cancelling \union {r}
  /\ UNCHANGED <<window, site, crashes, siteChanges, schedVars, runVars, rowVars,
                 moneyVars, recovering, pc, job, workVars>>

CancelWrite(r) ==
  /\ r \in cancelling
  /\ cancelling' = cancelling \ {r}
  /\ runs' = [runs EXCEPT ![r].status = "CANCELLED", ![r].recovered = FALSE]
  /\ UNCHANGED <<schedVars, created, rowVars, moneyVars, envVars, recovering,
                 pc, job, workVars>>

-----------------------------------------------------------------------------
(* POST /monitoring/internal/recover.                                       *)

Attended(r) == \E w \in Workers : job[w] = r /\ pc[w] \in Executing

\* The stale timeout passes without a heartbeat.
GoSilent(r) ==
  /\ runs[r].status = "RUNNING" /\ runs[r].fresh
  /\ SlowWorkers \/ ~Attended(r)
  /\ runs' = [runs EXCEPT ![r].fresh = FALSE]
  /\ UNCHANGED <<schedVars, created, rowVars, moneyVars, envVars, pendingVars,
                 pc, job, workVars>>

\* Faults: the heartbeat is ignored; rows that did beat are never stale.
StaleRunsAll == {r \in RunId : runs[r].status = "RUNNING"}
StaleRunsNone == {r \in RunId : runs[r].status = "QUEUED" /\ runs[r].fresh}

StaleRuns == {r \in RunId : runs[r].status = "RUNNING" /\ ~runs[r].fresh}

RecoverScan ==
  /\ recovering = {} /\ StaleRuns # {}
  /\ recovering' = StaleRuns
  /\ UNCHANGED <<schedVars, runVars, rowVars, moneyVars, envVars, cancelling,
                 pc, job, workVars>>

\* The update asks for RUNNING again, not for the heartbeat.
RecoverRun(r) ==
  /\ r \in recovering
  /\ recovering' = recovering \ {r}
  /\ IF runs[r].status = "RUNNING"
     THEN runs' = [runs EXCEPT ![r].status = "FAILED", ![r].recovered = TRUE]
     ELSE UNCHANGED runs
  /\ UNCHANGED <<schedVars, created, rowVars, moneyVars, envVars, cancelling,
                 pc, job, workVars>>

-----------------------------------------------------------------------------
(* A process dies with the worker, or with the tick, it was running.        *)

Crash(w) ==
  /\ crashes < MaxCrashes
  /\ crashes' = crashes + 1
  /\ pc[w] # "idle"
  /\ Idle(w)
  /\ UNCHANGED <<window, site, cancels, siteChanges, schedVars, runVars, rowVars,
                 moneyVars, pendingVars>>

CrashTick(t) ==
  /\ crashes < MaxCrashes
  /\ crashes' = crashes + 1
  /\ due[t] # {} \/ advancing[t] # NoSchedule
  /\ due' = [due EXCEPT ![t] = {}]
  /\ advancing' = [advancing EXCEPT ![t] = NoSchedule]
  /\ UNCHANGED <<window, site, cancels, siteChanges, schedules, dueAt, runVars,
                 rowVars, moneyVars, pendingVars, pc, job, workVars>>

-----------------------------------------------------------------------------
TickStep(t) ==
  \/ TickScan(t) \/ TickAdvance(t)
  \/ \E s \in Schedules : TickDeactivate(t, s) \/ TickCreate(t, s)

WorkerStep(w) ==
  \/ PickNext(w) \/ ClaimRun(w) \/ ClaimedElsewhere(w) \/ CancelOrphan(w)
  \/ LoadScope(w) \/ StartManual(w) \/ StartFails(w) \/ StartUnits(w)
  \/ NextSlice(w) \/ EndPass(w) \/ AbortEnds(w)
  \/ StartRound(w) \/ RetryUnit(w) \/ EndRound(w) \/ EndRetries(w)
  \/ Decide(w) \/ WriteResult(w)
  \/ \E u \in Units : UnitStep(w, u)

RecoverStep == RecoverScan \/ \E r \in RunId : GoSilent(r) \/ RecoverRun(r)

UserStep ==
  \/ SetSiteActive
  \/ \E s \in Schedules : SetScheduleActive(s) \/ DeleteSchedule(s)
  \/ \E r \in RunId : CancelRead(r) \/ CancelWrite(r)
  \/ \E w \in Workers : RequestRun(w)

FaultStep ==
  \/ \E w \in Workers : DeadlinePasses(w) \/ Crash(w)
  \/ \E t \in Ticks : CrashTick(t)

Next ==
  \/ AdvanceWindow \/ UserStep \/ FaultStep \/ RecoverStep
  \/ \E t \in Ticks : TickStep(t)
  \/ \E w \in Workers : WorkerStep(w)

Spec == Init /\ [][Next]_vars

\* The cron job keeps calling the three endpoints, time passes and a request in
\* progress goes on; users and failures owe nothing.
Fairness ==
  /\ WF_vars(AdvanceWindow)
  /\ \A t \in Ticks : WF_vars(TickStep(t))
  /\ \A w \in Workers : WF_vars(WorkerStep(w))
  /\ WF_vars(RecoverScan)
  /\ \A r \in RunId : WF_vars(GoSilent(r)) /\ WF_vars(RecoverRun(r))
  /\ \A r \in RunId : WF_vars(CancelWrite(r))

FairSpec == Spec /\ Fairness

-----------------------------------------------------------------------------
(* Properties that hold.                                                    *)

EnvTypes ==
  /\ window \in 0..MaxWindow /\ site \in BOOLEAN
  /\ crashes \in Nat /\ cancels \in Nat /\ siteChanges \in Nat

SchedTypes ==
  /\ schedules \in [Schedules -> [exists : BOOLEAN, active : BOOLEAN, nextRun : Nat]]
  /\ due \in [Ticks -> SUBSET Schedules]
  /\ dueAt \in [Ticks -> 0..MaxWindow]
  /\ advancing \in [Ticks -> Schedules \union {NoSchedule}]

RunTypes == runs \in [RunId -> Run] /\ created \in 0..MaxRuns
RowTypes == completed \in SUBSET Row /\ failed \in SUBSET Row
MoneyTypes == used \in Nat /\ charged \in SUBSET Key
PendingTypes == cancelling \in SUBSET RunId /\ recovering \in SUBSET RunId

HandTypes ==
  /\ pc \in [Workers -> Busy \union {"idle"}]
  /\ job \in [Workers -> 0..MaxRuns]
  /\ \A w \in Workers : pc[w] # "idle" => job[w] \in RunId

WorkTypes ==
  /\ scope \in [Workers -> SUBSET Units]
  /\ stage \in [Workers -> [Units -> Stages]]
  /\ queue \in [Workers -> SUBSET Units]
  /\ rounds \in [Workers -> 0..MaxRetries]
  /\ tally \in [Workers -> [success : Nat, failure : Int, credit : Nat]]
  /\ expired \in [Workers -> BOOLEAN]
  /\ verdict \in [Workers -> RunStatus]

\* Type correctness of every table and every worker-local variable.
TypeOK ==
  /\ EnvTypes /\ SchedTypes /\ RunTypes /\ RowTypes
  /\ MoneyTypes /\ PendingTypes /\ HandTypes /\ WorkTypes

\* Whatever the interleaving of workers executing the same unit, retries and
\* crashes: every increment of the counter belongs to a different observation,
\* and the counter never passes the limit (consumeOnSuccess, consumeUsage).
UsageIsCharged ==
  /\ used = Cardinality(charged)
  /\ charged \subseteq Observed
  /\ used <= Limit

\* The unique index on (scheduleId, windowKey): overlapping or repeated ticks
\* create one run per schedule and window (claimDueRuns).
OneRunPerWindow ==
  \A q, r \in RunId :
    /\ runs[q].status # "ABSENT" /\ runs[r].status # "ABSENT"
    /\ runs[q].stamp = 0 /\ runs[r].stamp = 0
    /\ runs[q].sched = runs[r].sched /\ runs[q].sched # NoSchedule
    /\ runs[q].window = runs[r].window
    => q = r

\* A scheduled run is never in the hands of two workers (executeNextRun).
ScheduledRunExclusive ==
  \A v, w \in Workers :
    /\ pc[v] \in Executing /\ pc[w] \in Executing
    /\ job[v] = job[w] /\ runs[job[v]].stamp = 0
    => v = w

\* A scheduled run about to be reported COMPLETED has an observation for every
\* one of its units: the failure count that decides it is right although retries
\* decrement it and duplicates and deadlines change it (executeRunUnits).
VerdictHonest ==
  \A w \in Workers :
    /\ pc[w] = "write" /\ verdict[w] = "COMPLETED"
    /\ runs[job[w]].stamp = 0
    => \A u \in scope[w] : KeyOf(u, job[w]) \in Observed

\* What a scheduled run is about to report is what happened: successCount is
\* the number of its rows and creditUsed the number of those that were charged.
AccountsMatch ==
  \A w \in Workers :
    pc[w] = "write" /\ runs[job[w]].stamp = 0
    => LET own == {row[1] : row \in RowsOf(completed, job[w])} IN
         /\ tally[w].success = Cardinality(own)
         /\ tally[w].credit = Cardinality(own \intersect charged)

\* A scheduled run is started at most once in its life: cancelled, recovered or
\* finished, it never becomes QUEUED or RUNNING again.
NoScheduledRestart ==
  [][\A r \in RunId :
       runs[r].stamp = 0 /\ runs[r].status \in Terminal
         => runs'[r].status \in Terminal]_vars

\* Recovery spares a scheduled run that a worker is still executing, as long as
\* workers beat within the stale timeout (recoverStaleRuns).
RecoverySparesLive ==
  [][\A r \in RunId :
       /\ ~runs[r].recovered /\ runs'[r].recovered
       /\ runs[r].stamp = 0 /\ ~SlowWorkers
       => ~Attended(r)]_vars

\* Every run comes to rest in a terminal status, crashes and aborted executions
\* included.
RunsSettle ==
  \A r \in RunId : <>[](runs[r].status \in Terminal \union {"ABSENT"})

\* A schedule that is due is moved past the window it was due in, unless it is
\* switched off or deleted.
DueIsServed ==
  \A s \in Schedules :
    s \in DueSchedules ~> s \notin DueSchedules

-----------------------------------------------------------------------------
(* Statements of the documentation the code does not keep.                  *)

\* "Provider failure mid-run -> run ends PARTIAL": without a crash, a RUNNING
\* run is being executed by somebody.
ProviderFailureEndsRun ==
  crashes = 0 /\ siteChanges = 0
    => \A r \in RunId : runs[r].status = "RUNNING" => Attended(r)

\* "Nothing is re-charged; safe retry happens through a fresh run (idempotency
\* keys skip already-succeeded work)".
FreshRunSkipsDone ==
  \A q, r \in RunId :
    /\ q < r /\ runs[q].recovered /\ runs[r].status # "ABSENT"
    /\ runs[q].sched = runs[r].sched /\ runs[q].window = runs[r].window
    => ~\E u \in Units : KeyOf(u, q) \in charged /\ KeyOf(u, r) \in charged

-----------------------------------------------------------------------------
\* Every behaviour is a behaviour of the abstract ledger.
Ledger == INSTANCE ChargeLedger WITH observed <- Observed
ImplementsLedger == Ledger!LedgerSpec
=============================================================================
