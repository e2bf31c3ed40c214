--------------------------- MODULE ScheduledBatch ---------------------------
(***************************************************************************)
(* The scheduled worker: the hosted execution path of the platform.        *)
(*                                                                         *)
(* Worker processes (apps/worker/src/scheduled-worker.ts) admit at most    *)
(* one batch per wall-clock slot, claim due outbox rows one at a time, run *)
(* the canonical job handler against a 90 s timer and record the outcome.  *)
(* All coordination is in Postgres: the functions of migration             *)
(* 0036_worker_resource_schedule.sql and the owner's recovery operation in *)
(* packages/db/src/platform/worker-resources.ts.                           *)
(*                                                                         *)
(* One action is one database transaction or one step of the worker's      *)
(* event loop.  A database call of the worker may succeed, fail without    *)
(* effect, or commit and lose its answer.  A process may stop gracefully,  *)
(* be killed and be started again.  A handler that outlives the timer is   *)
(* not cancelled: it stays in "live" and may still commit.                 *)
(***************************************************************************)
EXTENDS Integers, FiniteSets

CONSTANTS
  Worker,        \* worker processes (replicas, or old and new deployment)
  TenantJob,     \* outbox_job rows: source_event.normalize
  NormalizeJob,  \* platform_outbox rows whose handler is one transaction
  WorkJob,       \* platform_outbox rows whose handler commits, then marks
  Malformed,     \* rows whose payload does not match their durable scope
  Setting,       \* settings the owner may select: disabled, or enabled in a mode
  MaxJobs,       \* worker_resource_settings.max_jobs
  MaxAttempts,   \* attempts of one job (3 in the code)
  RunWindow,     \* ticks from admission to deadline_at (180 seconds)
  CloseGrace,    \* ticks past the deadline before an owner may close (10 min)
  RetryDelay,    \* ticks before a retry is due again (15 minutes)
  SlotPeriod,    \* ticks between two admission slots (1 hour)
  DayLength,     \* ticks in a Phoenix day
  DayWindows,    \* metered windows a day allows (12000 / 600)
  Horizon,       \* bound: last tick of the run
  MaxFaults,     \* bound: database calls that fail
  MaxKills       \* bound: processes killed

Job == TenantJob \cup NormalizeJob \cup WorkJob
Platform == NormalizeJob \cup WorkJob

ASSUME JobAssumption ==
  /\ TenantJob \cap Platform = {}
  /\ NormalizeJob \cap WorkJob = {}
  /\ Malformed \subseteq Job

RunMode == {"free_only", "metered_redis"}
ASSUME SettingAssumption == Setting \subseteq {"disabled"} \cup RunMode

ASSUME BoundAssumption ==
  /\ MaxJobs \in Nat \ {0}
  /\ MaxAttempts \in Nat \ {0}
  /\ {RunWindow, CloseGrace, SlotPeriod, DayLength} \subseteq Nat \ {0}
  /\ {DayWindows, Horizon, MaxFaults, MaxKills} \subseteq Nat

\* A retry is due 15 minutes later; a batch admits jobs for 180 seconds.
ASSUME RetryAssumption == RetryDelay \in Nat /\ RetryDelay >= RunWindow

\* A run is identified by its slot (slot is UNIQUE), a slot by its first tick.
Slot == {t \in 0..Horizon : t % SlotPeriod = 0}
NoRun == -1
CONSTANT NoJob
ASSUME NoJobAssumption == NoJob \notin Job

VARIABLES
  now,          \* database time, in ticks
  settings,     \* worker_resource_settings: "disabled" or the enabled mode
  runs,         \* scheduled_worker_run, by slot
  claim,        \* scheduled_job_claim, by job
  outbox,       \* status of the outbox row of each job
  availableAt,  \* available_at of the outbox row
  committed,    \* the handler's own work has been committed
  pc,           \* where each process is in executeScheduledCycle
  mine,         \* the run the process is executing
  hosted,       \* the runs admitted by this process since it started
  job,          \* the job of the current iteration
  attempt,      \* its attempt, as returned by claim_scheduled_job
  fin,          \* the state the pending finishJob call records
  inTry,        \* that call is made inside the loop's inner try
  status,       \* the local "status" of the cycle
  stopping,     \* stop() has been called
  live,         \* handler executions of this process that have not settled
  faults, kills \* database failures and kills so far

dbVars == <<runs, claim, outbox, availableAt>>
localVars == <<mine, hosted, job, attempt, fin, inTry, status, stopping>>
bounds == <<faults, kills>>
vars == <<now, settings, dbVars, committed, pc, localVars, live, bounds>>

RunStatus == {"none", "running", "completed", "failed", "indeterminate"}
ClaimState == {"none", "running", "processed", "retry", "failed", "indeterminate"}
OutboxStatus == {"absent", "pending", "published", "processed", "failed"}
FinState == {"processed", "retry", "failed", "indeterminate"}
Control == {"down", "idle", "metered", "prepare", "loop", "handling", "finish", "close"}

Open(s) == runs[s].status \in {"running", "indeterminate"}
Deadline(s) == s + RunWindow

\* Every variable holds a value of its kind.
TypeOK ==
  /\ now \in 0..Horizon
  /\ settings \in Setting
  /\ runs \in [Slot -> [status : RunStatus, mode : RunMode,
                        attempted : Nat, processed : Nat, failures : Nat]]
  /\ claim \in [Job -> [state : ClaimState, run : Slot \cup {NoRun}, attempt : Nat]]
  /\ outbox \in [Job -> OutboxStatus]
  /\ availableAt \in [Job -> Nat]
  /\ committed \in [Job -> BOOLEAN]
  /\ pc \in [Worker -> Control]
  /\ mine \in [Worker -> Slot \cup {NoRun}]
  /\ hosted \in [Worker -> SUBSET Slot]
  /\ job \in [Worker -> Job \cup {NoJob}]
  /\ attempt \in [Worker -> Nat]
  /\ fin \in [Worker -> FinState]
  /\ inTry \in [Worker -> BOOLEAN]
  /\ status \in [Worker -> {"completed", "indeterminate"}]
  /\ stopping \in [Worker -> BOOLEAN]
  /\ live \in [Worker -> SUBSET Job]
  /\ faults \in 0..MaxFaults
  /\ kills \in 0..MaxKills

Init ==
  /\ now = 0
  /\ settings \in Setting
  /\ runs = [s \in Slot |-> [status |-> "none", mode |-> "free_only",
                             attempted |-> 0, processed |-> 0, failures |-> 0]]
  /\ claim = [j \in Job |-> [state |-> "none", run |-> NoRun, attempt |-> 0]]
  /\ outbox = [j \in Job |-> "absent"]
  /\ availableAt = [j \in Job |-> 0]
  /\ committed = [j \in Job |-> FALSE]
  /\ pc = [w \in Worker |-> "idle"]
  /\ mine = [w \in Worker |-> NoRun]
  /\ hosted = [w \in Worker |-> {}]
  /\ job = [w \in Worker |-> NoJob]
  /\ attempt = [w \in Worker |-> 0]
  /\ fin = [w \in Worker |-> "processed"]
  /\ inTry = [w \in Worker |-> FALSE]
  /\ status = [w \in Worker |-> "completed"]
  /\ stopping = [w \in Worker |-> FALSE]
  /\ live = [w \in Worker |-> {}]
  /\ faults = 0
  /\ kills = 0

-----------------------------------------------------------------------------
(* Database calls.  "lost": the transaction did not happen; "unknown": it    *)
(* committed but the worker sees an error.                                   *)

Answer == {"ok", "lost", "unknown"}
Applied(a) == a # "lost"
Answered(a) == /\ a = "ok" \/ faults < MaxFaults
               /\ faults' = IF a = "ok" THEN faults ELSE faults + 1

(* metered_redis_budget_allows: windows reserved today.  The month's ceiling *)
(* (400000 / 600 windows) is more than 20 a day for every day of a month.    *)
BudgetAllows == Cardinality({s \in Slot : /\ runs[s].mode = "metered_redis"
                                          /\ s \div DayLength = now \div DayLength}) < DayWindows

\* Mutant: only the slot's uniqueness guards admission.
AdmissibleBySlotAlone == now \in Slot /\ settings # "disabled" /\ runs[now].status = "none"

(* claim_scheduled_run's conditions, in one transaction under the settings row's lock. *)
RunAdmissible ==
  /\ now \in Slot
  /\ settings # "disabled"
  /\ \A s \in Slot : ~Open(s)
  /\ settings = "metered_redis" => BudgetAllows
  /\ runs[now].status = "none"

\* Mutant: available_at is not looked at.
DueAtOnce == {j \in Job : outbox[j] = "pending" /\ claim[j].state \in {"none", "retry"}}

\* Mutant: any row without a running claim.
DueUnlessRunning == {j \in Job : /\ outbox[j] = "pending"
                                 /\ availableAt[j] =< now
                                 /\ claim[j].state # "running"}

(* The rows claim_scheduled_job may return: pending, due, and without a claim *)
(* in any state but 'retry'.  It takes the oldest row no other transaction    *)
(* has locked (SKIP LOCKED), which may be any of them.                        *)
Due == {j \in Job : /\ outbox[j] = "pending"
                    /\ availableAt[j] =< now
                    /\ claim[j].state \in {"none", "retry"}}

MayClaimJob(s) == /\ runs[s].status = "running"
                  /\ runs[s].mode = "free_only"
                  /\ now < Deadline(s)
                  /\ runs[s].attempted < MaxJobs

\* Mutant: the claim's state is written to the row.
SettledUnmapped(j, state) == IF state = "indeterminate" THEN "pending" ELSE state

(* finish_scheduled_job's outbox status for a row it still finds pending. *)
Settled(j, state) ==
  CASE state = "processed" -> IF j \in TenantJob THEN "published" ELSE "processed"
    [] state = "failed"    -> "failed"
    [] OTHER               -> "pending"

\* Mutant: only final failures are counted.
FinishUncounted(s, j, state) ==
  /\ claim' = [claim EXCEPT ![j].state = state]
  /\ runs' = [runs EXCEPT ![s].processed = IF state = "processed" THEN @ + 1 ELSE @,
                          ![s].failures = IF state = "failed" THEN @ + 1 ELSE @]
  /\ outbox' = [outbox EXCEPT ![j] = IF @ = "pending" THEN Settled(j, state) ELSE @]
  /\ availableAt' = [availableAt EXCEPT ![j] =
                       IF state = "retry" /\ outbox[j] = "pending" THEN now + RetryDelay ELSE @]

\* Mutant: a retry is due at once.
FinishUndelayed(s, j, state) ==
  /\ claim' = [claim EXCEPT ![j].state = state]
  /\ runs' = [runs EXCEPT ![s].processed = IF state = "processed" THEN @ + 1 ELSE @,
                          ![s].failures = IF state = "processed" THEN @ ELSE @ + 1]
  /\ outbox' = [outbox EXCEPT ![j] = IF @ = "pending" THEN Settled(j, state) ELSE @]
  /\ UNCHANGED availableAt

(* The effects of finish_scheduled_job on a claim it finds running. *)
FinishScheduledJob(s, j, state) ==
  /\ claim' = [claim EXCEPT ![j].state = state]
  /\ runs' = [runs EXCEPT ![s].processed = IF state = "processed" THEN @ + 1 ELSE @,
                          ![s].failures = IF state = "processed" THEN @ ELSE @ + 1]
  /\ outbox' = [outbox EXCEPT ![j] = IF @ = "pending" THEN Settled(j, state) ELSE @]
  /\ availableAt' = [availableAt EXCEPT ![j] =
                       IF state = "retry" /\ outbox[j] = "pending" THEN now + RetryDelay ELSE @]

ClaimFound(w) == claim[job[w]].run = mine[w] /\ claim[job[w]].state = "running"

-----------------------------------------------------------------------------
(* executeScheduledCycle *)

(* Inside a slot the process asks for a batch; a refusal changes nothing. *)
ClaimRun(w) ==
  /\ pc[w] = "idle" /\ ~stopping[w]
  /\ RunAdmissible
  /\ runs' = [runs EXCEPT ![now].status = "running", ![now].mode = settings]
  /\ hosted' = [hosted EXCEPT ![w] = @ \cup {now}]
  /\ \/ /\ Answered("ok")
        /\ pc' = [pc EXCEPT ![w] = IF settings = "metered_redis" THEN "metered" ELSE "prepare"]
        /\ mine' = [mine EXCEPT ![w] = now]
     \/ /\ Answered("unknown")           \* outside the try: nobody closes the run
        /\ UNCHANGED <<pc, mine>>
  /\ UNCHANGED <<now, settings, claim, outbox, availableAt, committed, job, attempt,
                 fin, inTry, status, stopping, live, kills>>

(* An error inside the outer try: the cycle ends for review. *)
Review(w) == /\ status' = [status EXCEPT ![w] = "indeterminate"]
             /\ pc' = [pc EXCEPT ![w] = "close"]

(* deps.metered: the Redis window lasts until the deadline, or is refused or  *)
(* broken (settings changed meanwhile, clocks apart, a failure inside).       *)
Metered(w) ==
  /\ pc[w] = "metered"
  /\ \/ /\ now >= Deadline(mine[w])
        /\ pc' = [pc EXCEPT ![w] = "close"]
        /\ UNCHANGED status
     \/ Review(w)
  /\ UNCHANGED <<now, settings, dbVars, committed, mine, hosted, job, attempt, fin,
                 inTry, stopping, live, bounds>>

Enqueue(new) ==
  /\ outbox' = [j \in Job |-> IF j \in new THEN "pending" ELSE outbox[j]]
  /\ availableAt' = [j \in Job |-> IF j \in new THEN now ELSE availableAt[j]]

(* deps.prepare: enqueueDueProviderSyncs inserts the due provider jobs. *)
Prepare(w) ==
  /\ pc[w] = "prepare"
  /\ \E a \in Answer :
       /\ Answered(a)
       /\ \E new \in SUBSET {j \in WorkJob : outbox[j] = "absent"} :
            Enqueue(IF Applied(a) THEN new ELSE {})
       /\ IF a = "ok" THEN /\ pc' = [pc EXCEPT ![w] = "loop"]
                           /\ UNCHANGED status
                      ELSE Review(w)
  /\ UNCHANGED <<now, settings, runs, claim, committed, mine, hosted, job, attempt,
                 fin, inTry, stopping, live, kills>>

(* The loop ends when stopping, past the deadline, or when claim_scheduled_job *)
(* returns nothing.                                                            *)
LeaveLoop(w) ==
  /\ pc[w] = "loop"
  /\ stopping[w] \/ ~MayClaimJob(mine[w]) \/ Due = {}
  /\ pc' = [pc EXCEPT ![w] = "close"]
  /\ UNCHANGED <<now, settings, dbVars, committed, localVars, live, bounds>>

(* A claimed row whose payload does not match its scope is failed without     *)
(* running its handler.                                                       *)
StartHandler(w, j) ==
  /\ j \notin Malformed
  /\ pc' = [pc EXCEPT ![w] = "handling"]
  /\ live' = [live EXCEPT ![w] = @ \cup {j}]
  /\ UNCHANGED <<fin, inTry>>

RejectEnvelope(w, j) ==
  /\ j \in Malformed
  /\ pc' = [pc EXCEPT ![w] = "finish"]
  /\ fin' = [fin EXCEPT ![w] = "failed"]
  /\ inTry' = [inTry EXCEPT ![w] = FALSE]
  /\ UNCHANGED live

(* deps.claimJob; when its answer is lost the claim stays behind. *)
ClaimJob(w, j) ==
  /\ pc[w] = "loop" /\ ~stopping[w]
  /\ MayClaimJob(mine[w])
  /\ j \in Due
  /\ claim' = [claim EXCEPT ![j] = [state |-> "running", run |-> mine[w], attempt |-> @.attempt + 1]]
  /\ runs' = [runs EXCEPT ![mine[w]].attempted = @ + 1]
  /\ \/ /\ Answered("ok")
        /\ job' = [job EXCEPT ![w] = j]
        /\ attempt' = [attempt EXCEPT ![w] = claim[j].attempt + 1]
        /\ StartHandler(w, j) \/ RejectEnvelope(w, j)
        /\ UNCHANGED status
     \/ /\ Answered("unknown")
        /\ Review(w)
        /\ UNCHANGED <<job, attempt, fin, inTry, live>>
  /\ UNCHANGED <<now, settings, outbox, availableAt, committed, mine, hosted, stopping, kills>>

(* claimJob fails before it does anything. *)
ClaimJobLost(w) ==
  /\ pc[w] = "loop" /\ ~stopping[w] /\ now < Deadline(mine[w])
  /\ Answered("lost")
  /\ Review(w)
  /\ UNCHANGED <<now, settings, dbVars, committed, mine, hosted, job, attempt, fin,
                 inTry, stopping, live, kills>>

-----------------------------------------------------------------------------
(* The handler (processNormalizeJob and the bookkeeping of a permanent        *)
(* failure).  "done" commits and returns; "ackLost" commits but reports an    *)
(* error; "half" commits the work of a WorkJob and fails before marking its   *)
(* row; "transient" does nothing; "permanent" is an UnrecoverableJobError     *)
(* whose bookkeeping marks a WorkJob's row; in "unmarked" that write failed   *)
(* and was swallowed.                                                         *)
Outcome == {"done", "ackLost", "half", "transient", "permanent", "unmarked"}

HandlerEffect(j, o) ==
  /\ o = "half" => j \in WorkJob
  /\ committed' = [committed EXCEPT ![j] = @ \/ o \in {"done", "ackLost", "half"}]
  /\ outbox' = [outbox EXCEPT ![j] =
                  CASE j \in Platform /\ o \in {"done", "ackLost"} -> "processed"
                    [] j \in WorkJob /\ o = "permanent"            -> "failed"
                    [] OTHER                                       -> @]

\* What the catch of the inner try asks finishJob to record.
CaughtState(w, unrecoverable) ==
  IF unrecoverable \/ attempt[w] >= MaxAttempts THEN "failed" ELSE "retry"

(* deps.process settles before the timer. *)
HandlerSettles(w, o) ==
  /\ pc[w] = "handling"
  /\ HandlerEffect(job[w], o)
  /\ live' = [live EXCEPT ![w] = @ \ {job[w]}]
  /\ pc' = [pc EXCEPT ![w] = "finish"]
  /\ fin' = [fin EXCEPT ![w] = IF o = "done" THEN "processed"
                               ELSE CaughtState(w, o \in {"permanent", "unmarked"})]
  /\ inTry' = [inTry EXCEPT ![w] = (o = "done")]
  /\ UNCHANGED <<now, settings, runs, claim, availableAt, mine, hosted, job, attempt,
                 status, stopping, bounds>>

\* Mutant: the timed-out job is recorded, the cycle is not left for review.
TimeOutUnreviewed(w) ==
  /\ pc[w] = "handling"
  /\ fin' = [fin EXCEPT ![w] = "indeterminate"]
  /\ inTry' = [inTry EXCEPT ![w] = TRUE]
  /\ pc' = [pc EXCEPT ![w] = "finish"]
  /\ UNCHANGED <<now, settings, dbVars, committed, mine, hosted, job, attempt,
                 status, stopping, live, bounds>>

\* Mutant: the timer resolves the race instead of rejecting it.
TimeOutResolves(w) ==
  /\ pc[w] = "handling"
  /\ fin' = [fin EXCEPT ![w] = "processed"]
  /\ inTry' = [inTry EXCEPT ![w] = TRUE]
  /\ pc' = [pc EXCEPT ![w] = "finish"]
  /\ UNCHANGED <<now, settings, dbVars, committed, mine, hosted, job, attempt,
                 status, stopping, live, bounds>>

(* The 90 s timer wins the race; the handler keeps running. *)
TimeOut(w) ==
  /\ pc[w] = "handling"
  /\ status' = [status EXCEPT ![w] = "indeterminate"]
  /\ fin' = [fin EXCEPT ![w] = "indeterminate"]
  /\ inTry' = [inTry EXCEPT ![w] = TRUE]
  /\ pc' = [pc EXCEPT ![w] = "finish"]
  /\ UNCHANGED <<now, settings, dbVars, committed, mine, hosted, job, attempt,
                 stopping, live, bounds>>

(* A handler nobody awaits any more settles. *)
LateSettle(w, j, o) ==
  /\ j \in live[w]
  /\ ~(pc[w] = "handling" /\ job[w] = j)
  /\ HandlerEffect(j, o)
  /\ live' = [live EXCEPT ![w] = @ \ {j}]
  /\ UNCHANGED <<now, settings, runs, claim, availableAt, pc, localVars, bounds>>

\* The iteration's locals go out of scope.
LeaveIteration(w) ==
  /\ job' = [job EXCEPT ![w] = NoJob]
  /\ attempt' = [attempt EXCEPT ![w] = 0]
  /\ fin' = [fin EXCEPT ![w] = "processed"]
  /\ inTry' = [inTry EXCEPT ![w] = FALSE]

\* The claim was found and recorded: on to the next job, unless it timed out.
Recorded(w) ==
  /\ pc' = [pc EXCEPT ![w] = IF fin[w] = "indeterminate" THEN "close" ELSE "loop"]
  /\ LeaveIteration(w)
  /\ UNCHANGED status

\* Mutant: finishJob is called until it succeeds.
FinishErrorInsists(w) ==
  /\ fin' = [fin EXCEPT ![w] = CaughtState(w, FALSE)]
  /\ UNCHANGED <<pc, job, attempt, status, inTry>>

(* An error of a call made inside the inner try is caught there and answered  *)
(* with a second call; an error of that one ends the cycle for review.        *)
FinishError(w) ==
  IF inTry[w]
    THEN /\ fin' = [fin EXCEPT ![w] = CaughtState(w, FALSE)]
         /\ inTry' = [inTry EXCEPT ![w] = FALSE]
         /\ UNCHANGED <<pc, job, attempt, status>>
    ELSE Review(w) /\ LeaveIteration(w)

(* deps.finishJob *)
FinishJob(w) ==
  /\ pc[w] = "finish"
  /\ \E a \in Answer :
       /\ Answered(a)
       /\ IF Applied(a) /\ ClaimFound(w)
            THEN FinishScheduledJob(mine[w], job[w], fin[w])
            ELSE UNCHANGED dbVars
       /\ IF a = "ok" /\ ClaimFound(w) THEN Recorded(w) ELSE FinishError(w)
  /\ UNCHANGED <<now, settings, committed, mine, hosted, stopping, live, kills>>

\* Mutant: the end of a cycle forgets that stop() was called.
CloseRunRearms(w) ==
  /\ pc[w] = "close"
  /\ \E a \in Answer :
       /\ Answered(a)
       /\ runs' = IF Applied(a) /\ runs[mine[w]].status = "running"
                    THEN [runs EXCEPT ![mine[w]].status = status[w]]
                    ELSE runs
  /\ pc' = [pc EXCEPT ![w] = "idle"]
  /\ mine' = [mine EXCEPT ![w] = NoRun]
  /\ status' = [status EXCEPT ![w] = "completed"]
  /\ stopping' = [stopping EXCEPT ![w] = FALSE]
  /\ UNCHANGED <<now, settings, claim, outbox, availableAt, committed, hosted, job, attempt,
                 fin, inTry, live, kills>>

(* deps.finishRun in the finally; if it fails the run stays open. *)
CloseRun(w) ==
  /\ pc[w] = "close"
  /\ \E a \in Answer :
       /\ Answered(a)
       /\ runs' = IF Applied(a) /\ runs[mine[w]].status = "running"
                    THEN [runs EXCEPT ![mine[w]].status = status[w]]
                    ELSE runs
  /\ pc' = [pc EXCEPT ![w] = "idle"]
  /\ mine' = [mine EXCEPT ![w] = NoRun]
  /\ status' = [status EXCEPT ![w] = "completed"]
  /\ UNCHANGED <<now, settings, claim, outbox, availableAt, committed, hosted, job, attempt,
                 fin, inTry, stopping, live, kills>>

-----------------------------------------------------------------------------
(* The process *)

(* stop() during a cycle: the loop ends at its next check, no cycle follows. *)
Stop(w) ==
  /\ pc[w] \notin {"down", "idle"} /\ ~stopping[w]
  /\ stopping' = [stopping EXCEPT ![w] = TRUE]
  /\ UNCHANGED <<now, settings, dbVars, committed, pc, mine, hosted, job, attempt, fin,
                 inTry, status, live, bounds>>

\* The process is gone, with its handlers and everything it remembered.
Gone(w) ==
  /\ pc' = [pc EXCEPT ![w] = "down"]
  /\ mine' = [mine EXCEPT ![w] = NoRun]
  /\ hosted' = [hosted EXCEPT ![w] = {}]
  /\ LeaveIteration(w)
  /\ status' = [status EXCEPT ![w] = "completed"]
  /\ stopping' = [stopping EXCEPT ![w] = FALSE]
  /\ live' = [live EXCEPT ![w] = {}]
  /\ UNCHANGED <<now, settings, dbVars, committed, faults>>

(* stop() has awaited the cycle, or found none: the latch exits the process. *)
Exit(w) == pc[w] = "idle" /\ Gone(w) /\ UNCHANGED kills

(* A crash, or the latch's forced exit. *)
Kill(w) == pc[w] # "down" /\ kills < MaxKills /\ Gone(w) /\ kills' = kills + 1

Start(w) ==
  /\ pc[w] = "down"
  /\ pc' = [pc EXCEPT ![w] = "idle"]
  /\ UNCHANGED <<now, settings, dbVars, committed, localVars, live, bounds>>

-----------------------------------------------------------------------------
(* Operators and the rest of the platform *)

\* Mutant: the run is closed and its claims are left running.
OwnerCloseRunOnly(s) ==
  /\ Open(s)
  /\ Deadline(s) + CloseGrace < now
  /\ \A w \in Worker : s \notin hosted[w]
  /\ runs' = [runs EXCEPT ![s].status = "failed"]
  /\ UNCHANGED <<now, settings, claim, outbox, availableAt, committed, pc, localVars, live, bounds>>

(* closeInterruptedScheduledRun.  "Only after verifying the previous process  *)
(* is stopped": no running process is the one that admitted s.                *)
OwnerClose(s) ==
  /\ Open(s)
  /\ Deadline(s) + CloseGrace < now
  /\ \A w \in Worker : s \notin hosted[w]
  /\ runs' = [runs EXCEPT ![s].status = "failed"]
  /\ claim' = [j \in Job |-> IF claim[j].run = s /\ claim[j].state = "running"
                               THEN [claim[j] EXCEPT !.state = "indeterminate"]
                               ELSE claim[j]]
  /\ UNCHANGED <<now, settings, outbox, availableAt, committed, pc, localVars, live, bounds>>

(* updateWorkerResources *)
ChangeSettings ==
  /\ settings' \in Setting \ {settings}
  /\ UNCHANGED <<now, dbVars, committed, pc, localVars, live, bounds>>

(* retryFailedPlatformJob *)
AdminRetry(j) ==
  /\ j \in Platform /\ outbox[j] = "failed"
  /\ outbox' = [outbox EXCEPT ![j] = "pending"]
  /\ availableAt' = [availableAt EXCEPT ![j] = now]
  /\ UNCHANGED <<now, settings, runs, claim, committed, pc, localVars, live, bounds>>

(* insertOutboxJob and enqueuePlatformJob: an accepted event or a follow-up. *)
Submit(j) ==
  /\ outbox[j] = "absent"
  /\ Enqueue({j})
  /\ UNCHANGED <<now, settings, runs, claim, committed, pc, localVars, live, bounds>>

Tick ==
  /\ now < Horizon
  /\ now' = now + 1
  /\ UNCHANGED <<settings, dbVars, committed, pc, localVars, live, bounds>>

Cycle(w) ==
  \/ Metered(w) \/ Prepare(w) \/ LeaveLoop(w) \/ ClaimJobLost(w)
  \/ \E j \in Job : ClaimJob(w, j)
  \/ TimeOut(w) \/ FinishJob(w) \/ CloseRun(w)

Process(w) ==
  \/ ClaimRun(w) \/ Cycle(w) \/ Stop(w) \/ Exit(w) \/ Kill(w) \/ Start(w)
  \/ \E o \in Outcome : \/ HandlerSettles(w, o)
                        \/ \E j \in Job : LateSettle(w, j, o)

Environment ==
  \/ \E s \in Slot : OwnerClose(s)
  \/ ChangeSettings
  \/ \E j \in Job : AdminRetry(j) \/ Submit(j)
  \/ Tick

Next == (\E w \in Worker : Process(w)) \/ Environment

Spec == Init /\ [][Next]_vars

(* Time passes, the event loop and the timers run; nothing obliges a handler   *)
(* to settle, a metered window to break off before its deadline, a process to  *)
(* be killed or restarted, or an operator to act.                              *)
Runs(w) == (pc[w] = "metered" => now >= Deadline(mine[w])) /\ Cycle(w)

Fairness ==
  /\ WF_vars(Tick)
  /\ \A w \in Worker : WF_vars(Runs(w)) /\ WF_vars(stopping[w] /\ Exit(w))

FairSpec == Spec /\ Fairness

-----------------------------------------------------------------------------
(* Safety *)

InBatch(w) == pc[w] \in Control \ {"down", "idle"}

(* At most one process is executing a batch, whatever was killed, restarted,   *)
(* lost on the wire or closed by the owner in between (claim_scheduled_run     *)
(* refuses while a run is open; finish_scheduled_run and                       *)
(* closeInterruptedScheduledRun are the only ways to close one).               *)
SingleBatch == \A v, w \in Worker : InBatch(v) /\ InBatch(w) => v = w

(* A job's handler is never started while an execution of the same job is      *)
(* still running anywhere, a timed-out one included: the row of a timed-out    *)
(* job is either unresolved or, if recording that failed, retried no sooner    *)
(* than after the batch that may still be executing it.                        *)
NeverRestartedWhileLive ==
  [][\A w \in Worker, j \in Job :
       claim'[j].attempt > claim[j].attempt => j \notin live[w]]_vars

(* A claim some process left behind stays visible: it belongs to a run that is *)
(* still open, so the owner's health page shows it until it is closed.         *)
RunningClaimHasOpenRun ==
  \A j \in Job : claim[j].state = "running" => Open(claim[j].run)

(* A run recorded as completed left nothing unresolved: every claim it still   *)
(* owns was recorded, and no handler it started is still running.              *)
CompletedRunIsSettled ==
  \A j \in Job : claim[j].state # "none" /\ runs[claim[j].run].status = "completed" =>
    /\ claim[j].state \in {"processed", "retry", "failed"}
    /\ \A w \in Worker : j \notin live[w]

(* A job is recorded as handled only when its work was committed.              *)
HandledWasCommitted ==
  \A j \in Job :
    claim[j].state = "processed" \/ outbox[j] \in {"published", "processed"} => committed[j]

(* The counters the owner reads add up: every attempt of an open or completed  *)
(* run was counted as processed, as a failure, or is the claim still running.  *)
CountersAddUp ==
  \A s \in Slot : runs[s].status # "failed" =>
    runs[s].attempted = runs[s].processed + runs[s].failures
      + Cardinality({j \in Job : claim[j].run = s /\ claim[j].state = "running"})

(* A job gets no more attempts than the loop allows, and one batch executes it *)
(* at most once: a transient failure waits for another batch.  The exception   *)
(* is a WorkJob whose timed-out handler marked its row failed while recording  *)
(* the timeout failed too: an operator may requeue that row within the batch.  *)
OncePerBatch ==
  [][\A j \in Job : claim'[j].attempt > claim[j].attempt =>
       /\ claim'[j].attempt =< MaxAttempts
       /\ j \notin WorkJob => claim'[j].run # claim[j].run]_vars

-----------------------------------------------------------------------------
(* The abstract specification *)

PhaseOf(c) ==
  CASE c = "running"       -> "executing"
    [] c = "processed"     -> "handled"
    [] c = "failed"        -> "buried"
    [] c = "indeterminate" -> "unresolved"
    [] OTHER               -> "waiting"

Delivery == INSTANCE JobDelivery WITH
  phase <- [j \in Job |-> PhaseOf(claim[j].state)],
  tries <- [j \in Job |-> claim[j].attempt]

(* Read as a record of what happened to each job, the claims implement the     *)
(* delivery promise: claims that were processed, failed or left indeterminate  *)
(* are final, attempts are bounded, nothing uncommitted is handled.            *)
DeliversJobs == Delivery!Spec

-----------------------------------------------------------------------------
(* Liveness *)

(* Every batch ends, even when a handler never settles. *)
BatchEnds == \A w \in Worker : InBatch(w) ~> ~InBatch(w)

(* A process asked to stop leaves, and takes no further batch. *)
StopCompletes == \A w \in Worker : stopping[w] ~> pc[w] = "down"

-----------------------------------------------------------------------------
(* Statements of the repository that do not hold *)

(* "Promise timeout is NOT cancellation. Never start overlapping work."        *)
(* (scheduled-worker.ts:67): a process runs at most one handler.               *)
NeverStartsOverlappingWork == \A w \in Worker : Cardinality(live[w]) =< 1

(* "Failed platform jobs can still be retried by the existing admin retry      *)
(* helper." (docs/PHASE_25.md:30): a job the helper made pending again is not  *)
(* hidden from claim_scheduled_job.                                            *)
RetriedJobIsClaimable ==
  \A j \in Platform : outbox[j] = "pending" => claim[j].state # "failed"
=============================================================================
