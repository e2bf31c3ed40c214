--------------------------- MODULE JobTransports ---------------------------
(***************************************************************************)
(* Two transports over one platform outbox.                                *)
(*                                                                         *)
(* A hosted worker runs one batch at a time (ScheduledBatch shows that).   *)
(* A free_only batch claims rows in Postgres.  A metered_redis batch opens *)
(* a Redis window until the run's deadline: inside it the continuous       *)
(* worker sweeps the outbox into BullMQ and takes jobs from the queue; the *)
(* queue outlives the window.  The owner may change the mode between two   *)
(* batches, so a job may meet both transports.  The questions are whether  *)
(* a change of transport replays a job that the other one handled or left  *)
(* unresolved, and whether Redis is used outside the window.               *)
(*                                                                         *)
(* One action is one transaction, one Redis command or one timer.  Retry   *)
(* delays are left out: a pending row may be taken at any later time.      *)
(***************************************************************************)
EXTENDS Integers

CONSTANTS
  Job,          \* platform_outbox rows
  Mode,         \* settings the owner selects from
  Sweep,        \* sweeps that may be in flight: setInterval does not wait
  RunWindow,    \* ticks from admission to deadline_at (180 s)
  MaxAttempts,  \* attempts of a job, in each transport
  MaxPublish,   \* MAX_OUTBOX_PUBLISH_ATTEMPTS (20); the count of failures stops there
  Skew,         \* differences of the worker's clock and the database's
  MaxBatches,   \* bound: batches admitted
  MaxFaults,    \* bound: answers lost
  Horizon       \* bound: last tick

ASSUME TransportAssumption ==
  /\ {RunWindow, MaxAttempts, MaxPublish} \subseteq Nat \ {0}
  /\ {MaxBatches, MaxFaults, Horizon} \subseteq Nat
  /\ Skew \subseteq Int
  /\ Mode \subseteq {"disabled", "free_only", "metered_redis"}

VARIABLES
  now,       \* database time
  skew,      \* the worker's clock is now + skew
  mode,      \* worker_resource_settings
  batch,     \* where the process that runs batches is
  deadline,  \* scheduled_worker_run.deadline_at of the current run, 0 without one
  opened,    \* when the current window opened, 0 outside one
  row,       \* platform_outbox.status
  fails,     \* platform_outbox.attempts: failed publications and failed or retried batch attempts
  claim,     \* scheduled_job_claim.state
  tries,     \* scheduled_job_claim.attempt
  redis,     \* state of the job in BullMQ
  made,      \* attempts BullMQ has made
  atomic,    \* jobs whose handler commits work and row in one transaction
  exec,      \* executions: who waits for them, and how far they are
  sweep,     \* publications in flight: where, and of which row
  stray,     \* history: rows in Redis whose mark was lost or undone, or whose sweep
             \* scanned the table: nothing keeps the scheduled path from them
  batches, faults

transport == <<row, fails, claim, tries, redis, made>>
clock == <<now, skew, deadline, opened, atomic>>
bounds == <<batches, faults>>
vars == <<clock, mode, batch, transport, exec, sweep, stray, bounds>>

Batch == {"none", "free", "opening", "window", "draining", "review"}
ClaimState == {"none", "running", "processed", "retry", "failed", "indeterminate"}
Execution == [job : Job, by : {"batch", "redis", "closedRedis", "lateBatch", "lateRedis"},
              stage : {"start", "worked"}, attempt : 1..MaxAttempts]
Idle == [at |-> "idle"]
Publication == [at : {"read", "add", "mark", "fail"}, job : Job,
                open : BOOLEAN, scan : BOOLEAN]

\* Every variable holds a value of its kind; attempts stay within their limits in
\* either transport, and only a row in flight has a publication.
TypeOK ==
  /\ now \in 0..Horizon /\ skew \in Skew
  /\ mode \in Mode /\ batch \in Batch
  /\ deadline \in Nat /\ opened \in Nat
  /\ row \in [Job -> {"pending", "published", "processed", "failed"}]
  /\ fails \in [Job -> 0..MaxPublish]
  /\ claim \in [Job -> ClaimState]
  /\ tries \in [Job -> 0..MaxAttempts]
  /\ redis \in [Job -> {"absent", "waiting", "active", "failed"}]
  /\ made \in [Job -> 0..MaxAttempts]
  /\ atomic \subseteq Job
  /\ exec \subseteq Execution
  /\ sweep \in [Sweep -> {Idle} \cup Publication]
  /\ stray \subseteq Job
  /\ batches \in 0..MaxBatches /\ faults \in 0..MaxFaults

Init ==
  /\ now = 0 /\ skew \in Skew
  /\ mode \in Mode /\ batch = "none"
  /\ deadline = 0 /\ opened = 0
  /\ row = [j \in Job |-> "pending"]
  /\ fails = [j \in Job |-> 0]
  /\ claim = [j \in Job |-> "none"]
  /\ tries = [j \in Job |-> 0]
  /\ redis = [j \in Job |-> "absent"]
  /\ made = [j \in Job |-> 0]
  /\ atomic \in SUBSET Job
  /\ exec = {}
  /\ sweep = [s \in Sweep |-> Idle]
  /\ stray = {}
  /\ batches = 0 /\ faults = 0

Fault == faults < MaxFaults /\ faults' = faults + 1
NoFault == UNCHANGED faults
OwnedBy(t) == {e \in exec : e.by = t}
Abandoned(S) == {[e EXCEPT !.by = IF @ = "batch" THEN "lateBatch" ELSE "lateRedis"] : e \in S}

(* The connections of a window belong to it: what is left of its sweeps and    *)
(* executions has no Redis any more, not even in a later window.               *)
Disconnected(S) == {[e EXCEPT !.by = IF @ = "redis" THEN "closedRedis" ELSE @] : e \in S}

-----------------------------------------------------------------------------
(* The owner, and time. *)

SelectMode(m) ==
  /\ mode # m
  /\ mode' = m
  /\ UNCHANGED <<clock, batch, transport, exec, sweep, stray, bounds>>

(* retryFailedPlatformJob: neither the claim nor the job in Redis is looked at. *)
AdminRetry(j) ==
  /\ row[j] = "failed"
  /\ row' = [row EXCEPT ![j] = "pending"]
  /\ stray' = IF redis[j] = "absent" THEN stray ELSE stray \cup {j}
  /\ UNCHANGED <<clock, mode, batch, fails, claim, tries, redis, made, exec, sweep, bounds>>

(* closeInterruptedScheduledRun: the process is stopped; running claims become *)
(* indeterminate and nothing is requeued.                                      *)
OwnerClose ==
  /\ batch = "review"
  /\ batch' = "none"
  /\ claim' = [j \in Job |-> IF claim[j] = "running" THEN "indeterminate" ELSE claim[j]]
  /\ exec' = {}
  /\ sweep' = [s \in Sweep |-> Idle]
  /\ deadline' = 0
  /\ UNCHANGED <<now, skew, opened, atomic, mode, row, fails, tries, redis, made, stray, bounds>>

WorkerNow == now + skew

(* Timers fire before time goes on: the window's expiry is one. *)
Tick ==
  /\ now < Horizon
  /\ ~(batch = "window" /\ WorkerNow >= deadline)
  /\ now' = now + 1
  /\ UNCHANGED <<skew, deadline, opened, atomic, mode, batch, transport, exec, sweep,
                 stray, bounds>>

-----------------------------------------------------------------------------
(* Batches and the metered window. *)

(* claim_scheduled_run *)
Admit ==
  /\ batch = "none" /\ mode # "disabled"
  /\ batches < MaxBatches
  /\ batches' = batches + 1
  /\ batch' = IF mode = "metered_redis" THEN "opening" ELSE "free"
  /\ deadline' = now + RunWindow
  /\ UNCHANGED <<now, skew, opened, atomic, mode, transport, exec, sweep, stray, faults>>

\* Mutant: a deadline further than the window is not refused.
WindowValidUnbounded == WorkerNow < deadline

(* The two clocks meet here: deadline_at is the database's, Date.now() the worker's. *)
WindowValid == WorkerNow < deadline /\ deadline =< WorkerNow + RunWindow

(* withMeteredRedisPermission reads the settings again; a refused window is an *)
(* error of the batch, which is left for review.                               *)
OpenWindow ==
  /\ batch = "opening"
  /\ IF mode = "metered_redis" /\ WindowValid
       THEN batch' = "window" /\ opened' = now
       ELSE batch' = "review" /\ UNCHANGED opened
  /\ UNCHANGED <<now, skew, deadline, atomic, mode, transport, exec, sweep, stray, bounds>>

(* The expiry timer disconnects every client, then the worker is stopped. *)
Revoke ==
  /\ batch = "window" /\ WorkerNow >= deadline
  /\ batch' = "draining"
  /\ opened' = 0
  /\ exec' = Disconnected(exec)
  /\ sweep' = [s \in Sweep |-> IF sweep[s].at = "idle" THEN Idle ELSE [sweep[s] EXCEPT !.open = FALSE]]
  /\ UNCHANGED <<now, skew, deadline, atomic, mode, transport, stray, bounds>>

(* stop(): closing the worker waits for its jobs, until the drain times out.   *)
(* The process goes on, and with it what it left running.                      *)
Drained ==
  /\ batch = "draining"
  /\ batch' = "none"
  /\ deadline' = 0
  /\ UNCHANGED <<now, skew, opened, atomic, mode, transport, exec, sweep, stray, bounds>>

(* A killed process leaves its run open for the owner. *)
Killed ==
  /\ batch # "none" /\ Fault
  /\ batch' = "review"
  /\ exec' = {}
  /\ sweep' = [s \in Sweep |-> Idle]
  /\ opened' = 0
  /\ UNCHANGED <<now, skew, deadline, atomic, mode, transport, stray, batches>>

Permitted == batch = "window"

-----------------------------------------------------------------------------
(* The sweep: dispatchPendingPlatformOutbox and publishPlatformOutboxJob. *)

\* Mutant: the function hides the claims in hand only.
ListedUnlessRunning == {j \in Job : row[j] = "pending" /\ claim[j] # "running"}

(* list_pending_platform_outbox *)
Listed == {j \in Job : row[j] = "pending" /\ claim[j] \in {"none", "retry"}}

(* The catch of listPendingPlatformOutbox: after any error of the function the *)
(* table is scanned by status, whatever the claims say.                        *)
Scanned == {j \in Job : row[j] = "pending"}

(* What a scan finds that the function lists as well is as if listed by it. *)
StartSweep(s, j) ==
  /\ batch = "window"
  /\ sweep[s].at = "idle"
  /\ \/ j \in Listed /\ NoFault
     \/ j \in Scanned \ Listed /\ Fault
  /\ sweep' = [sweep EXCEPT ![s] = [at |-> "read", job |-> j, open |-> TRUE, scan |-> j \notin Listed]]
  /\ UNCHANGED <<clock, mode, batch, transport, exec, stray, batches>>

ReadRow(s) ==
  /\ sweep[s].at = "read"
  /\ sweep' = [sweep EXCEPT ![s] = IF row[@.job] \in {"published", "processed"} THEN Idle
                                   ELSE [@ EXCEPT !.at = "add"]]
  /\ UNCHANGED <<clock, mode, batch, transport, exec, stray, bounds>>

(* queue.add: a job id BullMQ knows, even a failed one, is not added again.  *)
(* The command may fail, or be applied while its answer is lost.             *)
Add(s) ==
  /\ sweep[s].at = "add"
  /\ LET j == sweep[s].job IN
     \/ /\ sweep[s].open
        /\ redis' = [redis EXCEPT ![j] = IF @ = "absent" THEN "waiting" ELSE @]
        /\ stray' = stray \cup {j}
        /\ \/ NoFault /\ sweep' = [sweep EXCEPT ![s].at = "mark"]
           \/ Fault /\ sweep' = [sweep EXCEPT ![s].at = "fail"]
     \/ /\ sweep[s].open => Fault
        /\ ~sweep[s].open => NoFault
        /\ sweep' = [sweep EXCEPT ![s].at = "fail"]
        /\ UNCHANGED <<redis, stray>>
  /\ UNCHANGED <<clock, mode, batch, row, fails, claim, tries, made, exec, batches>>

\* Mutant: the row's status is not looked at.
PublishAny(j) == row' = [row EXCEPT ![j] = "published"]

(* markPlatformOutboxPublished's update *)
Publish(j) == row' = [row EXCEPT ![j] = IF @ = "pending" THEN "published" ELSE @]

MarkPublished(s) ==
  /\ sweep[s].at = "mark"
  /\ LET j == sweep[s].job IN
     \/ /\ NoFault
        /\ Publish(j)
        /\ sweep' = [sweep EXCEPT ![s] = Idle]
        /\ stray' = IF sweep[s].open /\ ~sweep[s].scan THEN stray \ {j} ELSE stray
     \/ /\ Fault
        /\ sweep' = [sweep EXCEPT ![s].at = "fail"]
        /\ UNCHANGED <<row, stray>>
  /\ UNCHANGED <<clock, mode, batch, fails, claim, tries, redis, made, exec, batches>>

(* markPlatformOutboxPublishFailed: by id, whatever the status; the last one   *)
(* dead-letters the row.  Its own failure ends the sweep of this row.          *)
PublishFailed(s) ==
  /\ sweep[s].at = "fail"
  /\ sweep' = [sweep EXCEPT ![s] = Idle]
  /\ LET j == sweep[s].job IN
     \/ /\ NoFault
        /\ fails' = [fails EXCEPT ![j] = IF @ < MaxPublish THEN @ + 1 ELSE @]
        /\ row' = [row EXCEPT ![j] = IF fails[j] + 1 >= MaxPublish THEN "failed" ELSE @]
     \/ Fault /\ UNCHANGED <<row, fails>>
  /\ UNCHANGED <<clock, mode, batch, claim, tries, redis, made, exec, stray, batches>>

-----------------------------------------------------------------------------
(* The handler, in either transport: processNormalizeJob. *)

(* The work is together with the row if the handler is atomic. *)
Work(e) ==
  /\ e \in exec /\ e.stage = "start"
  /\ exec' = (exec \ {e}) \cup {[e EXCEPT !.stage = "worked"]}
  /\ row' = IF e.job \in atomic THEN [row EXCEPT ![e.job] = "processed"] ELSE row
  /\ UNCHANGED <<clock, mode, batch, fails, claim, tries, redis, made, sweep, stray, bounds>>

(* markPlatformOutboxProcessed; nothing is left to do after an atomic commit. *)
Marks(e) == IF e.job \in atomic THEN row ELSE [row EXCEPT ![e.job] = "processed"]

(* markJobPermanentlyFailed writes the row of a handler that is not atomic, by *)
(* id; for the others it marks the ingest record only.                         *)
PermanentRow(j) == IF j \in atomic THEN row ELSE [row EXCEPT ![j] = "failed"]

-----------------------------------------------------------------------------
(* BullMQ (external) and the continuous worker's processor. *)

Take(j) ==
  /\ Permitted /\ redis[j] = "waiting"
  /\ \A e \in OwnedBy("redis") : e.job # j
  /\ redis' = [redis EXCEPT ![j] = "active"]
  /\ exec' = exec \cup {[job |-> j, by |-> "redis", stage |-> "start", attempt |-> made[j] + 1]}
  /\ UNCHANGED <<clock, mode, batch, row, fails, claim, tries, made, sweep, stray, bounds>>

\* Mutant: the job options set no limit of attempts.
AfterErrorUnlimited(j, permanent) == IF permanent THEN "failed" ELSE "waiting"

(* What BullMQ makes of an attempt's error. *)
AfterError(j, permanent) ==
  IF permanent \/ made[j] + 1 >= MaxAttempts THEN "failed" ELSE "waiting"

(* recordTerminalPlatformFailure, on the failed event: delayed retries are not *)
(* terminal, and only a row still published is marked.  The write may fail.    *)
RecordTerminal(j, r, written) ==
  row' = [r EXCEPT ![j] = IF written /\ redis'[j] = "failed" /\ @ = "published" THEN "failed" ELSE @]

(* The processor's promise settles while the window is open. *)
RedisDone(e) ==
  /\ Permitted /\ e \in OwnedBy("redis") /\ e.stage = "worked"
  /\ row' = Marks(e)
  /\ redis' = [redis EXCEPT ![e.job] = "absent"]
  /\ made' = [made EXCEPT ![e.job] = 0]
  /\ exec' = exec \ {e}
  /\ UNCHANGED <<clock, mode, batch, fails, claim, tries, sweep, stray, bounds>>

RedisError(e) ==
  /\ Permitted /\ e \in OwnedBy("redis")
  /\ \E permanent \in (IF e.stage = "start" THEN BOOLEAN ELSE {FALSE}), timeout, written \in BOOLEAN :
       /\ ~(permanent /\ timeout)
       /\ written \/ faults < MaxFaults
       /\ faults' = IF written THEN faults ELSE faults + 1
       /\ redis' = [redis EXCEPT ![e.job] = AfterError(e.job, permanent)]
       /\ made' = [made EXCEPT ![e.job] = @ + 1]
       /\ RecordTerminal(e.job, IF permanent THEN PermanentRow(e.job) ELSE row, written)
       /\ exec' = (exec \ {e}) \cup (IF timeout THEN Abandoned({e}) ELSE {})
  /\ UNCHANGED <<clock, mode, batch, fails, claim, tries, sweep, stray, batches>>

(* An execution whose result nobody takes: the timer left it behind, or Redis  *)
(* is gone.  Its transactions happen; a permanent error is still recorded,     *)
(* unless the continuous worker's deadline (which wraps the handler alone) has *)
(* passed.                                                                     *)
LateEnd(e) ==
  /\ e \in exec
  /\ e.by \in {"lateBatch", "lateRedis", "closedRedis"}
  /\ \/ /\ exec' = exec \ {e}
        /\ \/ row' = IF e.stage = "worked" THEN Marks(e) ELSE row
           \/ e.stage = "start" /\ e.by # "lateRedis" /\ row' = PermanentRow(e.job)
           \/ UNCHANGED row
     \/ /\ e.by = "closedRedis"
        /\ exec' = (exec \ {e}) \cup Abandoned({e})
        /\ UNCHANGED row
  /\ UNCHANGED <<clock, mode, batch, fails, claim, tries, redis, made, sweep, stray, bounds>>

(* In a later window the stalled check finds the active job nobody holds. *)
Stalled(j) ==
  /\ Permitted /\ redis[j] = "active"
  /\ \A e \in OwnedBy("redis") : e.job # j
  /\ redis' = [redis EXCEPT ![j] = AfterError(j, FALSE)]
  /\ made' = [made EXCEPT ![j] = @ + 1]
  /\ RecordTerminal(j, row, TRUE)
  /\ UNCHANGED <<clock, mode, batch, fails, claim, tries, exec, sweep, stray, bounds>>

-----------------------------------------------------------------------------
(* The scheduled transport, as in ScheduledBatch. *)

\* Mutant: the claim alone decides.
DueByClaim == {j \in Job : claim[j] \in {"none", "retry"}}

Due == {j \in Job : row[j] = "pending" /\ claim[j] \in {"none", "retry"}}

ClaimJob(j) ==
  /\ batch = "free" /\ now < deadline
  /\ OwnedBy("batch") = {}
  /\ j \in Due
  /\ tries[j] < MaxAttempts
  /\ claim' = [claim EXCEPT ![j] = "running"]
  /\ tries' = [tries EXCEPT ![j] = @ + 1]
  /\ exec' = exec \cup {[job |-> j, by |-> "batch", stage |-> "start", attempt |-> tries[j] + 1]}
  /\ UNCHANGED <<clock, mode, batch, row, fails, redis, made, sweep, stray, bounds>>

(* finish_scheduled_job: the row follows only while it is pending, and counts  *)
(* a failed or retried attempt where the publisher counts its failures.        *)
Finish(j, state, r) ==
  /\ claim' = [claim EXCEPT ![j] = state]
  /\ row' = [r EXCEPT ![j] = IF @ = "pending" /\ state \in {"processed", "failed"} THEN state ELSE @]
  /\ fails' = [fails EXCEPT ![j] =
                 IF r[j] = "pending" /\ state \in {"failed", "retry"} /\ @ < MaxPublish THEN @ + 1 ELSE @]

BatchSettles(e) ==
  /\ batch = "free" /\ e \in OwnedBy("batch")
  /\ \/ e.stage = "worked" /\ Finish(e.job, "processed", Marks(e))
     \/ \E permanent \in (IF e.stage = "start" THEN BOOLEAN ELSE {FALSE}) :
          Finish(e.job, IF permanent \/ tries[e.job] >= MaxAttempts THEN "failed" ELSE "retry",
                 IF permanent THEN PermanentRow(e.job) ELSE row)
  /\ exec' = exec \ {e}
  /\ UNCHANGED <<clock, mode, batch, tries, redis, made, sweep, stray, bounds>>

(* The 90 s timer: the promise is abandoned, and the batch left for review. *)
BatchTimesOut(e) ==
  /\ batch = "free" /\ e \in OwnedBy("batch")
  /\ Finish(e.job, "indeterminate", row)
  /\ batch' = "review"
  /\ exec' = (exec \ {e}) \cup Abandoned({e})
  /\ UNCHANGED <<clock, mode, tries, redis, made, sweep, stray, bounds>>

CloseBatch ==
  /\ batch = "free" /\ OwnedBy("batch") = {}
  /\ batch' = "none"
  /\ deadline' = 0
  /\ UNCHANGED <<now, skew, opened, atomic, mode, transport, exec, sweep, stray, bounds>>

-----------------------------------------------------------------------------

Next ==
  \/ \E m \in Mode : SelectMode(m)
  \/ OwnerClose \/ Tick \/ Admit \/ OpenWindow \/ Revoke \/ Drained \/ Killed \/ CloseBatch
  \/ \E s \in Sweep : \/ \E j \in Job : StartSweep(s, j)
                      \/ ReadRow(s) \/ Add(s) \/ MarkPublished(s) \/ PublishFailed(s)
  \/ \E j \in Job : AdminRetry(j) \/ Take(j) \/ Stalled(j) \/ ClaimJob(j)
  \/ \E e \in Execution : \/ Work(e) \/ RedisDone(e) \/ RedisError(e) \/ LateEnd(e)
                          \/ BatchSettles(e) \/ BatchTimesOut(e)

Spec == Init /\ [][Next]_vars

-----------------------------------------------------------------------------
(* Properties *)

(* A job is put into the queue only while its claim is absent or waiting for a *)
(* retry, although the sweep looks at claims when it lists rows and never      *)
(* again; but for a sweep whose listing failed and became a scan of the table. *)
NoReplayIntoRedis ==
  [][\A j \in Job : redis[j] = "absent" /\ redis'[j] = "waiting" =>
       \/ claim[j] \in {"none", "retry"}
       \/ \E s \in Sweep : /\ sweep[s].at = "add" /\ sweep'[s] # sweep[s]
                           /\ sweep[s].job = j /\ sweep[s].scan]_vars

(* A job waits in one transport only: Redis offers no job that the scheduled   *)
(* path has in hand, has handled or left unresolved, unless the mark of its    *)
(* publication was lost, came after the window, or was undone by an operator,  *)
(* or the sweep that published it had to scan the table.                       *)
ExclusiveTransport ==
  \A j \in Job : redis[j] \in {"waiting", "active"} /\ claim[j] \notin {"none", "retry"} => j \in stray

(* A window is at most 180 s long, whatever the worker's clock says: the check *)
(* at redis-permission.ts:43 compares the database's deadline with it.         *)
WindowIsShort == batch = "window" => now =< opened + RunWindow

(* Who may take back "processed": the publisher's failure that reaches the     *)
(* limit (the attempts of the batches count towards it) and a permanent error  *)
(* of a second execution write by id; nothing else overwrites it, the mark of  *)
(* a late publication included.                                                *)
ProcessedIsKept ==
  [][\A j \in Job : row[j] = "processed" /\ row'[j] # "processed" =>
       /\ row'[j] = "failed"
       /\ fails'[j] = MaxPublish \/ \E e \in exec \ exec' : e.job = j]_vars

-----------------------------------------------------------------------------
(* A statement of the repository that does not hold *)

(* "Redis dispatch must not replay a job the scheduled path already handled or *)
(* left unresolved."  (0036_worker_resource_schedule.sql:291-292; the comment  *)
(* in listPendingPlatformOutbox says so too, above the scan that does it.)     *)
RedisNeverReplays ==
  [][\A j \in Job : redis[j] = "absent" /\ redis'[j] = "waiting" =>
       claim[j] \notin {"processed", "indeterminate"}]_vars
=============================================================================
