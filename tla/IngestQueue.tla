----------------------------- MODULE IngestQueue -----------------------------
(***************************************************************************)
(* The continuous path of tenant events: an accepted source event and its  *)
(* outbox row (apps/api/src/ingest.ts), the publisher and the sweep that   *)
(* carry the row to Redis (packages/queue/src/publisher.ts, dispatcher.ts), *)
(* the BullMQ job with its attempts, stalls and retained failures, and the *)
(* worker's handler (packages/queue/src/process.ts, apps/worker).          *)
(*                                                                         *)
(* Transactions run under READ COMMITTED.  updateSourceEventStatus reads   *)
(* the committed status, checks the transition in memory and then updates  *)
(* by id: the read and the write are separate steps, and the write waits   *)
(* for the row lock of the transaction that wrote the row last.            *)
(***************************************************************************)
EXTENDS Integers, FiniteSets

CONSTANTS
  Event,        \* source events, each with one outbox row and one job id
  Invalid,      \* events the normalizer rejects as permanently invalid
  Publisher,    \* API requests and dispatcher sweeps in flight
  Exec,         \* handler executions in flight, over all workers
  None,         \* no event, no execution
  MaxAttempts,  \* attempts of a BullMQ job (5)
  MaxStalls,    \* stalls a job survives (JOB_MAX_STALLED_COUNT, 2)
  MaxPublish,   \* publish failures before the row is dead-lettered (20)
  MaxTrouble    \* bound: failed calls, timeouts, stalls, crashes, evictions

ASSUME EventAssumption == Invalid \subseteq Event /\ None \notin Event \cup Exec
ASSUME LimitAssumption == /\ {MaxAttempts, MaxPublish} \subseteq Nat \ {0}
                          /\ {MaxStalls, MaxTrouble} \subseteq Nat

VARIABLES
  event,        \* committed processing_status of the source event
  normalized,   \* committed transactions that wrote the event's observation
  outbox,       \* committed status of the outbox row
  failures,     \* outbox_job.attempts: failed publishes
  active,       \* the tenant's status is "active"
  job,          \* state of the BullMQ job
  attemptsMade, \* failed attempts of that job
  stalls,       \* times it was found stalled
  runner,       \* the execution whose result BullMQ will take
  pub, pubEvent,   \* where each publisher is, and its row
  exec, execEvent, \* where each execution is, and its event
  detached,     \* its deadline fired: nobody looks at how it ends
  lock,         \* the transaction holding the event's row lock
  trouble       \* mishaps so far

dbVars == <<event, normalized, outbox, failures, active>>
redisVars == <<job, attemptsMade, stalls, runner>>
pubVars == <<pub, pubEvent>>
execVars == <<exec, execEvent, detached>>
vars == <<dbVars, redisVars, pubVars, execVars, lock, trouble>>

EventStatus == {"received", "queued", "processing", "processed", "failed"}

(* canTransitionSourceEvent *)
Allowed == [received   |-> {"queued", "processing", "failed"},
            queued     |-> {"processing", "failed"},
            processing |-> {"processed", "failed", "processing"},
            processed  |-> {"processed"},
            failed     |-> {"failed"}]

Handling == {"read", "check", "lock", "look", "insert", "skip"}

\* Every variable holds a value of its kind; attempts and stalls stay within their limits.
TypeOK ==
  /\ event \in [Event -> EventStatus \cup {"absent"}]
  /\ normalized \in [Event -> Nat]
  /\ outbox \in [Event -> {"absent", "pending", "published", "failed"}]
  /\ failures \in [Event -> Nat]
  /\ active \in BOOLEAN
  /\ job \in [Event -> {"none", "waiting", "active", "completed", "failed"}]
  /\ attemptsMade \in [Event -> 0..MaxAttempts]
  /\ stalls \in [Event -> 0..MaxStalls + 1]
  /\ runner \in [Event -> Exec \cup {None}]
  /\ pub \in [Publisher -> {"idle", "read", "add", "mark", "update", "fail"}]
  /\ pubEvent \in [Publisher -> Event \cup {None}]
  /\ exec \in [Exec -> {"free", "ok", "error", "dead", "failRead", "failUpdate"} \cup Handling]
  /\ execEvent \in [Exec -> Event \cup {None}]
  /\ detached \in [Exec -> BOOLEAN]
  /\ lock \in [Event -> Exec \cup {None}]
  /\ trouble \in 0..MaxTrouble

Init ==
  /\ event = [e \in Event |-> "absent"]
  /\ normalized = [e \in Event |-> 0]
  /\ outbox = [e \in Event |-> "absent"]
  /\ failures = [e \in Event |-> 0]
  /\ active = TRUE
  /\ job = [e \in Event |-> "none"]
  /\ attemptsMade = [e \in Event |-> 0]
  /\ stalls = [e \in Event |-> 0]
  /\ runner = [e \in Event |-> None]
  /\ pub = [p \in Publisher |-> "idle"]
  /\ pubEvent = [p \in Publisher |-> None]
  /\ exec = [x \in Exec |-> "free"]
  /\ execEvent = [x \in Exec |-> None]
  /\ detached = [x \in Exec |-> FALSE]
  /\ lock = [e \in Event |-> None]
  /\ trouble = 0

Trouble == trouble < MaxTrouble /\ trouble' = trouble + 1

-----------------------------------------------------------------------------
(* Accepting and publishing *)

\* Mutant: the outbox row is inserted in a transaction of its own, and may not be.
AcceptAlone(e) ==
  /\ event[e] = "absent"
  /\ event' = [event EXCEPT ![e] = "received"]
  /\ outbox' \in {outbox, [outbox EXCEPT ![e] = "pending"]}
  /\ UNCHANGED <<normalized, failures, active, redisVars, pubVars, execVars, lock, trouble>>

(* acceptIngestEvent: the event and its outbox row in one transaction. *)
Accept(e) ==
  /\ event[e] = "absent"
  /\ event' = [event EXCEPT ![e] = "received"]
  /\ outbox' = [outbox EXCEPT ![e] = "pending"]
  /\ UNCHANGED <<normalized, failures, active, redisVars, pubVars, execVars, lock, trouble>>

PubGoto(p, e, where) ==
  /\ pub' = [pub EXCEPT ![p] = where]
  /\ pubEvent' = [pubEvent EXCEPT ![p] = IF where = "idle" THEN None ELSE e]

(* The API publishes the row it has just inserted; dispatchPendingOutbox      *)
(* publishes the rows app.list_pending_outbox returned.                       *)
Pick(p, e) ==
  /\ pub[p] = "idle" /\ outbox[e] = "pending"
  /\ PubGoto(p, e, "read")
  /\ UNCHANGED <<dbVars, redisVars, execVars, lock, trouble>>

(* getOutboxJob: a row another publisher published meanwhile is left alone. *)
ReadRow(p) ==
  /\ pub[p] = "read"
  /\ PubGoto(p, pubEvent[p], IF outbox[pubEvent[p]] = "published" THEN "idle" ELSE "add")
  /\ UNCHANGED <<dbVars, redisVars, execVars, lock, trouble>>

(* queue.add: a job id Redis still knows, in any state, makes it a no-op. *)
AddJob(e) ==
  IF job[e] = "none"
    THEN /\ job' = [job EXCEPT ![e] = "waiting"]
         /\ attemptsMade' = [attemptsMade EXCEPT ![e] = 0]
         /\ stalls' = [stalls EXCEPT ![e] = 0]
         /\ UNCHANGED runner
    ELSE UNCHANGED redisVars

\* Mutant: any error of the add is taken for "already exists".
AddSwallowsErrors(p) ==
  /\ pub[p] = "add"
  /\ AddJob(pubEvent[p]) \/ UNCHANGED redisVars
  /\ PubGoto(p, pubEvent[p], "mark")
  /\ UNCHANGED <<dbVars, execVars, lock, trouble>>

Add(p) ==
  /\ pub[p] = "add"
  /\ \/ /\ AddJob(pubEvent[p])
        /\ PubGoto(p, pubEvent[p], "mark")
        /\ UNCHANGED trouble
     \/ /\ Trouble                       \* an error, before or after the add
        /\ AddJob(pubEvent[p]) \/ UNCHANGED redisVars
        /\ PubGoto(p, pubEvent[p], "fail")
  /\ UNCHANGED <<dbVars, execVars, lock>>

(* A transaction that has marked the outbox row holds its row lock. *)
RowFree(e) == \A p \in Publisher : ~(pub[p] = "update" /\ pubEvent[p] = e)

(* markOutboxPublished, then updateSourceEventStatus 'queued', in one           *)
(* transaction.  Here the status is read; an illegal transition is swallowed    *)
(* and the transaction commits with the row's mark only.                        *)
MarkPublished(p) ==
  LET e == pubEvent[p] IN
  /\ pub[p] = "mark" /\ RowFree(e)
  /\ IF "queued" \in Allowed[event[e]]
       THEN /\ PubGoto(p, e, "update")
            /\ UNCHANGED outbox
       ELSE /\ PubGoto(p, e, "idle")
            /\ outbox' = [outbox EXCEPT ![e] = "published"]
  /\ UNCHANGED <<event, normalized, failures, active, redisVars, execVars, lock, trouble>>

(* The update waits for the row lock and then overwrites by id. *)
MarkQueued(p) ==
  LET e == pubEvent[p] IN
  /\ pub[p] = "update"
  /\ lock[e] = None
  /\ event' = [event EXCEPT ![e] = "queued"]
  /\ outbox' = [outbox EXCEPT ![e] = "published"]
  /\ PubGoto(p, e, "idle")
  /\ UNCHANGED <<normalized, failures, active, redisVars, execVars, lock, trouble>>

\* The marking transaction fails and is rolled back.
MarkFails(p) ==
  /\ pub[p] \in {"mark", "update"}
  /\ Trouble
  /\ PubGoto(p, pubEvent[p], "fail")
  /\ UNCHANGED <<dbVars, redisVars, execVars, lock>>

(* markOutboxPublishFailed: unconditional but for the dead-letter limit. *)
PublishFailed(p) ==
  LET e == pubEvent[p] IN
  /\ pub[p] = "fail" /\ RowFree(e)
  /\ failures' = [failures EXCEPT ![e] = @ + 1]
  /\ outbox' = [outbox EXCEPT ![e] = IF failures[e] + 1 >= MaxPublish THEN "failed" ELSE @]
  /\ PubGoto(p, e, "idle")
  /\ UNCHANGED <<event, normalized, active, redisVars, execVars, lock, trouble>>

PublisherDies(p) ==
  /\ pub[p] # "idle"
  /\ Trouble
  /\ PubGoto(p, pubEvent[p], "idle")
  /\ UNCHANGED <<dbVars, redisVars, execVars, lock>>

-----------------------------------------------------------------------------
(* BullMQ *)

Take(x, e) ==
  /\ exec[x] = "free" /\ job[e] = "waiting"
  /\ job' = [job EXCEPT ![e] = "active"]
  /\ runner' = [runner EXCEPT ![e] = x]
  /\ exec' = [exec EXCEPT ![x] = "read"]
  /\ execEvent' = [execEvent EXCEPT ![x] = e]
  /\ UNCHANGED <<dbVars, attemptsMade, stalls, detached, pubVars, lock, trouble>>

Attached(x) == execEvent[x] # None /\ runner[execEvent[x]] = x

\* The attempt is over and the job is in the given state.
Conclude(e, state, failed) ==
  /\ job' = [job EXCEPT ![e] = state]
  /\ attemptsMade' = [attemptsMade EXCEPT ![e] = @ + failed]
  /\ runner' = [runner EXCEPT ![e] = None]
  /\ UNCHANGED stalls

\* Mutant: one attempt too many.
AttemptFailedLate(e) ==
  Conclude(e, IF attemptsMade[e] + 1 =< MaxAttempts THEN "waiting" ELSE "failed", 1)

\* A failed attempt: another one after the backoff, or the retained failed set.
AttemptFailed(e) ==
  Conclude(e, IF attemptsMade[e] + 1 < MaxAttempts THEN "waiting" ELSE "failed", 1)

(* withDeadline: the attempt fails after 90 s, the handler keeps running. *)
TimeOut(x) ==
  /\ exec[x] \in Handling /\ ~detached[x]
  /\ Trouble
  /\ detached' = [detached EXCEPT ![x] = TRUE]
  /\ IF Attached(x) THEN AttemptFailed(execEvent[x]) ELSE UNCHANGED redisVars
  /\ UNCHANGED <<dbVars, pubVars, exec, execEvent, lock>>

(* The job's lock expired: its process died, or could not renew it.  A job      *)
(* that stalled too often is failed, otherwise it waits again.  The handler, if *)
(* it still runs, is not told.                                                  *)
Stalled(e) ==
  /\ job[e] = "active"
  /\ IF runner[e] = None THEN UNCHANGED trouble ELSE Trouble
  /\ stalls' = [stalls EXCEPT ![e] = @ + 1]
  /\ job' = [job EXCEPT ![e] = IF stalls[e] + 1 > MaxStalls THEN "failed" ELSE "waiting"]
  /\ runner' = [runner EXCEPT ![e] = None]
  /\ UNCHANGED <<dbVars, attemptsMade, pubVars, execVars, lock>>

(* removeOnComplete: 100 forgets the older completed jobs. *)
Evict(e) ==
  /\ job[e] = "completed"
  /\ Trouble
  /\ job' = [job EXCEPT ![e] = "none"]
  /\ UNCHANGED <<dbVars, attemptsMade, stalls, runner, pubVars, execVars, lock>>

-----------------------------------------------------------------------------
(* The handler: processNormalizeJob under the processor of apps/worker *)

Free(x) ==
  /\ exec' = [exec EXCEPT ![x] = "free"]
  /\ execEvent' = [execEvent EXCEPT ![x] = None]
  /\ detached' = [detached EXCEPT ![x] = FALSE]

Goto(x, where) ==
  /\ exec' = [exec EXCEPT ![x] = where]
  /\ UNCHANGED <<execEvent, detached>>

\* The handler's promise settles; after the deadline nobody awaits it.
Settle(x, how) == IF detached[x] THEN Free(x) ELSE Goto(x, how)

Unlock(x) == lock' = [e \in Event |-> IF lock[e] = x THEN None ELSE lock[e]]

\* Mutant: a failed event counts as handled, too.
ReadFailedAsDone(x) ==
  /\ exec[x] = "read"
  /\ IF ~active THEN Settle(x, "failRead")
     ELSE IF event[execEvent[x]] \in {"processed", "failed"} THEN Settle(x, "ok")
     ELSE Goto(x, "check")
  /\ UNCHANGED <<dbVars, redisVars, pubVars, lock, trouble>>

(* The tenant and the event are read; an inactive tenant is a permanent failure. *)
Read(x) ==
  /\ exec[x] = "read"
  /\ IF ~active THEN Settle(x, "failRead")
     ELSE IF event[execEvent[x]] = "processed" THEN Settle(x, "ok")
     ELSE Goto(x, "check")
  /\ UNCHANGED <<dbVars, redisVars, pubVars, lock, trouble>>

(* updateSourceEventStatus 'processing' reads the status once more ... *)
Check(x) ==
  /\ exec[x] = "check"
  /\ IF "processing" \in Allowed[event[execEvent[x]]]
       THEN Goto(x, "lock")
       ELSE Settle(x, "error")
  /\ UNCHANGED <<dbVars, redisVars, pubVars, lock, trouble>>

\* Mutant: the status update does not take the row's lock.
LockNothing(x) ==
  /\ exec[x] = "lock"
  /\ Goto(x, "look")
  /\ UNCHANGED <<dbVars, redisVars, pubVars, lock, trouble>>

(* ... and updates the row when it gets its lock, which it keeps to the end. *)
Lock(x) ==
  /\ exec[x] = "lock" /\ lock[execEvent[x]] = None
  /\ lock' = [lock EXCEPT ![execEvent[x]] = x]
  /\ Goto(x, "look")
  /\ UNCHANGED <<dbVars, redisVars, pubVars, trouble>>

(* normalizeSourceEvent: an existing observation makes the event a duplicate;  *)
(* an invalid event rolls the transaction back.                                *)
Look(x) ==
  /\ exec[x] = "look"
  /\ IF normalized[execEvent[x]] > 0
       THEN Goto(x, "skip") /\ UNCHANGED lock
     ELSE IF execEvent[x] \in Invalid
       THEN Settle(x, "failRead") /\ Unlock(x)
       ELSE Goto(x, "insert") /\ UNCHANGED lock
  /\ UNCHANGED <<dbVars, redisVars, pubVars, trouble>>

(* The observation and the status 'processed' commit together.  A second       *)
(* writing would be absorbed by unique indexes and ON CONFLICT DO NOTHING; it  *)
(* is counted all the same.                                                    *)
Commit(x) ==
  LET e == execEvent[x] IN
  /\ exec[x] \in {"insert", "skip"}
  /\ normalized' = [normalized EXCEPT ![e] = IF exec[x] = "insert" THEN @ + 1 ELSE @]
  /\ event' = [event EXCEPT ![e] = "processed"]
  /\ Unlock(x)
  /\ \/ Settle(x, "ok") /\ UNCHANGED trouble
     \/ Settle(x, "error") /\ Trouble          \* the answer is lost
  /\ UNCHANGED <<outbox, failures, active, redisVars, pubVars>>

\* A transient database error: the transaction is rolled back.
HandlerFails(x) ==
  /\ exec[x] \in Handling
  /\ Trouble
  /\ Settle(x, "error")
  /\ Unlock(x)
  /\ UNCHANGED <<dbVars, redisVars, pubVars>>

(* markJobPermanentlyFailed: updateSourceEventStatus 'failed', read and update. *)
FailRead(x) ==
  /\ exec[x] = "failRead"
  /\ Goto(x, IF "failed" \in Allowed[event[execEvent[x]]] THEN "failUpdate" ELSE "dead")
  /\ UNCHANGED <<dbVars, redisVars, pubVars, lock, trouble>>

FailUpdate(x) ==
  LET e == execEvent[x] IN
  /\ exec[x] = "failUpdate" /\ lock[e] = None
  /\ event' = [event EXCEPT ![e] = "failed"]
  /\ Goto(x, "dead")
  /\ UNCHANGED <<normalized, outbox, failures, active, redisVars, pubVars, lock, trouble>>

\* Its own failure is logged and swallowed.
FailureUnrecorded(x) ==
  /\ exec[x] \in {"failRead", "failUpdate"}
  /\ Trouble
  /\ Goto(x, "dead")
  /\ UNCHANGED <<dbVars, redisVars, pubVars, lock>>

(* The processor returns.  BullMQ takes the result of the execution that still *)
(* owns the job only; an UnrecoverableError ends the job at once.              *)
Report(x) ==
  LET e == execEvent[x] IN
  /\ exec[x] \in {"ok", "error", "dead"}
  /\ IF ~Attached(x)        THEN UNCHANGED redisVars
     ELSE IF exec[x] = "ok" THEN Conclude(e, "completed", 0)
     ELSE IF exec[x] = "dead" THEN Conclude(e, "failed", 1)
     ELSE AttemptFailed(e)
  /\ Free(x)
  /\ UNCHANGED <<dbVars, pubVars, lock, trouble>>

(* The process dies, or the result never reaches Redis. *)
ExecGone(x) ==
  /\ exec[x] # "free"
  /\ Trouble
  /\ Free(x)
  /\ Unlock(x)
  /\ runner' = [e \in Event |-> IF runner[e] = x THEN None ELSE runner[e]]
  /\ UNCHANGED <<dbVars, job, attemptsMade, stalls, pubVars>>

\* A tenant is suspended or reactivated.
ChangeTenant ==
  /\ active' = ~active
  /\ UNCHANGED <<event, normalized, outbox, failures, redisVars, pubVars, execVars, lock, trouble>>

-----------------------------------------------------------------------------
Publish(p) == ReadRow(p) \/ Add(p) \/ MarkPublished(p) \/ MarkQueued(p) \/ PublishFailed(p)

Handle(x) ==
  \/ Read(x) \/ Check(x) \/ Lock(x) \/ Look(x) \/ Commit(x)
  \/ FailRead(x) \/ FailUpdate(x) \/ Report(x)

Mishap ==
  \/ \E p \in Publisher : MarkFails(p) \/ PublisherDies(p)
  \/ \E x \in Exec : TimeOut(x) \/ HandlerFails(x) \/ FailureUnrecorded(x) \/ ExecGone(x)
  \/ \E e \in Event : Evict(e)

Next ==
  \/ \E e \in Event : \/ Accept(e) \/ Stalled(e)
                      \/ \E p \in Publisher : Pick(p, e)
                      \/ \E x \in Exec : Take(x, e)
  \/ \E p \in Publisher : Publish(p)
  \/ \E x \in Exec : Handle(x)
  \/ Mishap
  \/ ChangeTenant

Spec == Init /\ [][Next]_vars

(* The sweep runs every few seconds, the stalled-job check every 30; workers   *)
(* take jobs; calls return and transactions end.                               *)
Fairness ==
  /\ \A p \in Publisher : WF_vars(Publish(p))
  /\ \A x \in Exec : WF_vars(Handle(x))
  /\ \A e \in Event : /\ WF_vars(\E p \in Publisher : Pick(p, e))
                      /\ WF_vars(\E x \in Exec : Take(x, e))
                      /\ WF_vars(runner[e] = None /\ Stalled(e))

FairSpec == Spec /\ Fairness

-----------------------------------------------------------------------------
(* However many executions of a job run at the same time, one transaction      *)
(* writes the event's observation, evidence and signal: the row lock taken by  *)
(* the status update orders them, and normalizeSourceEvent looks for the       *)
(* observation under it.  The unique indexes never have to absorb a second one. *)
NormalizedOnce == \A e \in Event : normalized[e] =< 1

(* No accepted event is lost: until it is normalized it is in the outbox where *)
(* the sweep or the owner finds it, or Redis knows its job (the row is marked  *)
(* published only after the add).                                              *)
NothingLost ==
  \A e \in Event : event[e] # "absent" =>
    normalized[e] > 0 \/ outbox[e] \in {"pending", "failed"} \/ job[e] # "none"

(* BullMQ forgets completed jobs, so one is completed only when its event's    *)
(* observation is committed.                                                   *)
CompletedWasNormalized ==
  \A e \in Event : job[e] = "completed" => normalized[e] > 0

(* Every accepted event is normalized, or ends where an operator finds it: the *)
(* failed set of the queue or a dead-lettered outbox row.                      *)
Settles ==
  \A e \in Event :
    event[e] # "absent" ~> normalized[e] > 0 \/ job[e] = "failed" \/ outbox[e] = "failed"

-----------------------------------------------------------------------------
(* Statements of the repository that do not hold *)

(* "`processed` and `failed` are terminal except for no-op self-transitions    *)
(* used by idempotent workers." (docs/PHASE_05.md:139)                         *)
TerminalStatus ==
  [][\A e \in Event : event[e] \in {"processed", "failed"} => event'[e] = event[e]]_vars

(* "BullMQ failed jobs are retained (`removeOnFail: false`)."  "Postgres       *)
(* stores `processing_status=failed`" (docs/PHASE_05.md:152-153): a job that   *)
(* ran out of attempts left its event failed, or normalized.                   *)
ExhaustedIsRecorded ==
  \A e \in Event : job[e] = "failed" /\ attemptsMade[e] >= MaxAttempts =>
    event[e] \in {"failed", "processed"}
=============================================================================
