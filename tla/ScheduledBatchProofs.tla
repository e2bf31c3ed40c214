------------------------ MODULE ScheduledBatchProofs ------------------------
(***************************************************************************)
(* Theorems about ScheduledBatch for any number of processes and jobs, any *)
(* timing and any number of kills and lost calls.                          *)
(***************************************************************************)
EXTENDS ScheduledBatch, FiniteSetTheorems, TLAPS

-----------------------------------------------------------------------------
(* What keeps batches apart.  A process holds its run from admission to the    *)
(* end of the cycle, no two processes admitted the same run, and the database  *)
(* has at most one open run.                                                   *)

HoldsItsRun ==
  \A w \in Worker : InBatch(w) =>
    mine[w] \in hosted[w] /\ runs[mine[w]].status = "running"

OneOpenRun == \A s, t \in Slot : Open(s) /\ Open(t) => s = t

AdmittedOnce ==
  /\ \A w \in Worker : \A s \in hosted[w] : runs[s].status # "none"
  /\ \A v, w \in Worker : \A s \in Slot : s \in hosted[v] /\ s \in hosted[w] => v = w

BatchInv == HoldsItsRun /\ OneOpenRun /\ AdmittedOnce

(* A claim of the run a process is executing is the job it is working on, or   *)
(* the process knows that the run needs review.                                *)
OwnsItsClaim ==
  \A w \in Worker : InBatch(w) /\ status[w] = "completed" =>
    \A j \in Job : claim[j].state = "running" /\ claim[j].run = mine[w] =>
      pc[w] \in {"handling", "finish"} /\ job[w] = j

ClaimHasRun == \A j \in Job : claim[j].state # "none" => claim[j].run \in Slot

ClaimInv == RunningClaimHasOpenRun /\ OwnsItsClaim /\ ClaimHasRun

(* A process about to record a job as processed has seen its handler return. *)
RecordsWhatItSaw ==
  \A w \in Worker : pc[w] = "finish" /\ fin[w] = "processed" => committed[job[w]]

WorksOnAJob == \A w \in Worker : pc[w] \in {"handling", "finish"} => job[w] \in Job

CommitInv == HandledWasCommitted /\ RecordsWhatItSaw /\ WorksOnAJob

-----------------------------------------------------------------------------
(* Types *)

RunType == [status : RunStatus, mode : RunMode, attempted : Nat, processed : Nat, failures : Nat]
ClaimType == [state : ClaimState, run : Slot \cup {NoRun}, attempt : Nat]

\* Answering a database call keeps the count of failures within its bound.
LEMMA AnswerType ==
  ASSUME faults \in 0..MaxFaults, NEW a, Answered(a)
  PROVE  faults' \in 0..MaxFaults
BY BoundAssumption DEF Answered

\* A slot is one of the ticks, none of them is NoRun.
LEMMA SlotType == /\ Slot \subseteq 0..Horizon
                  /\ Slot \subseteq Nat
                  /\ NoRun \notin Slot
BY BoundAssumption DEF Slot, NoRun

LEMMA LeaveIterationType ==
  ASSUME TypeOK, NEW w \in Worker, LeaveIteration(w)
  PROVE  /\ job' \in [Worker -> Job \cup {NoJob}]
         /\ attempt' \in [Worker -> Nat]
         /\ fin' \in [Worker -> FinState]
         /\ inTry' \in [Worker -> BOOLEAN]
BY DEF TypeOK, LeaveIteration, FinState

\* The effects of finish_scheduled_job are of the tables' types.
LEMMA FinishScheduledJobType ==
  ASSUME TypeOK, NEW s, NEW j, NEW state \in FinState, FinishScheduledJob(s, j, state)
  PROVE  /\ claim' \in [Job -> ClaimType]
         /\ runs' \in [Slot -> RunType]
         /\ outbox' \in [Job -> OutboxStatus]
         /\ availableAt' \in [Job -> Nat]
<1>1. claim' \in [Job -> ClaimType]
  <2>1. claim \in [Job -> ClaimType]
    BY DEF TypeOK, ClaimType
  <2>2. \A c \in ClaimType : [c EXCEPT !.state = state] \in ClaimType
    BY DEF ClaimType, FinState, ClaimState
  <2>3. claim' = [claim EXCEPT ![j] = [claim[j] EXCEPT !.state = state]]
    BY DEF FinishScheduledJob
  <2> QED BY <2>1, <2>2, <2>3
<1>2. runs' \in [Slot -> RunType]
  <2> DEFINE Counted(r) ==
        [r EXCEPT !.processed = IF state = "processed" THEN @ + 1 ELSE @,
                  !.failures = IF state = "processed" THEN @ ELSE @ + 1]
  <2>1. runs \in [Slot -> RunType]
    BY DEF TypeOK, RunType
  <2>2. \A r \in RunType : Counted(r) \in RunType
    <3> TAKE r \in RunType
    <3>1. r.processed + 1 \in Nat /\ r.failures + 1 \in Nat
      BY DEF RunType
    <3>2. CASE state = "processed"
      <4>1. Counted(r) = [r EXCEPT !.processed = r.processed + 1, !.failures = r.failures]
        BY <3>2
      <4> QED BY <3>1, <4>1 DEF RunType
    <3>3. CASE state # "processed"
      <4>1. Counted(r) = [r EXCEPT !.processed = r.processed, !.failures = r.failures + 1]
        BY <3>3
      <4> QED BY <3>1, <4>1 DEF RunType
    <3> QED BY <3>2, <3>3
  <2>3. runs' = [runs EXCEPT ![s] = Counted(runs[s])]
    BY <2>1 DEF FinishScheduledJob, RunType
  <2> HIDE DEF Counted
  <2> QED BY <2>1, <2>2, <2>3
<1>3. outbox' \in [Job -> OutboxStatus]
  BY DEF TypeOK, FinishScheduledJob, FinState, OutboxStatus, Settled
<1>4. availableAt' \in [Job -> Nat]
  <2>1. now + RetryDelay \in Nat
    BY RetryAssumption, BoundAssumption DEF TypeOK
  <2> QED BY <2>1 DEF TypeOK, FinishScheduledJob
<1> QED BY <1>1, <1>2, <1>3, <1>4

LEMMA InitType == Init => TypeOK
BY BoundAssumption, SlotType DEF Init, TypeOK, RunStatus, RunMode, ClaimState, OutboxStatus,
   FinState, Control

(* The worker's cycle keeps every variable in its type. *)
LEMMA CycleType == ASSUME TypeOK, NEW w \in Worker, Cycle(w) PROVE TypeOK'
<1> USE DEF TypeOK
<1>1. CASE Metered(w)
  BY <1>1 DEF Metered, Review, dbVars, bounds, Control
<1>2. CASE Prepare(w)
  <2> PICK a \in Answer : /\ Answered(a)
                          /\ \E new \in SUBSET {j \in WorkJob : outbox[j] = "absent"} :
                               Enqueue(IF Applied(a) THEN new ELSE {})
    BY <1>2 DEF Prepare
  <2>1. faults' \in 0..MaxFaults
    BY AnswerType
  <2>2. outbox' \in [Job -> OutboxStatus] /\ availableAt' \in [Job -> Nat]
    BY SlotType DEF Enqueue, OutboxStatus
  <2>3. pc' \in [Worker -> Control] /\ status' \in [Worker -> {"completed", "indeterminate"}]
    BY <1>2 DEF Prepare, Review, Control
  <2> QED BY <1>2, <2>1, <2>2, <2>3 DEF Prepare
<1>3. CASE LeaveLoop(w)
  BY <1>3 DEF LeaveLoop, dbVars, localVars, bounds, Control
<1>4. CASE ClaimJobLost(w)
  BY <1>4, AnswerType DEF ClaimJobLost, Review, dbVars, Control
<1>5. ASSUME NEW j \in Job, ClaimJob(w, j) PROVE TypeOK'
  <2>1. claim' \in [Job -> ClaimType]
    <3>1. [state |-> "running", run |-> mine[w], attempt |-> claim[j].attempt + 1] \in ClaimType
      BY DEF ClaimType, ClaimState
    <3> QED BY <1>5, <3>1 DEF ClaimJob, ClaimType
  <2>2. runs' \in [Slot -> RunType]
    <3>1. \A r \in RunType : [r EXCEPT !.attempted = @ + 1] \in RunType
      <4> TAKE r \in RunType
      <4>1. r.attempted + 1 \in Nat
        BY DEF RunType
      <4> QED BY <4>1 DEF RunType
    <3>2. runs' = [runs EXCEPT ![mine[w]] = [runs[mine[w]] EXCEPT !.attempted = @ + 1]]
      BY <1>5 DEF ClaimJob
    <3> QED BY <3>1, <3>2 DEF RunType
  <2>3. faults' \in 0..MaxFaults
    BY <1>5, AnswerType DEF ClaimJob
  <2>4. claim[j].attempt + 1 \in Nat
    BY DEF ClaimType
  <2>5. /\ job' \in [Worker -> Job \cup {NoJob}]
        /\ attempt' \in [Worker -> Nat]
        /\ fin' \in [Worker -> FinState]
        /\ inTry' \in [Worker -> BOOLEAN]
        /\ pc' \in [Worker -> Control]
        /\ status' \in [Worker -> {"completed", "indeterminate"}]
        /\ live' \in [Worker -> SUBSET Job]
    <3> DEFINE Received == /\ job' = [job EXCEPT ![w] = j]
                           /\ attempt' = [attempt EXCEPT ![w] = claim[j].attempt + 1]
                           /\ UNCHANGED status
    <3>1. CASE StartHandler(w, j) /\ Received
      BY <2>4, <3>1 DEF StartHandler, Control
    <3>2. CASE RejectEnvelope(w, j) /\ Received
      BY <2>4, <3>2 DEF RejectEnvelope, Control, FinState
    <3>3. CASE Review(w) /\ UNCHANGED <<job, attempt, fin, inTry, live>>
      BY <3>3 DEF Review, Control
    <3> QED BY <1>5, <3>1, <3>2, <3>3 DEF ClaimJob
  <2> QED BY <1>5, <2>1, <2>2, <2>3, <2>5 DEF ClaimJob, ClaimType, RunType
<1>6. CASE TimeOut(w)
  BY <1>6 DEF TimeOut, dbVars, bounds, Control, FinState
<1>7. CASE FinishJob(w)
  <2>1. faults' \in 0..MaxFaults
    BY <1>7, AnswerType DEF FinishJob
  <2>2. /\ claim' \in [Job -> ClaimType]
        /\ runs' \in [Slot -> RunType]
        /\ outbox' \in [Job -> OutboxStatus]
        /\ availableAt' \in [Job -> Nat]
    BY <1>7, FinishScheduledJobType DEF FinishJob, dbVars, ClaimType, RunType
  <2>3. /\ job' \in [Worker -> Job \cup {NoJob}]
        /\ attempt' \in [Worker -> Nat]
        /\ fin' \in [Worker -> FinState]
        /\ inTry' \in [Worker -> BOOLEAN]
    BY <1>7, LeaveIterationType DEF FinishJob, Recorded, FinishError, CaughtState, FinState
  <2>4. /\ pc' \in [Worker -> Control]
        /\ status' \in [Worker -> {"completed", "indeterminate"}]
    BY <1>7 DEF FinishJob, Recorded, FinishError, Review, Control
  <2> QED BY <1>7, <2>1, <2>2, <2>3, <2>4 DEF FinishJob, ClaimType, RunType
<1>8. CASE CloseRun(w)
  <2>1. PICK a \in Answer : /\ Answered(a)
                            /\ runs' = IF Applied(a) /\ runs[mine[w]].status = "running"
                                         THEN [runs EXCEPT ![mine[w]].status = status[w]]
                                         ELSE runs
    BY <1>8 DEF CloseRun
  <2>2. faults' \in 0..MaxFaults
    BY <2>1, AnswerType
  <2>3. runs' \in [Slot -> RunType]
    <3>1. \A r \in RunType : [r EXCEPT !.status = status[w]] \in RunType
      BY DEF RunType, RunStatus
    <3>2. \/ runs' = runs
          \/ runs' = [runs EXCEPT ![mine[w]] = [runs[mine[w]] EXCEPT !.status = status[w]]]
      BY <2>1
    <3> QED BY <3>1, <3>2 DEF RunType
  <2> QED BY <1>8, <2>2, <2>3 DEF CloseRun, RunType, Control
<1> QED BY <1>1, <1>2, <1>3, <1>4, <1>5, <1>6, <1>7, <1>8 DEF Cycle

LEMMA HandlerEffectType ==
  ASSUME TypeOK, NEW j, NEW o \in Outcome, HandlerEffect(j, o)
  PROVE  committed' \in [Job -> BOOLEAN] /\ outbox' \in [Job -> OutboxStatus]
<1>1. committed' \in [Job -> BOOLEAN]
  <2>1. PICK c \in BOOLEAN : committed' = [committed EXCEPT ![j] = c]
    <3>1. (committed[j] \/ o \in {"done", "ackLost", "half"}) \in BOOLEAN
      OBVIOUS
    <3> QED BY <3>1 DEF HandlerEffect
  <2> QED BY <2>1 DEF TypeOK
<1>2. outbox' \in [Job -> OutboxStatus]
  BY DEF TypeOK, HandlerEffect, OutboxStatus
<1> QED BY <1>1, <1>2

LEMMA GoneType == ASSUME TypeOK, NEW w \in Worker, Gone(w), kills' \in 0..MaxKills PROVE TypeOK'
<1>1. /\ job' \in [Worker -> Job \cup {NoJob}]
      /\ attempt' \in [Worker -> Nat]
      /\ fin' \in [Worker -> FinState]
      /\ inTry' \in [Worker -> BOOLEAN]
  BY LeaveIterationType DEF Gone
<1> QED BY <1>1 DEF TypeOK, Gone, dbVars, Control

(* Everything else a process does keeps the types. *)
LEMMA ProcessType == ASSUME TypeOK, NEW w \in Worker, Process(w) PROVE TypeOK'
<1>1. CASE Cycle(w)
  BY <1>1, CycleType
<1>2. CASE ClaimRun(w)
  <2>1. settings \in RunMode /\ now \in Slot
    BY <1>2, SettingAssumption DEF ClaimRun, RunAdmissible, TypeOK
  <2>2. runs' \in [Slot -> RunType]
    <3>1. \A r \in RunType : [r EXCEPT !.status = "running", !.mode = settings] \in RunType
      BY <2>1 DEF RunType, RunStatus
    <3>2. runs \in [Slot -> RunType]
      BY DEF TypeOK, RunType
    <3>3. runs' = [runs EXCEPT ![now] = [runs[now] EXCEPT !.status = "running", !.mode = settings]]
      BY <1>2, <2>1, <3>2 DEF ClaimRun, RunType
    <3> QED BY <2>1, <3>1, <3>2, <3>3
  <2>3. faults' \in 0..MaxFaults
    BY <1>2, AnswerType DEF ClaimRun, TypeOK
  <2>4. hosted' \in [Worker -> SUBSET Slot]
    BY <1>2, <2>1 DEF ClaimRun, TypeOK
  <2>5. pc' \in [Worker -> Control] /\ mine' \in [Worker -> Slot \cup {NoRun}]
    <3>1. CASE UNCHANGED <<pc, mine>>
      BY <3>1 DEF TypeOK
    <3>2. CASE /\ pc' = [pc EXCEPT ![w] = IF settings = "metered_redis" THEN "metered" ELSE "prepare"]
               /\ mine' = [mine EXCEPT ![w] = now]
      BY <2>1, <3>2 DEF TypeOK, Control
    <3> QED BY <1>2, <3>1, <3>2 DEF ClaimRun
  <2> QED BY <1>2, <2>2, <2>3, <2>4, <2>5 DEF ClaimRun, TypeOK, RunType
<1>3. CASE Stop(w)
  BY <1>3 DEF Stop, TypeOK, dbVars, bounds
<1>4. CASE Exit(w)
  BY <1>4, GoneType DEF Exit, TypeOK
<1>5. CASE Kill(w)
  <2>1. kills' \in 0..MaxKills
    BY <1>5, BoundAssumption DEF Kill, TypeOK
  <2> QED BY <1>5, <2>1, GoneType DEF Kill
<1>6. CASE Start(w)
  BY <1>6 DEF Start, TypeOK, dbVars, localVars, bounds, Control
<1>7. ASSUME NEW o \in Outcome, HandlerSettles(w, o) PROVE TypeOK'
  <2>1. committed' \in [Job -> BOOLEAN] /\ outbox' \in [Job -> OutboxStatus]
    BY <1>7, HandlerEffectType DEF HandlerSettles
  <2>2. /\ live' \in [Worker -> SUBSET Job]
        /\ pc' \in [Worker -> Control]
        /\ fin' \in [Worker -> FinState]
    BY <1>7 DEF HandlerSettles, TypeOK, Control, FinState, CaughtState
  <2>3. inTry' \in [Worker -> BOOLEAN]
    <3>1. (o = "done") \in BOOLEAN
      OBVIOUS
    <3> QED BY <1>7, <3>1 DEF HandlerSettles, TypeOK
  <2> QED BY <1>7, <2>1, <2>2, <2>3 DEF HandlerSettles, TypeOK, bounds
<1>8. ASSUME NEW o \in Outcome, NEW j \in Job, LateSettle(w, j, o) PROVE TypeOK'
  <2>1. committed' \in [Job -> BOOLEAN] /\ outbox' \in [Job -> OutboxStatus]
    BY <1>8, HandlerEffectType DEF LateSettle
  <2> QED BY <1>8, <2>1 DEF LateSettle, TypeOK, localVars, bounds
<1> QED BY <1>1, <1>2, <1>3, <1>4, <1>5, <1>6, <1>7, <1>8 DEF Process

LEMMA EnvironmentType == ASSUME TypeOK, Environment PROVE TypeOK'
<1> USE DEF TypeOK
<1>1. ASSUME NEW s \in Slot, OwnerClose(s) PROVE TypeOK'
  <2>1. runs' \in [Slot -> RunType]
    <3>1. \A r \in RunType : [r EXCEPT !.status = "failed"] \in RunType
      BY DEF RunType, RunStatus
    <3>2. runs' = [runs EXCEPT ![s] = [runs[s] EXCEPT !.status = "failed"]]
      BY <1>1 DEF OwnerClose
    <3> QED BY <3>1, <3>2 DEF RunType
  <2>2. claim' \in [Job -> ClaimType]
    <3>1. \A c \in ClaimType : [c EXCEPT !.state = "indeterminate"] \in ClaimType
      BY DEF ClaimType, ClaimState
    <3> QED BY <1>1, <3>1 DEF OwnerClose, ClaimType
  <2> QED BY <1>1, <2>1, <2>2 DEF OwnerClose, localVars, bounds, RunType, ClaimType
<1>2. CASE ChangeSettings
  BY <1>2 DEF ChangeSettings, dbVars, localVars, bounds
<1>3. ASSUME NEW j \in Job, AdminRetry(j) PROVE TypeOK'
  BY <1>3, BoundAssumption DEF AdminRetry, localVars, bounds, OutboxStatus
<1>4. ASSUME NEW j \in Job, Submit(j) PROVE TypeOK'
  <2>1. outbox' \in [Job -> OutboxStatus] /\ availableAt' \in [Job -> Nat]
    BY <1>4, BoundAssumption DEF Submit, Enqueue, OutboxStatus
  <2> QED BY <1>4, <2>1 DEF Submit, localVars, bounds
<1>5. CASE Tick
  <2>1. now' \in 0..Horizon
    BY <1>5, BoundAssumption DEF Tick
  <2> QED BY <1>5, <2>1 DEF Tick, dbVars, localVars, bounds
<1> QED BY <1>1, <1>2, <1>3, <1>4, <1>5 DEF Environment

LEMMA NextType == ASSUME TypeOK, [Next]_vars PROVE TypeOK'
<1>1. ASSUME NEW w \in Worker, Process(w) PROVE TypeOK'
  BY <1>1, ProcessType
<1>2. CASE Environment
  BY <1>2, EnvironmentType
<1>3. CASE UNCHANGED vars
  BY <1>3 DEF vars, dbVars, localVars, bounds, TypeOK
<1> QED BY <1>1, <1>2, <1>3 DEF Next

(* Every variable keeps its type: a retried call, a lost answer or a kill      *)
(* never leaves the tables or a process in a state the code does not know.     *)
THEOREM TypeCorrect == Spec => []TypeOK
<1>1. Init => TypeOK
  BY InitType
<1>2. TypeOK /\ [Next]_vars => TypeOK'
  BY NextType
<1> QED BY <1>1, <1>2, PTL DEF Spec

-----------------------------------------------------------------------------
(* One batch at a time *)

\* A step that changes the status of no run and starts no batch.
LEMMA BatchFrame ==
  ASSUME TypeOK, BatchInv,
         \A s \in Slot : runs'[s].status = runs[s].status,
         UNCHANGED <<hosted, mine>>,
         \A w \in Worker : InBatch(w)' => InBatch(w)
  PROVE  BatchInv'
<1>1. HoldsItsRun'
  BY DEF BatchInv, HoldsItsRun, TypeOK
<1>2. OneOpenRun'
  BY DEF BatchInv, OneOpenRun, Open
<1>3. AdmittedOnce'
  BY DEF BatchInv, AdmittedOnce, TypeOK
<1> QED BY <1>1, <1>2, <1>3 DEF BatchInv

(* The counters of a run are not its status. *)
LEMMA FinishScheduledJobStatus ==
  ASSUME TypeOK, NEW s, NEW j, NEW state, FinishScheduledJob(s, j, state), NEW t \in Slot
  PROVE  runs'[t].status = runs[t].status
BY DEF TypeOK, FinishScheduledJob

LEMMA CycleBatch == ASSUME TypeOK, BatchInv, NEW w \in Worker, Cycle(w) PROVE BatchInv'
<1>1. CASE Metered(w)
  BY <1>1, BatchFrame DEF Metered, Review, dbVars, InBatch, TypeOK, Control
<1>2. CASE Prepare(w)
  BY <1>2, BatchFrame DEF Prepare, Review, InBatch, TypeOK, Control
<1>3. CASE LeaveLoop(w)
  BY <1>3, BatchFrame DEF LeaveLoop, dbVars, localVars, InBatch, TypeOK, Control
<1>4. CASE ClaimJobLost(w)
  BY <1>4, BatchFrame DEF ClaimJobLost, Review, dbVars, InBatch, TypeOK, Control
<1>5. ASSUME NEW j \in Job, ClaimJob(w, j) PROVE BatchInv'
  <2>1. \A s \in Slot : runs'[s].status = runs[s].status
    BY <1>5 DEF ClaimJob, TypeOK
  <2>2. \A v \in Worker : InBatch(v)' => InBatch(v)
    BY <1>5 DEF ClaimJob, StartHandler, RejectEnvelope, Review, InBatch, TypeOK, Control
  <2> QED BY <1>5, <2>1, <2>2, BatchFrame DEF ClaimJob
<1>6. CASE TimeOut(w)
  BY <1>6, BatchFrame DEF TimeOut, dbVars, InBatch, TypeOK, Control
<1>7. CASE FinishJob(w)
  <2>1. \A s \in Slot : runs'[s].status = runs[s].status
    BY <1>7, FinishScheduledJobStatus DEF FinishJob, dbVars
  <2>2. \A v \in Worker : InBatch(v)' => InBatch(v)
    BY <1>7 DEF FinishJob, Recorded, FinishError, Review, InBatch, TypeOK, Control
  <2> QED BY <1>7, <2>1, <2>2, BatchFrame DEF FinishJob
<1>8. CASE CloseRun(w)
  <2>1. InBatch(w) /\ mine[w] \in hosted[w] /\ mine[w] \in Slot /\ runs[mine[w]].status = "running"
    BY <1>8 DEF CloseRun, InBatch, BatchInv, HoldsItsRun, TypeOK, Control
  <2>2. \A s \in Slot : s # mine[w] => runs'[s] = runs[s]
    BY <1>8 DEF CloseRun, TypeOK
  <2>3. runs'[mine[w]].status \in {"running", "completed", "indeterminate"}
    BY <1>8, <2>1 DEF CloseRun, TypeOK
  <2>4. \A v \in Worker : InBatch(v)' => v # w /\ InBatch(v) /\ mine'[v] = mine[v]
    BY <1>8 DEF CloseRun, InBatch, TypeOK
  <2>5. UNCHANGED hosted
    BY <1>8 DEF CloseRun
  <2>6. HoldsItsRun'
    <3> SUFFICES ASSUME NEW v \in Worker, InBatch(v)'
                 PROVE  mine'[v] \in hosted'[v] /\ runs'[mine'[v]].status = "running"
      BY DEF HoldsItsRun
    <3>1. mine[v] \in hosted[v] /\ mine[v] \in Slot /\ runs[mine[v]].status = "running"
      BY <2>4 DEF BatchInv, HoldsItsRun, TypeOK
    <3>2. mine[v] # mine[w]
      BY <2>1, <2>4, <3>1 DEF BatchInv, AdmittedOnce
    <3> QED BY <2>2, <2>4, <2>5, <3>1, <3>2
  <2>7. OneOpenRun'
    BY <2>1, <2>2, <2>3 DEF BatchInv, OneOpenRun, Open
  <2>8. AdmittedOnce'
    BY <2>2, <2>3, <2>5 DEF BatchInv, AdmittedOnce, TypeOK
  <2> QED BY <2>6, <2>7, <2>8 DEF BatchInv
<1> QED BY <1>1, <1>2, <1>3, <1>4, <1>5, <1>6, <1>7, <1>8 DEF Cycle

LEMMA GoneBatch == ASSUME TypeOK, BatchInv, NEW w \in Worker, Gone(w) PROVE BatchInv'
<1>1. /\ UNCHANGED runs
      /\ hosted'[w] = {}
      /\ \A v \in Worker : v # w => hosted'[v] = hosted[v] /\ mine'[v] = mine[v]
      /\ \A v \in Worker : InBatch(v)' => v # w /\ InBatch(v)
  BY DEF Gone, dbVars, InBatch, TypeOK
<1>2. HoldsItsRun'
  BY <1>1 DEF BatchInv, HoldsItsRun
<1>3. OneOpenRun'
  BY <1>1 DEF BatchInv, OneOpenRun, Open
<1>4. AdmittedOnce'
  BY <1>1 DEF BatchInv, AdmittedOnce
<1> QED BY <1>2, <1>3, <1>4 DEF BatchInv

(* Admission: no run is open, and nobody has admitted this slot's run before. *)
LEMMA ClaimRunBatch == ASSUME TypeOK, BatchInv, NEW w \in Worker, ClaimRun(w) PROVE BatchInv'
<1>1. now \in Slot /\ (\A s \in Slot : ~Open(s)) /\ runs[now].status = "none"
  BY DEF ClaimRun, RunAdmissible
<1>2. \A v \in Worker : ~InBatch(v)
  BY <1>1 DEF BatchInv, HoldsItsRun, Open, TypeOK
<1>3. runs'[now].status = "running" /\ \A s \in Slot : s # now => runs'[s] = runs[s]
  BY <1>1 DEF ClaimRun, TypeOK
<1>4. /\ hosted'[w] = hosted[w] \cup {now}
      /\ \A v \in Worker : v # w => hosted'[v] = hosted[v]
  BY DEF ClaimRun, TypeOK
<1>5. \A v \in Worker : InBatch(v)' => v = w /\ mine'[w] = now
  BY <1>2 DEF ClaimRun, InBatch, TypeOK
<1>6. HoldsItsRun'
  BY <1>3, <1>4, <1>5 DEF HoldsItsRun
<1>7. OneOpenRun'
  BY <1>1, <1>3 DEF OneOpenRun, Open
<1>8. \A v \in Worker : now \notin hosted[v]
  BY <1>1 DEF BatchInv, AdmittedOnce
<1>9. AdmittedOnce'
  <2>1. \A v \in Worker : \A s \in hosted'[v] : runs'[s].status # "none"
    BY <1>3, <1>4 DEF BatchInv, AdmittedOnce, TypeOK
  <2>2. \A u, v \in Worker : \A s \in Slot : s \in hosted'[u] /\ s \in hosted'[v] => u = v
    BY <1>4, <1>8 DEF BatchInv, AdmittedOnce
  <2> QED BY <2>1, <2>2 DEF AdmittedOnce
<1> QED BY <1>6, <1>7, <1>9 DEF BatchInv

LEMMA ProcessBatch == ASSUME TypeOK, BatchInv, NEW w \in Worker, Process(w) PROVE BatchInv'
<1>1. CASE ClaimRun(w) \/ Cycle(w)
  BY <1>1, ClaimRunBatch, CycleBatch
<1>2. CASE Stop(w)
  BY <1>2, BatchFrame DEF Stop, dbVars, InBatch
<1>3. CASE Exit(w) \/ Kill(w)
  BY <1>3, GoneBatch DEF Exit, Kill
<1>4. CASE Start(w)
  BY <1>4, BatchFrame DEF Start, dbVars, localVars, InBatch, TypeOK
<1>5. ASSUME NEW o \in Outcome, HandlerSettles(w, o) PROVE BatchInv'
  BY <1>5, BatchFrame DEF HandlerSettles, InBatch, TypeOK, Control
<1>6. ASSUME NEW o \in Outcome, NEW j \in Job, LateSettle(w, j, o) PROVE BatchInv'
  BY <1>6, BatchFrame DEF LateSettle, localVars, InBatch
<1> QED BY <1>1, <1>2, <1>3, <1>4, <1>5, <1>6 DEF Process

(* The owner closes a run no process holds. *)
LEMMA OwnerCloseBatch == ASSUME TypeOK, BatchInv, NEW s \in Slot, OwnerClose(s) PROVE BatchInv'
<1>1. /\ runs'[s].status = "failed"
      /\ \A t \in Slot : t # s => runs'[t] = runs[t]
      /\ \A w \in Worker : s \notin hosted[w]
      /\ UNCHANGED <<hosted, mine, pc>>
  BY DEF OwnerClose, localVars, TypeOK
<1>2. HoldsItsRun'
  BY <1>1 DEF BatchInv, HoldsItsRun, InBatch, TypeOK
<1>3. OneOpenRun'
  BY <1>1 DEF BatchInv, OneOpenRun, Open
<1>4. AdmittedOnce'
  BY <1>1 DEF BatchInv, AdmittedOnce, TypeOK
<1> QED BY <1>2, <1>3, <1>4 DEF BatchInv

LEMMA NextBatch == ASSUME TypeOK, BatchInv, [Next]_vars PROVE BatchInv'
<1>1. ASSUME NEW w \in Worker, Process(w) PROVE BatchInv'
  BY <1>1, ProcessBatch
<1>2. ASSUME NEW s \in Slot, OwnerClose(s) PROVE BatchInv'
  BY <1>2, OwnerCloseBatch
<1>3. CASE ChangeSettings \/ (\E j \in Job : AdminRetry(j) \/ Submit(j)) \/ Tick \/ UNCHANGED vars
  BY <1>3, BatchFrame DEF ChangeSettings, AdminRetry, Submit, Tick, vars, dbVars, localVars, InBatch
<1> QED BY <1>1, <1>2, <1>3 DEF Next, Environment

LEMMA BatchInvariant == Spec => []BatchInv
<1>1. Init => BatchInv
  BY DEF Init, BatchInv, HoldsItsRun, OneOpenRun, AdmittedOnce, InBatch, Open
<1>2. TypeOK /\ BatchInv /\ [Next]_vars => BatchInv'
  BY NextBatch
<1> QED BY <1>1, <1>2, TypeCorrect, PTL DEF Spec

(* At most one process executes a batch, for any number of processes: a        *)
(* process in a batch holds a run that is open, one run is open at a time, and *)
(* a run is admitted to one process only.                                      *)
THEOREM OneBatchAtATime == Spec => []SingleBatch
<1>1. TypeOK /\ BatchInv => SingleBatch
  BY DEF SingleBatch, BatchInv, HoldsItsRun, OneOpenRun, AdmittedOnce, Open, TypeOK
<1> QED BY <1>1, TypeCorrect, BatchInvariant, PTL

-----------------------------------------------------------------------------
(* Claims *)

Busy(w) == pc[w] \in {"handling", "finish"}

(* A step that changes no claim and no run's status: every process still in its *)
(* batch, and not ending it for review, keeps its run and, if busy, its job.    *)
LEMMA ClaimFrame ==
  ASSUME TypeOK, ClaimInv, UNCHANGED claim,
         \A s \in Slot : runs'[s].status = runs[s].status,
         \A w \in Worker : InBatch(w)' /\ status'[w] = "completed" =>
           /\ InBatch(w) /\ status[w] = "completed" /\ mine'[w] = mine[w]
           /\ Busy(w) => Busy(w)' /\ job'[w] = job[w]
  PROVE  ClaimInv'
<1>1. RunningClaimHasOpenRun'
  BY DEF ClaimInv, RunningClaimHasOpenRun, ClaimHasRun, Open
<1>2. OwnsItsClaim'
  BY DEF ClaimInv, OwnsItsClaim, Busy
<1>3. ClaimHasRun'
  BY DEF ClaimInv, ClaimHasRun
<1> QED BY <1>1, <1>2, <1>3 DEF ClaimInv

LEMMA ClaimJobClaims ==
  ASSUME TypeOK, BatchInv, ClaimInv, NEW w \in Worker, NEW j \in Job, ClaimJob(w, j)
  PROVE  ClaimInv'
<1>1. InBatch(w) /\ ~Busy(w) /\ mine[w] \in Slot /\ runs[mine[w]].status = "running"
  BY DEF ClaimJob, InBatch, Busy, BatchInv, HoldsItsRun, TypeOK, Control
<1>2. \A s \in Slot : runs'[s].status = runs[s].status
  BY DEF ClaimJob, TypeOK
<1>3. /\ claim'[j].state = "running" /\ claim'[j].run = mine[w]
      /\ \A k \in Job : k # j => claim'[k] = claim[k]
  BY DEF ClaimJob, TypeOK
<1>4. \A v \in Worker : v # w =>
        pc'[v] = pc[v] /\ mine'[v] = mine[v] /\ status'[v] = status[v] /\ job'[v] = job[v]
  BY DEF ClaimJob, StartHandler, RejectEnvelope, Review, TypeOK
<1>5. /\ mine'[w] = mine[w]
      /\ \/ status'[w] = "indeterminate"
         \/ Busy(w)' /\ job'[w] = j /\ status'[w] = status[w]
  <2>1. UNCHANGED mine
    BY DEF ClaimJob
  <2>2. CASE Review(w)
    BY <2>1, <2>2 DEF Review, TypeOK
  <2>3. CASE /\ job' = [job EXCEPT ![w] = j] /\ UNCHANGED status
             /\ StartHandler(w, j) \/ RejectEnvelope(w, j)
    BY <2>1, <2>3 DEF StartHandler, RejectEnvelope, TypeOK, Busy
  <2> QED BY <2>2, <2>3 DEF ClaimJob
<1>6. RunningClaimHasOpenRun'
  BY <1>1, <1>2, <1>3 DEF ClaimInv, RunningClaimHasOpenRun, ClaimHasRun, Open
<1>7. ClaimHasRun'
  BY <1>1, <1>3 DEF ClaimInv, ClaimHasRun
<1>8. OwnsItsClaim'
  <2> SUFFICES ASSUME NEW v \in Worker, InBatch(v)', status'[v] = "completed", NEW k \in Job,
                      claim'[k].state = "running", claim'[k].run = mine'[v]
               PROVE  Busy(v)' /\ job'[v] = k
    BY DEF OwnsItsClaim, Busy
  <2>1. CASE v = w
    <3>1. k = j
      BY <1>1, <1>3, <1>5, <2>1 DEF ClaimInv, OwnsItsClaim, Busy
    <3> QED BY <1>5, <2>1, <3>1
  <2>2. CASE v # w
    <3>1. InBatch(v) /\ mine[v] # mine[w]
      BY <1>1, <1>4, <2>2 DEF InBatch, BatchInv, HoldsItsRun, AdmittedOnce
    <3> QED BY <1>3, <1>4, <2>2, <3>1 DEF ClaimInv, OwnsItsClaim, Busy
  <2> QED BY <2>1, <2>2
<1> QED BY <1>6, <1>7, <1>8 DEF ClaimInv

LEMMA FinishJobClaims ==
  ASSUME TypeOK, ClaimInv, NEW w \in Worker, FinishJob(w)
  PROVE  ClaimInv'
<1>1. \A s \in Slot : runs'[s].status = runs[s].status
  BY FinishScheduledJobStatus DEF FinishJob, dbVars
<1>2. UNCHANGED mine /\ pc[w] = "finish"
  BY DEF FinishJob
<1>3. \A k \in Job : /\ claim'[k].run = claim[k].run
                     /\ claim'[k].state = "running" => claim[k].state = "running"
                     /\ claim'[k].state = "none" <=> claim[k].state = "none"
  <2>1. CASE FinishScheduledJob(mine[w], job[w], fin[w]) /\ ClaimFound(w)
    <3>1. fin[w] # "running" /\ fin[w] # "none"
      BY DEF TypeOK, FinState
    <3> QED BY <2>1, <3>1 DEF FinishScheduledJob, ClaimFound, TypeOK
  <2> QED BY <2>1 DEF FinishJob, dbVars
<1>4. /\ \A v \in Worker : v # w =>
           pc'[v] = pc[v] /\ status'[v] = status[v] /\ job'[v] = job[v]
      /\ \/ status'[w] = "indeterminate"
         \/ status'[w] = status[w] /\ pc'[w] = "finish" /\ job'[w] = job[w]
         \/ status'[w] = status[w] /\ \A k \in Job : k = job[w] => claim'[k].state # "running"
  <2>1. CASE Recorded(w) /\ FinishScheduledJob(mine[w], job[w], fin[w])
    <3> DEFINE j == job[w]
    <3>1. claim' = [claim EXCEPT ![j].state = fin[w]] /\ fin[w] # "running"
      BY <2>1 DEF FinishScheduledJob, TypeOK, FinState
    <3> HIDE DEF j
    <3>2. \A k \in Job : k = j => claim'[k].state # "running"
      BY <3>1 DEF TypeOK
    <3>3. \A v \in Worker : v # w =>
            pc'[v] = pc[v] /\ status'[v] = status[v] /\ job'[v] = job[v]
      BY <2>1 DEF Recorded, LeaveIteration, TypeOK
    <3>4. status'[w] = status[w]
      BY <2>1 DEF Recorded
    <3> QED BY <3>2, <3>3, <3>4 DEF j
  <2>2. CASE FinishError(w)
    <3>1. CASE UNCHANGED <<pc, job, status>>
      BY <1>2, <3>1
    <3>2. CASE Review(w) /\ LeaveIteration(w)
      BY <3>2 DEF Review, LeaveIteration, TypeOK
    <3> QED BY <2>2, <3>1, <3>2 DEF FinishError
  <2>3. \/ Recorded(w) /\ FinishScheduledJob(mine[w], job[w], fin[w])
        \/ FinishError(w)
    <3>1. PICK a \in Answer :
            /\ IF Applied(a) /\ ClaimFound(w)
                 THEN FinishScheduledJob(mine[w], job[w], fin[w])
                 ELSE UNCHANGED dbVars
            /\ IF a = "ok" /\ ClaimFound(w) THEN Recorded(w) ELSE FinishError(w)
      BY Zenon DEF FinishJob
    <3> QED BY <3>1 DEF Applied
  <2> QED BY <2>1, <2>2, <2>3
<1>6. RunningClaimHasOpenRun'
  BY <1>1, <1>3 DEF ClaimInv, RunningClaimHasOpenRun, ClaimHasRun, Open
<1>7. ClaimHasRun'
  BY <1>3 DEF ClaimInv, ClaimHasRun
<1>8. OwnsItsClaim'
  <2> SUFFICES ASSUME NEW v \in Worker, InBatch(v)', status'[v] = "completed", NEW k \in Job,
                      claim'[k].state = "running", claim'[k].run = mine'[v]
               PROVE  Busy(v)' /\ job'[v] = k
    BY DEF OwnsItsClaim, Busy
  <2>1. CASE v = w
    <3>1. status[w] = "completed" /\ InBatch(w)
      BY <1>2, <1>4, <2>1 DEF InBatch, Control
    <3>2. job[w] = k
      BY <1>2, <1>3, <2>1, <3>1 DEF ClaimInv, OwnsItsClaim
    <3> QED BY <1>4, <2>1, <3>2 DEF Busy
  <2>2. CASE v # w
    BY <1>2, <1>3, <1>4, <2>2 DEF ClaimInv, OwnsItsClaim, InBatch, Busy
  <2> QED BY <2>1, <2>2
<1> QED BY <1>6, <1>7, <1>8 DEF ClaimInv

(* A run that is completed owns no running claim; one left for review is open. *)
LEMMA CloseRunClaims ==
  ASSUME TypeOK, BatchInv, ClaimInv, NEW w \in Worker, CloseRun(w)
  PROVE  ClaimInv'
<1>1. InBatch(w) /\ ~Busy(w) /\ mine[w] \in Slot
  BY DEF CloseRun, InBatch, Busy, BatchInv, HoldsItsRun, TypeOK, Control
<1>2. UNCHANGED <<claim, job>> /\ \A s \in Slot : s # mine[w] => runs'[s] = runs[s]
  BY DEF CloseRun, TypeOK
<1>3. runs'[mine[w]].status \in {runs[mine[w]].status, status[w]}
  BY <1>1 DEF CloseRun, TypeOK
<1>4. \A v \in Worker : InBatch(v)' =>
        v # w /\ pc'[v] = pc[v] /\ mine'[v] = mine[v] /\ status'[v] = status[v]
  BY DEF CloseRun, InBatch, TypeOK
<1>5. RunningClaimHasOpenRun'
  <2> SUFFICES ASSUME NEW k \in Job, claim[k].state = "running"
               PROVE  Open(claim[k].run)'
    BY <1>2 DEF RunningClaimHasOpenRun
  <2>1. Open(claim[k].run) /\ claim[k].run \in Slot
    BY DEF ClaimInv, RunningClaimHasOpenRun, ClaimHasRun
  <2>2. CASE claim[k].run # mine[w]
    BY <1>2, <2>1, <2>2 DEF Open
  <2>3. CASE claim[k].run = mine[w]
    <3>1. status[w] = "indeterminate"
      BY <1>1, <2>3 DEF ClaimInv, OwnsItsClaim, Busy, TypeOK
    <3> QED BY <1>2, <1>3, <2>1, <2>3, <3>1 DEF Open
  <2> QED BY <2>2, <2>3
<1>6. OwnsItsClaim'
  BY <1>2, <1>4 DEF ClaimInv, OwnsItsClaim, InBatch
<1>7. ClaimHasRun'
  BY <1>2 DEF ClaimInv, ClaimHasRun
<1> QED BY <1>5, <1>6, <1>7 DEF ClaimInv

(* A new run owns no claim. *)
LEMMA ClaimRunClaims ==
  ASSUME TypeOK, BatchInv, ClaimInv, NEW w \in Worker, ClaimRun(w)
  PROVE  ClaimInv'
<1>1. now \in Slot /\ (\A s \in Slot : ~Open(s)) /\ UNCHANGED claim
  BY DEF ClaimRun, RunAdmissible
<1>2. \A k \in Job : claim[k].state # "running"
  BY <1>1 DEF ClaimInv, RunningClaimHasOpenRun, ClaimHasRun
<1> QED BY <1>1, <1>2 DEF ClaimInv, RunningClaimHasOpenRun, OwnsItsClaim, ClaimHasRun

LEMMA OwnerCloseClaims ==
  ASSUME TypeOK, BatchInv, ClaimInv, NEW s \in Slot, OwnerClose(s)
  PROVE  ClaimInv'
<1>1. \A t \in Slot : t # s => runs'[t] = runs[t]
  BY DEF OwnerClose, TypeOK
<1>2. \A k \in Job : /\ claim'[k].run = claim[k].run
                     /\ claim'[k].state = "running" => claim[k].state = "running" /\ claim[k].run # s
                     /\ claim'[k].state = "none" <=> claim[k].state = "none"
  BY DEF OwnerClose, TypeOK
<1>3. UNCHANGED <<pc, mine, status, job>>
  BY DEF OwnerClose, localVars
<1>4. RunningClaimHasOpenRun'
  BY <1>1, <1>2 DEF ClaimInv, RunningClaimHasOpenRun, ClaimHasRun, Open
<1>5. OwnsItsClaim'
  BY <1>2, <1>3 DEF ClaimInv, OwnsItsClaim, InBatch
<1>6. ClaimHasRun'
  BY <1>2 DEF ClaimInv, ClaimHasRun
<1> QED BY <1>4, <1>5, <1>6 DEF ClaimInv

LEMMA CycleClaims == ASSUME TypeOK, BatchInv, ClaimInv, NEW w \in Worker, Cycle(w) PROVE ClaimInv'
<1>1. CASE Metered(w) \/ Prepare(w) \/ LeaveLoop(w) \/ ClaimJobLost(w)
  BY <1>1, ClaimFrame
     DEF Metered, Prepare, LeaveLoop, ClaimJobLost, Review, dbVars, localVars, InBatch, Busy,
         TypeOK, Control
<1>2. CASE TimeOut(w)
  BY <1>2, ClaimFrame DEF TimeOut, dbVars, InBatch, Busy, TypeOK, Control
<1> QED BY <1>1, <1>2, ClaimJobClaims, FinishJobClaims, CloseRunClaims DEF Cycle

LEMMA ProcessClaims == ASSUME TypeOK, BatchInv, ClaimInv, NEW w \in Worker, Process(w) PROVE ClaimInv'
<1>1. CASE ClaimRun(w) \/ Cycle(w)
  BY <1>1, ClaimRunClaims, CycleClaims
<1>2. CASE Stop(w)
  BY <1>2, ClaimFrame DEF Stop, dbVars, InBatch, Busy
<1>3. CASE Exit(w) \/ Kill(w)
  BY <1>3, ClaimFrame DEF Exit, Kill, Gone, LeaveIteration, dbVars, InBatch, Busy, TypeOK
<1>4. CASE Start(w)
  BY <1>4, ClaimFrame DEF Start, dbVars, localVars, InBatch, Busy, TypeOK
<1>5. ASSUME NEW o \in Outcome, HandlerSettles(w, o) PROVE ClaimInv'
  BY <1>5, ClaimFrame DEF HandlerSettles, InBatch, Busy, TypeOK, Control
<1>6. ASSUME NEW o \in Outcome, NEW j \in Job, LateSettle(w, j, o) PROVE ClaimInv'
  BY <1>6, ClaimFrame DEF LateSettle, localVars, InBatch, Busy
<1> QED BY <1>1, <1>2, <1>3, <1>4, <1>5, <1>6 DEF Process

LEMMA NextClaims == ASSUME TypeOK, BatchInv, ClaimInv, [Next]_vars PROVE ClaimInv'
<1>1. ASSUME NEW w \in Worker, Process(w) PROVE ClaimInv'
  BY <1>1, ProcessClaims
<1>2. ASSUME NEW s \in Slot, OwnerClose(s) PROVE ClaimInv'
  BY <1>2, OwnerCloseClaims
<1>3. CASE ChangeSettings \/ (\E j \in Job : AdminRetry(j) \/ Submit(j)) \/ Tick \/ UNCHANGED vars
  BY <1>3, ClaimFrame DEF ChangeSettings, AdminRetry, Submit, Tick, vars, dbVars, localVars, InBatch, Busy
<1> QED BY <1>1, <1>2, <1>3 DEF Next, Environment

LEMMA ClaimInvariant == Spec => []ClaimInv
<1>1. Init => ClaimInv
  BY DEF Init, ClaimInv, RunningClaimHasOpenRun, OwnsItsClaim, ClaimHasRun
<1>2. TypeOK /\ BatchInv /\ ClaimInv /\ [Next]_vars => ClaimInv'
  BY NextClaims
<1> QED BY <1>1, <1>2, TypeCorrect, BatchInvariant, PTL DEF Spec

(* A claim left running always belongs to a run the owner still sees open: the *)
(* worker completes a run only when the claims it made in it are recorded.     *)
THEOREM RunningClaimsAreVisible == Spec => []RunningClaimHasOpenRun
<1>1. ClaimInv => RunningClaimHasOpenRun
  BY DEF ClaimInv
<1> QED BY <1>1, ClaimInvariant, PTL

-----------------------------------------------------------------------------
(* Recording *)

Handled(o) == o \in {"published", "processed"}

(* A step that commits no work, records no job as handled and lets no process  *)
(* begin to record one.                                                        *)
LEMMA CommitFrame ==
  ASSUME CommitInv, UNCHANGED committed,
         \A j \in Job : claim'[j].state = "processed" => claim[j].state = "processed",
         \A j \in Job : Handled(outbox'[j]) => Handled(outbox[j]),
         \A w \in Worker : Busy(w)' => Busy(w) /\ job'[w] = job[w],
         \A w \in Worker : pc'[w] = "finish" /\ fin'[w] = "processed" =>
                            pc[w] = "finish" /\ fin[w] = "processed"
  PROVE  CommitInv'
<1>1. HandledWasCommitted'
  BY DEF CommitInv, HandledWasCommitted, Handled
<1>2. RecordsWhatItSaw'
  BY DEF CommitInv, RecordsWhatItSaw, Busy
<1>3. WorksOnAJob'
  BY DEF CommitInv, WorksOnAJob, Busy
<1> QED BY <1>1, <1>2, <1>3 DEF CommitInv

(* A handler marks its row handled only in the transaction that commits its     *)
(* work, or after it; what is committed stays committed.                        *)
LEMMA HandlerCommits ==
  ASSUME TypeOK, HandledWasCommitted, NEW j \in Job, NEW o \in Outcome, HandlerEffect(j, o),
         UNCHANGED claim
  PROVE  /\ HandledWasCommitted'
         /\ \A k \in Job : committed[k] => committed'[k]
         /\ o = "done" => committed'[j]
<1>1. /\ \A k \in Job : k # j => committed'[k] = committed[k] /\ outbox'[k] = outbox[k]
      /\ committed'[j] <=> committed[j] \/ o \in {"done", "ackLost", "half"}
  BY DEF HandlerEffect, TypeOK
<1>2. Handled(outbox'[j]) => Handled(outbox[j]) \/ o \in {"done", "ackLost"}
  BY DEF HandlerEffect, TypeOK, Handled
<1>3. \A k \in Job : committed[k] => committed'[k]
  BY <1>1
<1>4. HandledWasCommitted'
  BY <1>1, <1>2 DEF HandledWasCommitted, Handled
<1> QED BY <1>1, <1>3, <1>4

LEMMA FinishJobCommits == ASSUME TypeOK, CommitInv, NEW w \in Worker, FinishJob(w) PROVE CommitInv'
<1>1. job[w] \in Job /\ (fin[w] = "processed" => committed[job[w]]) /\ UNCHANGED committed
  BY DEF FinishJob, CommitInv, WorksOnAJob, RecordsWhatItSaw
<1>2. HandledWasCommitted'
  <2>1. CASE FinishScheduledJob(mine[w], job[w], fin[w])
    <3>1. \A k \in Job : k # job[w] => claim'[k] = claim[k] /\ outbox'[k] = outbox[k]
      BY <2>1 DEF FinishScheduledJob, TypeOK
    <3>2. claim'[job[w]].state = fin[w]
      BY <1>1, <2>1 DEF FinishScheduledJob, TypeOK
    <3>3. Handled(outbox'[job[w]]) => Handled(outbox[job[w]]) \/ fin[w] = "processed"
      BY <1>1, <2>1 DEF FinishScheduledJob, TypeOK, Settled, Handled
    <3> QED BY <1>1, <3>1, <3>2, <3>3 DEF CommitInv, HandledWasCommitted, Handled
  <2>2. CASE UNCHANGED dbVars
    BY <1>1, <2>2 DEF CommitInv, HandledWasCommitted, dbVars
  <2> QED BY <2>1, <2>2 DEF FinishJob
<1>3. \A v \in Worker : v # w => pc'[v] = pc[v] /\ fin'[v] = fin[v] /\ job'[v] = job[v]
  <2>1. CASE LeaveIteration(w) /\ (Review(w) \/ Recorded(w))
    BY <2>1 DEF Recorded, LeaveIteration, Review, TypeOK
  <2>2. CASE fin' = [fin EXCEPT ![w] = CaughtState(w, FALSE)] /\ UNCHANGED <<pc, job>>
    BY <2>2 DEF TypeOK
  <2> QED BY <2>1, <2>2 DEF FinishJob, Recorded, FinishError
<1>4. \/ ~Busy(w)'
      \/ job'[w] = job[w] /\ fin'[w] # "processed"
  <2>1. CASE Recorded(w)
    BY <2>1 DEF Recorded, Busy, TypeOK
  <2>2. CASE Review(w)
    BY <2>2 DEF Review, Busy, TypeOK
  <2>3. CASE fin' = [fin EXCEPT ![w] = CaughtState(w, FALSE)] /\ UNCHANGED job
    BY <2>3 DEF CaughtState, TypeOK
  <2> QED BY <2>1, <2>2, <2>3 DEF FinishJob, FinishError
<1>5. RecordsWhatItSaw'
  BY <1>1, <1>3, <1>4 DEF CommitInv, RecordsWhatItSaw, Busy
<1>6. WorksOnAJob'
  BY <1>1, <1>3, <1>4 DEF CommitInv, WorksOnAJob, Busy
<1> QED BY <1>2, <1>5, <1>6 DEF CommitInv

LEMMA ClaimJobCommits ==
  ASSUME TypeOK, CommitInv, NEW w \in Worker, NEW j \in Job, ClaimJob(w, j)
  PROVE  CommitInv'
<1>1. HandledWasCommitted'
  <2>1. \A k \in Job : claim'[k].state = "processed" => claim[k].state = "processed"
    BY DEF ClaimJob, TypeOK
  <2> QED BY <2>1 DEF ClaimJob, CommitInv, HandledWasCommitted
<1>2. \A v \in Worker : v # w => pc'[v] = pc[v] /\ fin'[v] = fin[v] /\ job'[v] = job[v]
  BY DEF ClaimJob, StartHandler, RejectEnvelope, Review, TypeOK
<1>3. \/ ~Busy(w)'
      \/ job'[w] = j /\ (pc'[w] = "handling" \/ fin'[w] = "failed")
  <2>1. CASE Review(w)
    BY <2>1 DEF Review, Busy, TypeOK
  <2>2. CASE job' = [job EXCEPT ![w] = j] /\ (StartHandler(w, j) \/ RejectEnvelope(w, j))
    BY <2>2 DEF StartHandler, RejectEnvelope, TypeOK
  <2> QED BY <2>1, <2>2 DEF ClaimJob
<1>4. UNCHANGED committed
  BY DEF ClaimJob
<1>5. RecordsWhatItSaw'
  BY <1>2, <1>3, <1>4 DEF CommitInv, RecordsWhatItSaw, Busy
<1>6. WorksOnAJob'
  BY <1>2, <1>3 DEF CommitInv, WorksOnAJob, Busy
<1> QED BY <1>1, <1>5, <1>6 DEF CommitInv

LEMMA HandlerSettlesCommits ==
  ASSUME TypeOK, CommitInv, NEW w \in Worker, NEW o \in Outcome, HandlerSettles(w, o)
  PROVE  CommitInv'
<1>1. job[w] \in Job /\ UNCHANGED <<claim, job>>
  BY DEF HandlerSettles, CommitInv, WorksOnAJob
<1>2. /\ HandledWasCommitted'
      /\ \A k \in Job : committed[k] => committed'[k]
      /\ o = "done" => committed'[job[w]]
  BY <1>1, HandlerCommits DEF HandlerSettles, CommitInv
<1>3. /\ \A v \in Worker : v # w => pc'[v] = pc[v] /\ fin'[v] = fin[v]
      /\ fin'[w] = "processed" => o = "done"
  BY DEF HandlerSettles, CaughtState, TypeOK
<1>4. RecordsWhatItSaw'
  BY <1>1, <1>2, <1>3 DEF CommitInv, RecordsWhatItSaw, WorksOnAJob
<1>5. WorksOnAJob'
  BY <1>1, <1>3 DEF CommitInv, WorksOnAJob
<1> QED BY <1>2, <1>4, <1>5 DEF CommitInv

LEMMA LateSettleCommits ==
  ASSUME TypeOK, CommitInv, NEW w \in Worker, NEW j \in Job, NEW o \in Outcome, LateSettle(w, j, o)
  PROVE  CommitInv'
<1>1. HandledWasCommitted' /\ \A k \in Job : committed[k] => committed'[k]
  BY HandlerCommits DEF LateSettle, CommitInv
<1> QED BY <1>1 DEF LateSettle, localVars, CommitInv, RecordsWhatItSaw, WorksOnAJob

LEMMA NextCommits == ASSUME TypeOK, CommitInv, [Next]_vars PROVE CommitInv'
<1>1. ASSUME NEW w \in Worker, Cycle(w) PROVE CommitInv'
  <2>1. CASE Metered(w) \/ LeaveLoop(w) \/ ClaimJobLost(w) \/ TimeOut(w) \/ CloseRun(w)
    BY <2>1, CommitFrame
       DEF Metered, LeaveLoop, ClaimJobLost, TimeOut, CloseRun, Review, dbVars, localVars, Busy, TypeOK
  <2>2. CASE Prepare(w)
    <3>1. \A j \in Job : Handled(outbox'[j]) => Handled(outbox[j])
      BY <2>2 DEF Prepare, Enqueue, Handled
    <3> QED BY <2>2, <3>1, CommitFrame DEF Prepare, Review, Busy, TypeOK
  <2> QED BY <1>1, <2>1, <2>2, FinishJobCommits, ClaimJobCommits DEF Cycle
<1>2. ASSUME NEW w \in Worker, Process(w) PROVE CommitInv'
  <2>1. CASE ClaimRun(w)
    BY <2>1, CommitFrame DEF ClaimRun, Busy, TypeOK
  <2>2. CASE Stop(w) \/ Start(w)
    BY <2>2, CommitFrame DEF Stop, Start, dbVars, localVars, Busy, TypeOK
  <2>3. CASE Exit(w) \/ Kill(w)
    BY <2>3, CommitFrame DEF Exit, Kill, Gone, LeaveIteration, dbVars, Busy, TypeOK
  <2> QED BY <1>1, <1>2, <2>1, <2>2, <2>3, HandlerSettlesCommits, LateSettleCommits DEF Process
<1>3. ASSUME NEW s \in Slot, OwnerClose(s) PROVE CommitInv'
  <2>1. \A j \in Job : claim'[j].state = "processed" => claim[j].state = "processed"
    BY <1>3 DEF OwnerClose, TypeOK
  <2> QED BY <1>3, <2>1, CommitFrame DEF OwnerClose, localVars, Busy
<1>4. ASSUME NEW j \in Job, AdminRetry(j) \/ Submit(j) PROVE CommitInv'
  <2>1. \A k \in Job : Handled(outbox'[k]) => Handled(outbox[k])
    BY <1>4 DEF AdminRetry, Submit, Enqueue, Handled, TypeOK
  <2> QED BY <1>4, <2>1, CommitFrame DEF AdminRetry, Submit, localVars, Busy
<1>5. CASE ChangeSettings \/ Tick \/ UNCHANGED vars
  BY <1>5, CommitFrame DEF ChangeSettings, Tick, vars, dbVars, localVars, Busy
<1> QED BY <1>2, <1>3, <1>4, <1>5 DEF Next, Environment

LEMMA CommitInvariant == Spec => []CommitInv
<1>1. Init => CommitInv
  BY DEF Init, CommitInv, HandledWasCommitted, RecordsWhatItSaw, WorksOnAJob
<1>2. TypeOK /\ CommitInv /\ [Next]_vars => CommitInv'
  BY NextCommits
<1> QED BY <1>1, <1>2, TypeCorrect, PTL DEF Spec

(* A job recorded as handled, in its claim or in its outbox row, has its work  *)
(* committed: a timeout, a lost answer or a second finishJob never records a   *)
(* success nobody saw.                                                         *)
THEOREM HandledIsCommitted == Spec => []HandledWasCommitted
<1>1. CommitInv => HandledWasCommitted
  BY DEF CommitInv
<1> QED BY <1>1, CommitInvariant, PTL

-----------------------------------------------------------------------------
(***************************************************************************)
(* What ScheduledBatch promises about jobs, for any number of processes,   *)
(* jobs, kills and lost calls: attempts, executions that nobody waits for, *)
(* completed runs, counters, and the promise of JobDelivery.               *)
(***************************************************************************)

-----------------------------------------------------------------------------
(* What is known of a job and its claim while a process works on it.           *)

AttemptsCounted ==
  \A j \in Job :
    /\ claim[j].state = "none" <=> claim[j].attempt = 0
    /\ claim[j].state = "none" => claim[j].run = NoRun
    /\ claim[j].attempt =< MaxAttempts
    /\ claim[j].state = "retry" => claim[j].attempt < MaxAttempts

(* The claim of the job in hand is the process's own: still running, or ended  *)
(* by a call whose answer was lost.                                            *)
OwnsWhatItWorksOn ==
  \A w \in Worker : Busy(w) =>
    /\ claim[job[w]].run = mine[w]
    /\ claim[job[w]].state \in {"running", "processed", "indeterminate"}
    /\ claim[job[w]].attempt = attempt[w]
    /\ pc[w] = "handling" => claim[job[w]].state = "running"

(* Only the calls of the inner try are repeated, and a retry is recorded only  *)
(* while an attempt is left.                                                   *)
FinishChoice ==
  \A w \in Worker : pc[w] = "finish" =>
    /\ fin[w] = "retry" => attempt[w] < MaxAttempts
    /\ inTry[w] => fin[w] \in {"processed", "indeterminate"}
    /\ fin[w] = "indeterminate" => status[w] = "indeterminate"

AttemptInv == AttemptsCounted /\ OwnsWhatItWorksOn /\ FinishChoice

(* Until it closes its run, a process knows of the one claim that is running.  *)
KnowsItsClaim ==
  \A w \in Worker : InBatch(w) /\ pc[w] # "close" =>
    \A j \in Job : claim[j].state = "running" /\ claim[j].run = mine[w] => Busy(w) /\ job[w] = j

OneRunning == \A i, j \in Job : claim[i].state = "running" /\ claim[j].state = "running" => i = j

RunningInv == KnowsItsClaim /\ OneRunning

(* An execution belongs to an open run of its process.  While its claim may    *)
(* come back its row waits, beyond the deadline of the run.                    *)
LiveBelongs ==
  \A w \in Worker : \A j \in live[w] : claim[j].run \in hosted[w] /\ Open(claim[j].run)

LiveWaits ==
  \A w \in Worker : \A j \in live[w] :
    /\ claim[j].state \in {"running", "retry"} => outbox[j] = "pending"
    /\ claim[j].state = "retry" => availableAt[j] >= Deadline(claim[j].run)

(* A process that left an execution behind does not complete its run. *)
LiveReviewed ==
  \A w \in Worker : \A j \in live[w] :
    InBatch(w) /\ mine[w] = claim[j].run /\ status[w] = "completed" => pc[w] = "handling" /\ job[w] = j

LiveInv == LiveBelongs /\ LiveWaits /\ LiveReviewed

(* A run was admitted in its slot, and a claim belongs to an admitted run.     *)
RunStarted ==
  /\ \A s \in Slot : runs[s].status # "none" => s =< now
  /\ \A j \in Job : claim[j].state # "none" => runs[claim[j].run].status # "none"

Ended == {"processed", "retry", "failed"}

(* A process that does not know of anything to review has ended its claims.    *)
RecordsItsClaims ==
  \A w \in Worker : InBatch(w) /\ status[w] = "completed" =>
    \A j \in Job : claim[j].run = mine[w] /\ ~(Busy(w) /\ job[w] = j) => claim[j].state \in Ended

CompletedIsRecorded ==
  \A j \in Job : claim[j].state # "none" /\ runs[claim[j].run].status = "completed" =>
    claim[j].state \in Ended

SettledInv == RunStarted /\ RecordsItsClaims /\ CompletedIsRecorded

(* But for a WorkJob, whose handler may mark its row failed, the row of a      *)
(* retried claim waits beyond the deadline of the run.                         *)
RetryWaits ==
  \A j \in Job \ WorkJob :
    /\ claim[j].state = "retry" /\ outbox[j] = "pending" => availableAt[j] >= Deadline(claim[j].run)
    /\ outbox[j] = "failed" => claim[j].state = "failed"
    /\ outbox[j] = "absent" => claim[j].state = "none"

CountedClaims ==
  \A s \in Slot : runs[s].status # "failed" =>
    runs[s].attempted = runs[s].processed + runs[s].failures
      + (IF \E j \in Job : claim[j].run = s /\ claim[j].state = "running" THEN 1 ELSE 0)

-----------------------------------------------------------------------------
(* Most steps leave claims, executions and runs alone.                         *)

Waiting == {"metered", "prepare", "loop"}

Moves(w) ==
  \/ pc'[w] = pc[w] /\ status'[w] = status[w]
  \/ pc[w] \in Waiting /\ pc'[w] = "loop" /\ status'[w] = status[w]
  \/ pc[w] \in Waiting /\ pc'[w] = "close" /\ status'[w] \in {status[w], "indeterminate"}
  \/ pc[w] = "down" /\ pc'[w] = "idle" /\ status'[w] = status[w]

RowMoves(j) ==
  \/ outbox'[j] = outbox[j] /\ availableAt'[j] = availableAt[j]
  \/ outbox[j] \in {"absent", "failed"} /\ outbox'[j] = "pending"

Quiet ==
  /\ UNCHANGED <<runs, claim, committed, hosted, mine, job, attempt, fin, inTry, live>>
  /\ now' >= now
  /\ \A w \in Worker : Moves(w)
  /\ \A j \in Job : RowMoves(j)

LEMMA EnqueueMoves ==
  ASSUME TypeOK, NEW new \in SUBSET {j \in Job : outbox[j] = "absent"}, Enqueue(new)
  PROVE  \A j \in Job : RowMoves(j)
BY DEF Enqueue, RowMoves, TypeOK

LEMMA QuietCycle ==
  ASSUME TypeOK, NEW w \in Worker, Metered(w) \/ Prepare(w) \/ LeaveLoop(w) \/ ClaimJobLost(w)
  PROVE  Quiet
<1>1. UNCHANGED <<now, runs, claim, committed, hosted, mine, job, attempt, fin, inTry, live>>
  BY DEF Metered, Prepare, LeaveLoop, ClaimJobLost, dbVars, localVars
<1>2. \A v \in Worker : Moves(v)
  BY DEF Metered, Prepare, LeaveLoop, ClaimJobLost, Review, localVars, Moves, Waiting, TypeOK
<1>3. \A j \in Job : RowMoves(j)
  <2>1. CASE Prepare(w)
    <3>1. PICK new \in SUBSET {j \in Job : outbox[j] = "absent"} : Enqueue(new)
      BY <2>1 DEF Prepare, Job
    <3> QED BY <3>1, EnqueueMoves
  <2>2. CASE Metered(w) \/ LeaveLoop(w) \/ ClaimJobLost(w)
    BY <2>2 DEF Metered, LeaveLoop, ClaimJobLost, dbVars, RowMoves
  <2> QED BY <2>1, <2>2
<1> QED BY <1>1, <1>2, <1>3 DEF Quiet, TypeOK

LEMMA QuietRest ==
  ASSUME TypeOK,
         \/ \E w \in Worker : Stop(w) \/ Start(w)
         \/ ChangeSettings \/ (\E j \in Job : AdminRetry(j) \/ Submit(j)) \/ Tick \/ UNCHANGED vars
  PROVE  Quiet
<1>1. ASSUME NEW w \in Worker, Stop(w) \/ Start(w) PROVE Quiet
  BY <1>1 DEF Stop, Start, dbVars, localVars, Quiet, Moves, RowMoves, TypeOK
<1>2. CASE ChangeSettings \/ Tick \/ UNCHANGED vars
  BY <1>2 DEF ChangeSettings, Tick, vars, dbVars, localVars, Quiet, Moves, RowMoves, TypeOK
<1>3. ASSUME NEW j \in Job, AdminRetry(j) PROVE Quiet
  BY <1>3 DEF AdminRetry, localVars, Quiet, Moves, RowMoves, TypeOK
<1>4. ASSUME NEW j \in Job, Submit(j) PROVE Quiet
  BY <1>4, EnqueueMoves DEF Submit, localVars, Quiet, Moves, TypeOK
<1> QED BY <1>1, <1>2, <1>3, <1>4

(* The other steps, each with what it does. *)
LEMMA StepCases ==
  ASSUME TypeOK, [Next]_vars
  PROVE  \/ Quiet
         \/ \E s \in Slot : OwnerClose(s)
         \/ \E w \in Worker :
              \/ ClaimRun(w) \/ TimeOut(w) \/ FinishJob(w) \/ CloseRun(w) \/ Gone(w)
              \/ \E j \in Job : ClaimJob(w, j)
              \/ \E o \in Outcome : HandlerSettles(w, o) \/ \E j \in Job : LateSettle(w, j, o)
BY QuietCycle, QuietRest DEF Next, Process, Environment, Cycle, Exit, Kill

-----------------------------------------------------------------------------
(* What the other steps do, process by process and claim by claim.             *)

SameProcess(v) ==
  /\ pc'[v] = pc[v] /\ status'[v] = status[v] /\ mine'[v] = mine[v] /\ hosted'[v] = hosted[v]
  /\ job'[v] = job[v] /\ attempt'[v] = attempt[v] /\ fin'[v] = fin[v] /\ inTry'[v] = inTry[v]
  /\ live'[v] = live[v]

Leaves(w) == pc'[w] = "close" /\ status'[w] = "indeterminate" /\ live'[w] = live[w]

Begins(w, j) ==
  /\ pc'[w] = "handling" /\ live'[w] = live[w] \cup {j}
  /\ status'[w] = status[w] /\ job'[w] = j /\ attempt'[w] = claim[j].attempt + 1

Rejects(w, j) ==
  /\ pc'[w] = "finish" /\ fin'[w] = "failed" /\ ~inTry'[w] /\ live'[w] = live[w]
  /\ status'[w] = status[w] /\ job'[w] = j /\ attempt'[w] = claim[j].attempt + 1

LEMMA InBatchHolds ==
  ASSUME TypeOK, BatchInv, NEW w \in Worker, InBatch(w)
  PROVE  mine[w] \in Slot /\ mine[w] \in hosted[w] /\ runs[mine[w]].status = "running" /\ Open(mine[w])
BY DEF BatchInv, HoldsItsRun, TypeOK, Open

LEMMA ClaimJobEffect ==
  ASSUME TypeOK, BatchInv, NEW w \in Worker, NEW j \in Job, ClaimJob(w, j)
  PROVE  /\ pc[w] = "loop" /\ mine[w] \in Slot /\ mine[w] \in hosted[w] /\ Open(mine[w])
         /\ now < Deadline(mine[w]) /\ j \in Due
         /\ UNCHANGED <<now, outbox, availableAt, committed, mine, hosted>>
         /\ \A k \in Job : k # j => claim'[k] = claim[k]
         /\ claim'[j].state = "running" /\ claim'[j].run = mine[w]
         /\ claim'[j].attempt = claim[j].attempt + 1
         /\ \A s \in Slot : s # mine[w] => runs'[s] = runs[s]
         /\ \A s \in Slot : runs'[s].status = runs[s].status
         /\ runs'[mine[w]].attempted = runs[mine[w]].attempted + 1
         /\ runs'[mine[w]].processed = runs[mine[w]].processed
         /\ runs'[mine[w]].failures = runs[mine[w]].failures
         /\ \A v \in Worker : v # w => SameProcess(v)
         /\ Begins(w, j) \/ Rejects(w, j) \/ Leaves(w)
<1>1. pc[w] = "loop" /\ now < Deadline(mine[w]) /\ j \in Due
  BY DEF ClaimJob, MayClaimJob
<1>2. mine[w] \in Slot /\ mine[w] \in hosted[w] /\ Open(mine[w])
  BY <1>1, InBatchHolds DEF InBatch, Control
<1>3. UNCHANGED <<now, outbox, availableAt, committed, mine, hosted>>
  BY DEF ClaimJob
<1>4. /\ \A k \in Job : k # j => claim'[k] = claim[k]
      /\ claim'[j].state = "running" /\ claim'[j].run = mine[w]
      /\ claim'[j].attempt = claim[j].attempt + 1
  BY DEF ClaimJob, TypeOK
<1>5. /\ \A s \in Slot : s # mine[w] => runs'[s] = runs[s]
      /\ \A s \in Slot : runs'[s].status = runs[s].status
      /\ runs'[mine[w]].attempted = runs[mine[w]].attempted + 1
      /\ runs'[mine[w]].processed = runs[mine[w]].processed
      /\ runs'[mine[w]].failures = runs[mine[w]].failures
  BY <1>2 DEF ClaimJob, TypeOK
<1>6. \A v \in Worker : v # w => SameProcess(v)
  BY DEF ClaimJob, StartHandler, RejectEnvelope, Review, SameProcess, TypeOK
<1>7. Begins(w, j) \/ Rejects(w, j) \/ Leaves(w)
  <2>1. CASE Review(w) /\ UNCHANGED live
    BY <2>1 DEF Review, Leaves, TypeOK
  <2>2. CASE /\ job' = [job EXCEPT ![w] = j]
             /\ attempt' = [attempt EXCEPT ![w] = claim[j].attempt + 1]
             /\ StartHandler(w, j)
             /\ UNCHANGED status
    BY <2>2 DEF StartHandler, Begins, TypeOK
  <2>3. CASE /\ job' = [job EXCEPT ![w] = j]
             /\ attempt' = [attempt EXCEPT ![w] = claim[j].attempt + 1]
             /\ RejectEnvelope(w, j)
             /\ UNCHANGED status
    BY <2>3 DEF RejectEnvelope, Rejects, TypeOK
  <2> QED BY <2>1, <2>2, <2>3 DEF ClaimJob
<1> QED BY <1>1, <1>2, <1>3, <1>4, <1>5, <1>6, <1>7

Returns(w) ==
  /\ pc'[w] = IF fin[w] = "indeterminate" THEN "close" ELSE "loop"
  /\ status'[w] = status[w] /\ live'[w] = live[w]

TriesAgain(w) ==
  /\ inTry[w] /\ pc'[w] = "finish" /\ fin'[w] = CaughtState(w, FALSE) /\ ~inTry'[w]
  /\ status'[w] = status[w] /\ live'[w] = live[w] /\ job'[w] = job[w] /\ attempt'[w] = attempt[w]

\* finish_scheduled_job on the job in hand.
Recording(w) ==
  /\ ClaimFound(w)
  /\ \A k \in Job : k # job[w] =>
       claim'[k] = claim[k] /\ outbox'[k] = outbox[k] /\ availableAt'[k] = availableAt[k]
  /\ claim'[job[w]].state = fin[w]
  /\ claim'[job[w]].run = mine[w] /\ claim'[job[w]].attempt = claim[job[w]].attempt
  /\ outbox'[job[w]] = IF outbox[job[w]] = "pending" THEN Settled(job[w], fin[w]) ELSE outbox[job[w]]
  /\ fin[w] = "retry" /\ outbox[job[w]] = "pending" => availableAt'[job[w]] = now + RetryDelay
  /\ \A s \in Slot : s # mine[w] => runs'[s] = runs[s]
  /\ \A s \in Slot : runs'[s].status = runs[s].status
  /\ runs'[mine[w]].attempted = runs[mine[w]].attempted
  /\ runs'[mine[w]].processed + runs'[mine[w]].failures
       = runs[mine[w]].processed + runs[mine[w]].failures + 1

LEMMA FinishJobEffect ==
  ASSUME TypeOK, BatchInv, CommitInv, NEW w \in Worker, FinishJob(w)
  PROVE  /\ pc[w] = "finish" /\ mine[w] \in Slot /\ job[w] \in Job
         /\ UNCHANGED <<now, committed, mine, hosted, live>>
         /\ \A v \in Worker : v # w => SameProcess(v)
         /\ Recording(w) \/ UNCHANGED dbVars
         /\ (Recording(w) /\ Returns(w)) \/ TriesAgain(w) \/ Leaves(w)
<1>1. pc[w] = "finish" /\ mine[w] \in Slot /\ job[w] \in Job
  BY InBatchHolds DEF FinishJob, InBatch, Control, CommitInv, WorksOnAJob
<1>2. UNCHANGED <<now, committed, mine, hosted, live>>
  BY DEF FinishJob
<1>4. ASSUME ClaimFound(w), FinishScheduledJob(mine[w], job[w], fin[w]) PROVE Recording(w)
  <2>1. \A k \in Job : k # job[w] =>
          claim'[k] = claim[k] /\ outbox'[k] = outbox[k] /\ availableAt'[k] = availableAt[k]
    BY <1>4 DEF FinishScheduledJob, TypeOK
  <2>2. /\ claim'[job[w]].state = fin[w]
        /\ claim'[job[w]].run = mine[w] /\ claim'[job[w]].attempt = claim[job[w]].attempt
    BY <1>1, <1>4 DEF FinishScheduledJob, ClaimFound, TypeOK
  <2>3. outbox'[job[w]] = IF outbox[job[w]] = "pending" THEN Settled(job[w], fin[w]) ELSE outbox[job[w]]
    BY <1>1, <1>4 DEF FinishScheduledJob, TypeOK
  <2>4. fin[w] = "retry" /\ outbox[job[w]] = "pending" => availableAt'[job[w]] = now + RetryDelay
    BY <1>1, <1>4 DEF FinishScheduledJob, TypeOK
  <2>5. /\ \A s \in Slot : s # mine[w] => runs'[s] = runs[s]
        /\ \A s \in Slot : runs'[s].status = runs[s].status
        /\ runs'[mine[w]].attempted = runs[mine[w]].attempted
    BY <1>1, <1>4 DEF FinishScheduledJob, TypeOK
  <2>6. runs'[mine[w]].processed + runs'[mine[w]].failures
          = runs[mine[w]].processed + runs[mine[w]].failures + 1
    <3>1. runs[mine[w]].processed \in Nat /\ runs[mine[w]].failures \in Nat
      BY <1>1 DEF TypeOK
    <3>2. CASE fin[w] = "processed"
      BY <1>1, <1>4, <3>1, <3>2 DEF FinishScheduledJob, TypeOK
    <3>3. CASE fin[w] # "processed"
      BY <1>1, <1>4, <3>1, <3>3 DEF FinishScheduledJob, TypeOK
    <3> QED BY <3>2, <3>3
  <2> QED BY <1>4, <2>1, <2>2, <2>3, <2>4, <2>5, <2>6 DEF Recording
<1>5. \A v \in Worker : v # w => SameProcess(v)
  <2>1. CASE LeaveIteration(w) /\ (Review(w) \/ Recorded(w))
    BY <1>2, <2>1 DEF Recorded, LeaveIteration, Review, SameProcess, TypeOK
  <2>2. CASE /\ fin' = [fin EXCEPT ![w] = CaughtState(w, FALSE)]
             /\ inTry' = [inTry EXCEPT ![w] = FALSE]
             /\ UNCHANGED <<pc, job, attempt, status>>
    BY <1>2, <2>2 DEF SameProcess, TypeOK
  <2> QED BY <2>1, <2>2 DEF FinishJob, Recorded, FinishError
<1>6. Recording(w) \/ UNCHANGED dbVars
  BY <1>4 DEF FinishJob
<1>7. FinishError(w) => TriesAgain(w) \/ Leaves(w)
  <2>1. CASE inTry[w]
    BY <1>1, <1>2, <2>1 DEF FinishError, TriesAgain, CaughtState, TypeOK
  <2>2. CASE ~inTry[w]
    BY <1>2, <2>2 DEF FinishError, Review, Leaves, TypeOK
  <2> QED BY <2>1, <2>2
<1>8. Recorded(w) => Returns(w)
  BY <1>2 DEF Recorded, Returns, TypeOK
<1>9. (Recording(w) /\ Returns(w)) \/ TriesAgain(w) \/ Leaves(w)
  BY <1>4, <1>7, <1>8 DEF FinishJob, Applied
<1> QED BY <1>1, <1>2, <1>5, <1>6, <1>9

LEMMA OwnerCloseEffect ==
  ASSUME TypeOK, NEW s \in Slot, OwnerClose(s)
  PROVE  /\ Open(s) /\ \A w \in Worker : s \notin hosted[w]
         /\ UNCHANGED <<now, outbox, availableAt, committed>>
         /\ \A v \in Worker : SameProcess(v)
         /\ \A t \in Slot : t # s => runs'[t] = runs[t]
         /\ runs'[s].status = "failed"
         /\ \A j \in Job :
              /\ claim'[j].run = claim[j].run /\ claim'[j].attempt = claim[j].attempt
              /\ claim'[j].state = IF claim[j].run = s /\ claim[j].state = "running"
                                     THEN "indeterminate" ELSE claim[j].state
<1>1. /\ Open(s) /\ \A w \in Worker : s \notin hosted[w]
      /\ UNCHANGED <<now, outbox, availableAt, committed>>
  BY DEF OwnerClose
<1>2. \A v \in Worker : SameProcess(v)
  BY DEF OwnerClose, localVars, SameProcess
<1>3. (\A t \in Slot : t # s => runs'[t] = runs[t]) /\ runs'[s].status = "failed"
  BY DEF OwnerClose, TypeOK
<1>4. \A j \in Job :
        /\ claim'[j].run = claim[j].run /\ claim'[j].attempt = claim[j].attempt
        /\ claim'[j].state = IF claim[j].run = s /\ claim[j].state = "running"
                               THEN "indeterminate" ELSE claim[j].state
  BY DEF OwnerClose, TypeOK
<1> QED BY <1>1, <1>2, <1>3, <1>4

LEMMA CloseRunEffect ==
  ASSUME TypeOK, BatchInv, NEW w \in Worker, CloseRun(w)
  PROVE  /\ pc[w] = "close" /\ pc'[w] = "idle" /\ mine[w] \in Slot /\ mine[w] \in hosted[w]
         /\ UNCHANGED <<now, claim, outbox, availableAt, committed, hosted, job, attempt, fin, inTry, live>>
         /\ \A v \in Worker : v # w => SameProcess(v)
         /\ \A s \in Slot : s # mine[w] => runs'[s] = runs[s]
         /\ runs'[mine[w]].status \in {"running", status[w]}
         /\ \A s \in Slot : /\ runs'[s].attempted = runs[s].attempted
                            /\ runs'[s].processed = runs[s].processed
                            /\ runs'[s].failures = runs[s].failures
<1>1. pc[w] = "close" /\ pc'[w] = "idle"
  BY DEF CloseRun, TypeOK
<1>2. mine[w] \in Slot /\ mine[w] \in hosted[w] /\ runs[mine[w]].status = "running"
  BY <1>1, InBatchHolds DEF InBatch, Control
<1>3. UNCHANGED <<now, claim, outbox, availableAt, committed, hosted, job, attempt, fin, inTry, live>>
  BY DEF CloseRun
<1>4. \A v \in Worker : v # w => SameProcess(v)
  BY DEF CloseRun, SameProcess, TypeOK
<1>5. /\ \A s \in Slot : s # mine[w] => runs'[s] = runs[s]
      /\ runs'[mine[w]].status \in {"running", status[w]}
      /\ \A s \in Slot : /\ runs'[s].attempted = runs[s].attempted
                         /\ runs'[s].processed = runs[s].processed
                         /\ runs'[s].failures = runs[s].failures
  <2>1. CASE UNCHANGED runs
    BY <1>2, <2>1
  <2>2. CASE runs' = [runs EXCEPT ![mine[w]].status = status[w]]
    BY <1>2, <2>2 DEF TypeOK
  <2> QED BY <2>1, <2>2 DEF CloseRun
<1> QED BY <1>1, <1>2, <1>3, <1>4, <1>5

LEMMA ClaimRunEffect ==
  ASSUME TypeOK, NEW w \in Worker, ClaimRun(w)
  PROVE  /\ now \in Slot /\ pc[w] = "idle" /\ (\A s \in Slot : ~Open(s)) /\ runs[now].status = "none"
         /\ UNCHANGED <<now, claim, outbox, availableAt, committed, live>>
         /\ \A v \in Worker : v # w => SameProcess(v)
         /\ hosted[w] \subseteq hosted'[w]
         /\ \/ pc'[w] \in {"metered", "prepare"} /\ mine'[w] = now
            \/ pc'[w] = "idle"
         /\ \A s \in Slot : s # now => runs'[s] = runs[s]
         /\ runs'[now].status = "running"
         /\ \A s \in Slot : /\ runs'[s].attempted = runs[s].attempted
                            /\ runs'[s].processed = runs[s].processed
                            /\ runs'[s].failures = runs[s].failures
<1>1. now \in Slot /\ pc[w] = "idle" /\ (\A s \in Slot : ~Open(s)) /\ runs[now].status = "none"
  BY DEF ClaimRun, RunAdmissible
<1>2. UNCHANGED <<now, claim, outbox, availableAt, committed, live>>
  BY DEF ClaimRun
<1>3. \A v \in Worker : v # w => SameProcess(v)
  BY DEF ClaimRun, SameProcess, TypeOK
<1>4. hosted[w] \subseteq hosted'[w]
  BY DEF ClaimRun, TypeOK
<1>5. (pc'[w] \in {"metered", "prepare"} /\ mine'[w] = now) \/ pc'[w] = "idle"
  BY <1>1 DEF ClaimRun, TypeOK
<1>6. /\ \A s \in Slot : s # now => runs'[s] = runs[s]
      /\ runs'[now].status = "running"
      /\ \A s \in Slot : /\ runs'[s].attempted = runs[s].attempted
                         /\ runs'[s].processed = runs[s].processed
                         /\ runs'[s].failures = runs[s].failures
  BY <1>1 DEF ClaimRun, TypeOK
<1> QED BY <1>1, <1>2, <1>3, <1>4, <1>5, <1>6

LEMMA TimeOutEffect ==
  ASSUME TypeOK, NEW w \in Worker, TimeOut(w)
  PROVE  /\ pc[w] = "handling" /\ pc'[w] = "finish" /\ fin'[w] = "indeterminate" /\ status'[w] = "indeterminate"
         /\ UNCHANGED <<now, dbVars, committed, mine, hosted, job, attempt, live>>
         /\ \A v \in Worker : v # w => SameProcess(v)
BY DEF TimeOut, SameProcess, TypeOK

LEMMA GoneEffect ==
  ASSUME TypeOK, NEW w \in Worker, Gone(w)
  PROVE  /\ pc'[w] = "down" /\ live'[w] = {}
         /\ UNCHANGED <<now, dbVars, committed>>
         /\ \A v \in Worker : v # w => SameProcess(v)
BY DEF Gone, LeaveIteration, SameProcess, TypeOK

\* A handler of j settles: its execution ends, and its row may be written.
Settles(w, j) ==
  /\ UNCHANGED <<now, runs, claim, availableAt, mine, hosted, job, attempt, status>>
  /\ live'[w] = live[w] \ {j}
  /\ \A v \in Worker : v # w => SameProcess(v)
  /\ \A k \in Job : k # j => outbox'[k] = outbox[k] /\ committed'[k] = committed[k]
  /\ outbox'[j] \in {outbox[j], "processed"} \/ (j \in WorkJob /\ outbox'[j] = "failed")
  /\ committed'[j] \in {committed[j], TRUE}

LEMMA HandlerEffectRows ==
  ASSUME TypeOK, NEW j \in Job, NEW o \in Outcome, HandlerEffect(j, o)
  PROVE  /\ \A k \in Job : k # j => outbox'[k] = outbox[k] /\ committed'[k] = committed[k]
         /\ outbox'[j] \in {outbox[j], "processed"} \/ (j \in WorkJob /\ outbox'[j] = "failed")
         /\ committed'[j] \in {committed[j], TRUE}
<1>1. /\ \A k \in Job : k # j => outbox'[k] = outbox[k] /\ committed'[k] = committed[k]
      /\ outbox'[j] \in {outbox[j], "processed"} \/ (j \in WorkJob /\ outbox'[j] = "failed")
  BY DEF HandlerEffect, TypeOK
<1>2. committed'[j] \in {committed[j], TRUE}
  <2>1. committed'[j] = (committed[j] \/ o \in {"done", "ackLost", "half"})
    BY DEF HandlerEffect, TypeOK
  <2>2. committed[j] \in BOOLEAN
    BY DEF TypeOK
  <2> QED BY <2>1, <2>2
<1> QED BY <1>1, <1>2

LEMMA HandlerSettlesEffect ==
  ASSUME TypeOK, CommitInv, NEW w \in Worker, NEW o \in Outcome, HandlerSettles(w, o)
  PROVE  /\ pc[w] = "handling" /\ pc'[w] = "finish" /\ job[w] \in Job
         /\ Settles(w, job[w])
         /\ fin'[w] = (IF o = "done" THEN "processed" ELSE CaughtState(w, o \in {"permanent", "unmarked"}))
         /\ inTry'[w] = (o = "done")
<1>1. job[w] \in Job /\ pc[w] = "handling"
  BY DEF HandlerSettles, CommitInv, WorksOnAJob
<1>2. Settles(w, job[w])
  <2>1. /\ UNCHANGED <<now, runs, claim, availableAt, mine, hosted, job, attempt, status>>
        /\ live'[w] = live[w] \ {job[w]}
        /\ \A v \in Worker : v # w => SameProcess(v)
    BY DEF HandlerSettles, SameProcess, TypeOK
  <2>2. HandlerEffect(job[w], o)
    BY DEF HandlerSettles
  <2> QED BY <1>1, <2>1, <2>2, HandlerEffectRows DEF Settles
<1>3. /\ pc'[w] = "finish" /\ inTry'[w] = (o = "done")
      /\ fin'[w] = (IF o = "done" THEN "processed" ELSE CaughtState(w, o \in {"permanent", "unmarked"}))
  BY DEF HandlerSettles, TypeOK
<1> QED BY <1>1, <1>2, <1>3

LEMMA LateSettleEffect ==
  ASSUME TypeOK, NEW w \in Worker, NEW j \in Job, NEW o \in Outcome, LateSettle(w, j, o)
  PROVE  /\ j \in live[w] /\ ~(pc[w] = "handling" /\ job[w] = j)
         /\ UNCHANGED <<pc, fin, inTry>>
         /\ Settles(w, j)
<1>1. /\ j \in live[w] /\ ~(pc[w] = "handling" /\ job[w] = j)
      /\ UNCHANGED <<now, runs, claim, availableAt, mine, hosted, job, attempt, status, pc, fin, inTry>>
      /\ live'[w] = live[w] \ {j}
      /\ \A v \in Worker : v # w => SameProcess(v)
      /\ HandlerEffect(j, o)
  BY DEF LateSettle, localVars, SameProcess, TypeOK
<1> QED BY <1>1, HandlerEffectRows DEF Settles

-----------------------------------------------------------------------------
(* The claim that is running.                                                  *)

LEMMA BatchesApart == ASSUME TypeOK, BatchInv PROVE SingleBatch
BY DEF SingleBatch, BatchInv, HoldsItsRun, OneOpenRun, AdmittedOnce, Open, TypeOK

\* In the pointwise shape the step lemmas have.
LEMMA RunningFrame ==
  ASSUME RunningInv,
         \A j \in Job : /\ claim'[j].run = claim[j].run
                        /\ claim'[j].state = "running" => claim[j].state = "running",
         \A w \in Worker : InBatch(w)' /\ pc'[w] # "close" =>
           /\ InBatch(w) /\ pc[w] # "close" /\ mine'[w] = mine[w]
           /\ Busy(w) => (Busy(w)' /\ job'[w] = job[w])
  PROVE  RunningInv'
<1>1. KnowsItsClaim'
  BY DEF RunningInv, KnowsItsClaim
<1>2. OneRunning'
  BY DEF RunningInv, OneRunning
<1> QED BY <1>1, <1>2 DEF RunningInv

LEMMA RunningClaimJob ==
  ASSUME TypeOK, BatchInv, ClaimInv, RunningInv, NEW w \in Worker, NEW j \in Job, ClaimJob(w, j)
  PROVE  RunningInv'
<1>1. \A i \in Job : claim[i].state # "running"
  <2> SUFFICES ASSUME NEW i \in Job, claim[i].state = "running" PROVE FALSE
    OBVIOUS
  <2>1. Open(claim[i].run) /\ claim[i].run \in Slot
    BY DEF ClaimInv, RunningClaimHasOpenRun, ClaimHasRun
  <2>2. claim[i].run = mine[w]
    BY <2>1, ClaimJobEffect DEF BatchInv, OneOpenRun
  <2>3. InBatch(w) /\ pc[w] = "loop"
    BY ClaimJobEffect DEF InBatch, Control
  <2> QED BY <2>2, <2>3 DEF RunningInv, KnowsItsClaim, Busy
<1>2. \A i \in Job : claim'[i].state = "running" => i = j
  BY <1>1, ClaimJobEffect
<1>3. KnowsItsClaim'
  <2> SUFFICES ASSUME NEW v \in Worker, InBatch(v)', pc'[v] # "close",
                      claim'[j].run = mine'[v]
               PROVE  Busy(v)' /\ job'[v] = j
    BY <1>2 DEF KnowsItsClaim
  <2>1. CASE v = w
    BY <2>1, ClaimJobEffect DEF Begins, Rejects, Leaves, Busy
  <2>2. CASE v # w
    <3>1. InBatch(v) /\ InBatch(w)
      BY <2>2, ClaimJobEffect DEF InBatch, SameProcess, Control
    <3> QED BY <2>2, <3>1, BatchesApart DEF SingleBatch
  <2> QED BY <2>1, <2>2
<1>4. OneRunning'
  BY <1>2 DEF OneRunning
<1> QED BY <1>3, <1>4 DEF RunningInv

LEMMA RunningFinishJob ==
  ASSUME TypeOK, BatchInv, CommitInv, AttemptInv, RunningInv, NEW w \in Worker, FinishJob(w)
  PROVE  RunningInv'
<1>1. /\ pc[w] = "finish" /\ job[w] \in Job /\ InBatch(w) /\ Busy(w)
      /\ \A v \in Worker : v # w => SameProcess(v)
      /\ UNCHANGED mine
  BY FinishJobEffect DEF InBatch, Busy, Control
<1>2. \A j \in Job : /\ claim'[j].run = claim[j].run
                     /\ claim'[j].state = "running" => claim[j].state = "running"
                     /\ j = job[w] /\ Recording(w) => claim'[j].state # "running"
  <2>1. CASE Recording(w)
    BY <1>1, <2>1 DEF Recording, ClaimFound, TypeOK, FinState
  <2>2. CASE UNCHANGED dbVars /\ ~Recording(w)
    BY <2>2 DEF dbVars
  <2> QED BY <2>1, <2>2, FinishJobEffect
<1>3. \A i, j \in Job : claim'[i].state = "running" /\ claim'[j].state = "running" => i = j
  BY <1>2 DEF RunningInv, OneRunning
<1>4. KnowsItsClaim'
  <2> SUFFICES ASSUME NEW v \in Worker, InBatch(v)', pc'[v] # "close",
                      NEW j \in Job, claim'[j].state = "running", claim'[j].run = mine'[v]
               PROVE  Busy(v)' /\ job'[v] = j
    BY DEF KnowsItsClaim
  <2>1. CASE v # w
    BY <1>1, <1>2, <2>1 DEF RunningInv, KnowsItsClaim, SameProcess, InBatch, Busy
  <2>2. CASE v = w
    <3>1. job[w] = j
      BY <1>1, <1>2, <2>2 DEF RunningInv, KnowsItsClaim
    <3>2. ~Recording(w)
      BY <1>2, <3>1
    <3> QED BY <2>2, <3>1, <3>2, FinishJobEffect DEF TriesAgain, Leaves, Busy
  <2> QED BY <2>1, <2>2
<1> QED BY <1>3, <1>4 DEF RunningInv, OneRunning

LEMMA RunningClaimRun ==
  ASSUME TypeOK, BatchInv, ClaimInv, RunningInv, NEW w \in Worker, ClaimRun(w)
  PROVE  RunningInv'
<1>1. \A j \in Job : claim'[j].state # "running"
  BY ClaimRunEffect DEF ClaimInv, RunningClaimHasOpenRun, ClaimHasRun
<1> QED BY <1>1 DEF RunningInv, KnowsItsClaim, OneRunning

LEMMA NextRunning ==
  ASSUME TypeOK, BatchInv, ClaimInv, CommitInv, AttemptInv, RunningInv, [Next]_vars
  PROVE  RunningInv'
<1>1. CASE Quiet
  BY <1>1, RunningFrame DEF Quiet, Moves, Waiting, InBatch, Busy, Control
<1>2. ASSUME NEW s \in Slot, OwnerClose(s) PROVE RunningInv'
  BY <1>2, OwnerCloseEffect, RunningFrame DEF SameProcess, InBatch, Busy
<1>3. ASSUME NEW w \in Worker, TimeOut(w) PROVE RunningInv'
  BY <1>3, TimeOutEffect, RunningFrame DEF SameProcess, InBatch, Busy, Control, dbVars
<1>4. ASSUME NEW w \in Worker, CloseRun(w) PROVE RunningInv'
  BY <1>4, CloseRunEffect, RunningFrame DEF SameProcess, InBatch, Busy, Control
<1>5. ASSUME NEW w \in Worker, Gone(w) PROVE RunningInv'
  BY <1>5, GoneEffect, RunningFrame DEF SameProcess, InBatch, Busy, Control, dbVars
<1>6. ASSUME NEW w \in Worker, NEW o \in Outcome, HandlerSettles(w, o) PROVE RunningInv'
  BY <1>6, HandlerSettlesEffect, RunningFrame DEF Settles, SameProcess, InBatch, Busy, Control
<1>7. ASSUME NEW w \in Worker, NEW o \in Outcome, NEW j \in Job, LateSettle(w, j, o) PROVE RunningInv'
  BY <1>7, LateSettleEffect, RunningFrame DEF Settles, SameProcess, InBatch, Busy, Control
<1> QED BY <1>1, <1>2, <1>3, <1>4, <1>5, <1>6, <1>7, StepCases, RunningClaimJob, RunningFinishJob,
           RunningClaimRun

-----------------------------------------------------------------------------
(* Attempts.                                                                   *)

LEMMA AttemptFrame ==
  ASSUME AttemptInv, UNCHANGED claim,
         \A w \in Worker : Busy(w)' =>
           /\ pc'[w] = pc[w] /\ mine'[w] = mine[w] /\ job'[w] = job[w] /\ attempt'[w] = attempt[w]
           /\ fin'[w] = fin[w] /\ inTry'[w] = inTry[w] /\ status'[w] = status[w]
  PROVE  AttemptInv'
<1>1. AttemptsCounted'
  BY DEF AttemptInv, AttemptsCounted
<1>2. OwnsWhatItWorksOn'
  BY DEF AttemptInv, OwnsWhatItWorksOn, Busy
<1>3. FinishChoice'
  BY DEF AttemptInv, FinishChoice, Busy
<1> QED BY <1>1, <1>2, <1>3 DEF AttemptInv

LEMMA AttemptClaimJob ==
  ASSUME TypeOK, BatchInv, AttemptInv, NEW w \in Worker, NEW j \in Job, ClaimJob(w, j)
  PROVE  AttemptInv'
<1>1. claim[j].state \in {"none", "retry"} /\ claim[j].attempt \in Nat /\ claim[j].attempt < MaxAttempts
  <2>1. claim[j].state \in {"none", "retry"} /\ claim[j].attempt \in Nat
    BY ClaimJobEffect DEF Due, TypeOK
  <2> QED BY <2>1, BoundAssumption DEF AttemptInv, AttemptsCounted
<1>2. AttemptsCounted'
  <2> SUFFICES ASSUME NEW k \in Job
               PROVE  /\ claim'[k].state = "none" <=> claim'[k].attempt = 0
                      /\ claim'[k].state = "none" => claim'[k].run = NoRun
                      /\ claim'[k].attempt =< MaxAttempts
                      /\ claim'[k].state = "retry" => claim'[k].attempt < MaxAttempts
    BY DEF AttemptsCounted
  <2>1. CASE k = j
    BY <1>1, <2>1, ClaimJobEffect, BoundAssumption
  <2>2. CASE k # j
    BY <2>2, ClaimJobEffect DEF AttemptInv, AttemptsCounted
  <2> QED BY <2>1, <2>2
<1>3. \A v \in Worker : Busy(v)' => v = w
  <2> SUFFICES ASSUME NEW v \in Worker, Busy(v)', v # w PROVE FALSE
    OBVIOUS
  <2>1. InBatch(v) /\ InBatch(w)
    BY ClaimJobEffect DEF SameProcess, Busy, InBatch, Control
  <2> QED BY <2>1, BatchesApart DEF SingleBatch
<1>4. OwnsWhatItWorksOn'
  BY <1>3, ClaimJobEffect DEF OwnsWhatItWorksOn, Begins, Rejects, Leaves, Busy
<1>5. FinishChoice'
  BY <1>3, ClaimJobEffect DEF FinishChoice, Begins, Rejects, Leaves, Busy
<1> QED BY <1>2, <1>4, <1>5 DEF AttemptInv

LEMMA AttemptFinishJob ==
  ASSUME TypeOK, BatchInv, CommitInv, AttemptInv, NEW w \in Worker, FinishJob(w)
  PROVE  AttemptInv'
<1>1. /\ pc[w] = "finish" /\ job[w] \in Job /\ InBatch(w) /\ Busy(w) /\ UNCHANGED mine
      /\ fin[w] \in {"processed", "retry", "failed", "indeterminate"}
  BY FinishJobEffect DEF InBatch, Busy, Control, TypeOK, FinState
<1>2. /\ claim[job[w]].run = mine[w]
      /\ claim[job[w]].attempt = attempt[w]
      /\ claim[job[w]].state \in {"running", "processed", "indeterminate"}
      /\ fin[w] = "retry" => attempt[w] < MaxAttempts
      /\ inTry[w] => fin[w] \in {"processed", "indeterminate"}
  BY <1>1 DEF AttemptInv, OwnsWhatItWorksOn, FinishChoice
<1>3. \A k \in Job : /\ claim'[k].run = claim[k].run /\ claim'[k].attempt = claim[k].attempt
                     /\ claim'[k].state # claim[k].state =>
                          k = job[w] /\ claim[k].state = "running" /\ claim'[k].state = fin[w]
  <2>1. CASE Recording(w)
    BY <1>2, <2>1 DEF Recording, ClaimFound
  <2>2. CASE UNCHANGED dbVars
    BY <2>2 DEF dbVars
  <2> QED BY <2>1, <2>2, FinishJobEffect
<1>4. AttemptsCounted'
  BY <1>1, <1>2, <1>3 DEF AttemptInv, AttemptsCounted
<1>5. \A v \in Worker : Busy(v)' => v = w
  <2> SUFFICES ASSUME NEW v \in Worker, Busy(v)', v # w PROVE FALSE
    OBVIOUS
  <2>1. InBatch(v)
    BY FinishJobEffect DEF SameProcess, Busy, InBatch, Control
  <2> QED BY <1>1, <2>1, BatchesApart DEF SingleBatch
<1>6. Busy(w)' => TriesAgain(w)
  BY FinishJobEffect DEF Returns, Leaves, Busy
<1>7. OwnsWhatItWorksOn'
  BY <1>1, <1>2, <1>3, <1>5, <1>6 DEF OwnsWhatItWorksOn, TriesAgain
<1>8. FinishChoice'
  BY <1>1, <1>2, <1>5, <1>6, BoundAssumption DEF FinishChoice, TriesAgain, CaughtState, Busy, TypeOK
<1> QED BY <1>4, <1>7, <1>8 DEF AttemptInv

LEMMA AttemptOwnerClose ==
  ASSUME TypeOK, BatchInv, CommitInv, AttemptInv, NEW s \in Slot, OwnerClose(s)
  PROVE  AttemptInv'
<1>1. AttemptsCounted'
  BY OwnerCloseEffect DEF AttemptInv, AttemptsCounted
<1>2. \A w \in Worker : Busy(w) => mine[w] # s
  BY OwnerCloseEffect, InBatchHolds DEF Busy, InBatch, Control
<1>3. OwnsWhatItWorksOn'
  <2> SUFFICES ASSUME NEW w \in Worker, Busy(w)'
               PROVE  /\ claim'[job'[w]].run = mine'[w]
                      /\ claim'[job'[w]].state \in {"running", "processed", "indeterminate"}
                      /\ claim'[job'[w]].attempt = attempt'[w]
                      /\ pc'[w] = "handling" => claim'[job'[w]].state = "running"
    BY DEF OwnsWhatItWorksOn
  <2>1. Busy(w) /\ SameProcess(w)
    BY OwnerCloseEffect DEF SameProcess, Busy
  <2>2. claim[job[w]].run # s /\ claim[job[w]].run = mine[w]
    BY <1>2, <2>1 DEF AttemptInv, OwnsWhatItWorksOn
  <2>3. claim'[job[w]] = claim[job[w]]
    BY <2>1, <2>2 DEF OwnerClose, TypeOK, CommitInv, WorksOnAJob, Busy
  <2> QED BY <2>1, <2>3 DEF AttemptInv, OwnsWhatItWorksOn, SameProcess
<1>4. FinishChoice'
  BY OwnerCloseEffect DEF AttemptInv, FinishChoice, SameProcess
<1> QED BY <1>1, <1>3, <1>4 DEF AttemptInv

LEMMA AttemptHandler ==
  ASSUME TypeOK, CommitInv, AttemptInv, NEW w \in Worker, NEW o \in Outcome, HandlerSettles(w, o)
  PROVE  AttemptInv'
<1>1. UNCHANGED claim /\ \A v \in Worker : v # w => SameProcess(v)
  BY HandlerSettlesEffect DEF Settles
<1>2. AttemptsCounted'
  BY <1>1 DEF AttemptInv, AttemptsCounted
<1>3. /\ pc[w] = "handling" /\ pc'[w] = "finish" /\ job[w] \in Job
      /\ mine'[w] = mine[w] /\ job'[w] = job[w] /\ attempt'[w] = attempt[w] /\ attempt[w] \in Nat
  BY HandlerSettlesEffect DEF Settles, TypeOK
<1>4. OwnsWhatItWorksOn'
  BY <1>1, <1>3 DEF AttemptInv, OwnsWhatItWorksOn, Busy, SameProcess
<1>5. /\ fin'[w] = "retry" => attempt[w] < MaxAttempts
      /\ inTry'[w] => fin'[w] = "processed"
      /\ fin'[w] # "indeterminate"
  <2>1. CASE o = "done"
    BY <2>1, HandlerSettlesEffect
  <2>2. CASE o # "done"
    <3>1. ~inTry'[w] /\ fin'[w] = CaughtState(w, o \in {"permanent", "unmarked"})
      BY <2>2, HandlerSettlesEffect
    <3>2. CASE attempt[w] >= MaxAttempts \/ o \in {"permanent", "unmarked"}
      BY <3>1, <3>2 DEF CaughtState
    <3>3. CASE ~(attempt[w] >= MaxAttempts \/ o \in {"permanent", "unmarked"})
      <4>1. fin'[w] = "retry"
        BY <3>1, <3>3 DEF CaughtState
      <4> QED BY <1>3, <3>1, <3>3, <4>1, BoundAssumption
    <3> QED BY <3>2, <3>3
  <2> QED BY <2>1, <2>2
<1>6. FinishChoice'
  BY <1>1, <1>3, <1>5 DEF AttemptInv, FinishChoice, SameProcess
<1> QED BY <1>2, <1>4, <1>6 DEF AttemptInv

LEMMA AttemptTimeOut ==
  ASSUME TypeOK, AttemptInv, NEW w \in Worker, TimeOut(w)
  PROVE  AttemptInv'
<1>1. AttemptsCounted'
  BY DEF TimeOut, dbVars, AttemptInv, AttemptsCounted
<1>2. OwnsWhatItWorksOn'
  BY TimeOutEffect DEF AttemptInv, OwnsWhatItWorksOn, Busy, SameProcess, dbVars
<1>3. FinishChoice'
  BY TimeOutEffect DEF AttemptInv, FinishChoice, SameProcess
<1> QED BY <1>1, <1>2, <1>3 DEF AttemptInv

LEMMA NextAttempt ==
  ASSUME TypeOK, BatchInv, CommitInv, AttemptInv, [Next]_vars
  PROVE  AttemptInv'
<1>1. CASE Quiet
  BY <1>1, AttemptFrame DEF Quiet, Moves, Busy
<1>2. ASSUME NEW w \in Worker, ClaimRun(w) PROVE AttemptInv'
  BY <1>2, ClaimRunEffect, AttemptFrame DEF SameProcess, Busy
<1>3. ASSUME NEW w \in Worker, CloseRun(w) PROVE AttemptInv'
  BY <1>3, CloseRunEffect, AttemptFrame DEF SameProcess, Busy
<1>4. ASSUME NEW w \in Worker, Gone(w) PROVE AttemptInv'
  BY <1>4, GoneEffect, AttemptFrame DEF SameProcess, Busy, dbVars
<1>5. ASSUME NEW w \in Worker, NEW o \in Outcome, NEW j \in Job, LateSettle(w, j, o) PROVE AttemptInv'
  BY <1>5, LateSettleEffect, AttemptFrame DEF Settles, SameProcess, Busy
<1> QED BY <1>1, <1>2, <1>3, <1>4, <1>5, StepCases, AttemptClaimJob, AttemptFinishJob, AttemptOwnerClose,
           AttemptHandler, AttemptTimeOut

-----------------------------------------------------------------------------
(* Executions that nobody waits for.                                           *)

LEMMA TickType == ASSUME TypeOK PROVE now \in Int /\ \A j \in Job : availableAt[j] \in Int
<1>1. now \in 0..Horizon /\ availableAt \in [Job -> Nat]
  BY DEF TypeOK
<1> QED BY <1>1

LEMMA SlotInt == \A s \in Slot : s \in Int
BY DEF Slot

LEMMA LiveFrame ==
  ASSUME LiveInv,
         \A w \in Worker : \A j \in live'[w] :
           /\ j \in live[w] /\ j \in Job
           /\ claim'[j].run = claim[j].run /\ claim'[j].state \in {claim[j].state, "indeterminate"}
           /\ claim[j].run \in hosted[w] => claim'[j].run \in hosted'[w]
           /\ claim[j].run \in hosted[w] /\ Open(claim[j].run) => Open(claim[j].run)'
           /\ outbox[j] = "pending" => outbox'[j] = "pending" /\ availableAt'[j] = availableAt[j]
           /\ InBatch(w)' /\ mine'[w] = claim[j].run /\ status'[w] = "completed" =>
                /\ InBatch(w) /\ mine[w] = claim[j].run /\ status[w] = "completed"
                /\ pc[w] = "handling" /\ job[w] = j => pc'[w] = "handling" /\ job'[w] = j
  PROVE  LiveInv'
<1>1. LiveBelongs'
  BY DEF LiveInv, LiveBelongs
<1>2. LiveWaits'
  BY DEF LiveInv, LiveWaits, Deadline
<1>3. LiveReviewed'
  BY DEF LiveInv, LiveReviewed
<1> QED BY <1>1, <1>2, <1>3 DEF LiveInv

(* A retried row is not due before the deadline of its run, so no claim of it  *)
(* is made beside an execution.                                                *)
LEMMA ClaimedIsNotLive ==
  ASSUME TypeOK, BatchInv, ClaimInv, AttemptInv, LiveInv,
         NEW w \in Worker, NEW j \in Job, ClaimJob(w, j), NEW v \in Worker
  PROVE  j \notin live[v]
<1> SUFFICES ASSUME j \in live[v] PROVE FALSE
  OBVIOUS
<1>1. claim[j].run \in hosted[v] /\ Open(claim[j].run) /\ claim[j].run \in Slot
  BY DEF LiveInv, LiveBelongs, TypeOK
<1>2. claim[j].run = mine[w]
  BY <1>1, ClaimJobEffect DEF BatchInv, OneOpenRun
<1>3. claim[j].state = "retry"
  BY <1>1, SlotType, ClaimJobEffect DEF Due, AttemptInv, AttemptsCounted
<1>4. availableAt[j] >= Deadline(mine[w]) /\ availableAt[j] =< now /\ now < Deadline(mine[w])
  BY <1>2, <1>3, ClaimJobEffect DEF LiveInv, LiveWaits, Due
<1>5. availableAt[j] \in Int /\ now \in Int /\ Deadline(mine[w]) \in Int
  <2>1. mine[w] \in Int
    BY ClaimJobEffect, SlotInt
  <2>2. availableAt[j] \in Int /\ now \in Int
    BY TickType
  <2> QED BY <2>1, <2>2, BoundAssumption DEF Deadline
<1> QED BY <1>4, <1>5

LEMMA LiveClaimJob ==
  ASSUME TypeOK, BatchInv, ClaimInv, AttemptInv, LiveInv, NEW w \in Worker, NEW j \in Job, ClaimJob(w, j)
  PROVE  LiveInv'
<1>1. \A v \in Worker : j \notin live[v]
  BY ClaimedIsNotLive
<1>2. \A v \in Worker : \A k \in live'[v] :
        \/ k \in live[v] /\ k # j /\ k \in Job /\ claim'[k] = claim[k]
        \/ v = w /\ k = j /\ Begins(w, j)
  BY <1>1, ClaimJobEffect DEF SameProcess, Begins, Rejects, Leaves, TypeOK
<1>3. \A s \in Slot : Open(s) => Open(s)'
  BY ClaimJobEffect DEF Open
<1>4. LiveBelongs'
  <2> SUFFICES ASSUME NEW v \in Worker, NEW k \in live'[v]
               PROVE  claim'[k].run \in hosted'[v] /\ Open(claim[k].run)'
    BY DEF LiveBelongs
  <2>1. CASE v = w /\ k = j
    BY <1>3, <2>1, ClaimJobEffect DEF Open
  <2>2. CASE k \in live[v] /\ k \in Job /\ claim'[k] = claim[k]
    <3>1. claim[k].run \in hosted[v] /\ Open(claim[k].run) /\ claim[k].run \in Slot
      BY <2>2 DEF LiveInv, LiveBelongs, TypeOK
    <3> QED BY <1>3, <2>2, <3>1, ClaimJobEffect DEF Open
  <2> QED BY <1>2, <2>1, <2>2
<1>5. LiveWaits'
  BY <1>2, ClaimJobEffect DEF LiveInv, LiveWaits, Due, Deadline
<1>6. LiveReviewed'
  <2> SUFFICES ASSUME NEW v \in Worker, NEW k \in live'[v],
                      InBatch(v)', mine'[v] = claim'[k].run, status'[v] = "completed"
               PROVE  pc'[v] = "handling" /\ job'[v] = k
    BY DEF LiveReviewed
  <2>1. CASE v = w /\ k = j /\ Begins(w, j)
    BY <2>1 DEF Begins
  <2>2. CASE k \in live[v] /\ k # j /\ k \in Job /\ claim'[k] = claim[k]
    <3>1. CASE v # w
      BY <2>2, <3>1, ClaimJobEffect DEF LiveInv, LiveReviewed, SameProcess, InBatch
    <3>2. CASE v = w
      <4>1. InBatch(w) /\ status[w] = "completed" /\ mine[w] = claim[k].run /\ pc[w] = "loop"
        BY <2>2, <3>2, ClaimJobEffect DEF Begins, Rejects, Leaves, InBatch, Control
      <4> QED BY <2>2, <3>2, <4>1 DEF LiveInv, LiveReviewed
    <3> QED BY <3>1, <3>2
  <2> QED BY <1>2, <2>1, <2>2
<1> QED BY <1>4, <1>5, <1>6 DEF LiveInv

LEMMA LiveFinishJob ==
  ASSUME TypeOK, BatchInv, CommitInv, AttemptInv, RunStarted, LiveInv, NEW w \in Worker, FinishJob(w)
  PROVE  LiveInv'
<1>1. \A j \in Job : claim'[j].run = claim[j].run
  BY FinishJobEffect DEF Recording, ClaimFound, dbVars
<1>2. LiveBelongs'
  <2>1. \A s \in Slot : Open(s) => Open(s)'
    BY FinishJobEffect DEF Recording, dbVars, Open
  <2> QED BY <1>1, <2>1, FinishJobEffect DEF LiveInv, LiveBelongs, TypeOK
<1>3. LiveWaits'
  <2> SUFFICES ASSUME NEW v \in Worker, NEW k \in live[v]
               PROVE  /\ claim'[k].state \in {"running", "retry"} => outbox'[k] = "pending"
                      /\ claim'[k].state = "retry" => availableAt'[k] >= Deadline(claim'[k].run)
    BY FinishJobEffect DEF LiveWaits
  <2>1. k \in Job
    BY DEF TypeOK
  <2>2. CASE UNCHANGED dbVars \/ k # job[w]
    BY <2>1, <2>2, FinishJobEffect DEF LiveInv, LiveWaits, Recording, dbVars, Deadline
  <2>3. CASE Recording(w) /\ k = job[w]
    <3>1. outbox[k] = "pending"
      BY <2>3 DEF LiveInv, LiveWaits, Recording, ClaimFound
    <3>2. outbox'[k] = Settled(k, fin[w]) /\ claim'[k].state = fin[w] /\ claim'[k].run = mine[w]
      BY <2>3, <3>1 DEF Recording
    <3>3. CASE fin[w] # "retry"
      BY <3>2, <3>3, FinishJobEffect DEF TypeOK, FinState
    <3>4. CASE fin[w] = "retry"
      <4>1. outbox'[k] = "pending" /\ availableAt'[k] = now + RetryDelay
        BY <2>3, <3>1, <3>2, <3>4 DEF Recording, Settled
      <4>2. mine[w] =< now
        BY <2>1, <2>3, FinishJobEffect DEF Recording, ClaimFound, RunStarted
      <4>3. now + RetryDelay >= mine[w] + RunWindow
        <5>1. now \in Int /\ mine[w] \in Int
          BY FinishJobEffect, SlotInt, TickType
        <5> QED BY <4>2, <5>1, BoundAssumption, RetryAssumption
      <4> QED BY <3>2, <4>1, <4>3 DEF Deadline
    <3> QED BY <3>3, <3>4
  <2> QED BY <2>2, <2>3, FinishJobEffect
<1>4. LiveReviewed'
  <2> SUFFICES ASSUME NEW v \in Worker, NEW k \in live[v],
                      InBatch(v)', mine[v] = claim'[k].run, status'[v] = "completed"
               PROVE  pc'[v] = "handling" /\ job'[v] = k
    BY FinishJobEffect DEF LiveReviewed
  <2>1. k \in Job
    BY DEF TypeOK
  <2>2. CASE v # w
    BY <1>1, <2>1, <2>2, FinishJobEffect DEF LiveInv, LiveReviewed, SameProcess, InBatch
  <2>3. CASE v = w
    <3>1. InBatch(w) /\ status[w] = "completed" /\ mine[w] = claim[k].run /\ pc[w] = "finish"
      BY <1>1, <2>1, <2>3, FinishJobEffect DEF Returns, TriesAgain, Leaves, InBatch, Control
    <3> QED BY <2>3, <3>1 DEF LiveInv, LiveReviewed
  <2> QED BY <2>2, <2>3
<1> QED BY <1>2, <1>3, <1>4 DEF LiveInv

LEMMA LiveSettles ==
  ASSUME TypeOK, BatchInv, LiveInv, NEW w \in Worker, NEW j \in Job, Settles(w, j),
         claim[j].run \in hosted[w],
         pc'[w] = pc[w] \/ (pc[w] = "handling" /\ pc'[w] = "finish" /\ job[w] = j)
  PROVE  LiveInv'
<1>1. \A v \in Worker : \A k \in live'[v] : k \in live[v] /\ k \in Job /\ k # j
  <2>1. \A v \in Worker : \A k \in live'[v] : k \in live[v] /\ k \in Job /\ (v = w => k # j)
    BY DEF Settles, SameProcess, TypeOK
  <2>2. \A v \in Worker : j \in live[v] => v = w
    BY DEF LiveInv, LiveBelongs, BatchInv, AdmittedOnce, TypeOK
  <2> QED BY <2>1, <2>2
<1>2. UNCHANGED <<claim, runs, hosted, mine, job, status, availableAt>>
  BY DEF Settles
<1>3. \A v \in Worker : pc'[v] = pc[v] \/ (v = w /\ pc[v] = "handling" /\ pc'[v] = "finish" /\ job[v] = j)
  BY DEF Settles, SameProcess
<1>4. \A k \in Job : k # j => outbox'[k] = outbox[k]
  BY DEF Settles
<1> QED BY <1>1, <1>2, <1>3, <1>4, LiveFrame DEF Open, InBatch, Control

LEMMA LiveCloseRun ==
  ASSUME TypeOK, BatchInv, LiveInv, NEW w \in Worker, CloseRun(w)
  PROVE  LiveInv'
<1>1. \A v \in Worker : \A j \in live[v] :
        claim[j].run \in hosted[v] /\ Open(claim[j].run) => Open(claim[j].run)'
  <2> SUFFICES ASSUME NEW v \in Worker, NEW j \in live[v], claim[j].run \in hosted[v], Open(claim[j].run)
               PROVE  Open(claim[j].run)'
    BY CloseRunEffect DEF Open
  <2>1. claim[j].run \in Slot
    BY DEF TypeOK
  <2>2. CASE claim[j].run # mine[w]
    BY <2>1, <2>2, CloseRunEffect DEF Open
  <2>3. CASE claim[j].run = mine[w]
    <3>1. v = w
      BY <2>1, <2>3, CloseRunEffect DEF BatchInv, AdmittedOnce
    <3>2. InBatch(w) /\ pc[w] = "close"
      BY CloseRunEffect DEF InBatch, Control
    <3>3. status[w] = "indeterminate"
      BY <2>3, <3>1, <3>2 DEF LiveInv, LiveReviewed, TypeOK
    <3> QED BY <2>3, <3>3, CloseRunEffect DEF Open
  <2> QED BY <2>2, <2>3
<1>2. \A v \in Worker : InBatch(v)' => v # w /\ SameProcess(v)
  BY CloseRunEffect DEF InBatch
<1>3. UNCHANGED <<claim, outbox, availableAt, hosted, live>>
  BY CloseRunEffect
<1>4. \A v \in Worker : live[v] \subseteq Job
  BY DEF TypeOK
<1> QED BY <1>1, <1>2, <1>3, <1>4, LiveFrame DEF Open, InBatch, SameProcess

LEMMA NextLive ==
  ASSUME TypeOK, BatchInv, ClaimInv, CommitInv, AttemptInv, RunStarted, LiveInv, [Next]_vars
  PROVE  LiveInv'
<1>0. \A v \in Worker : live[v] \subseteq Job
  BY DEF TypeOK
<1>1. CASE Quiet
  BY <1>0, <1>1, LiveFrame DEF Quiet, Moves, RowMoves, Waiting, InBatch, Control, Open
<1>2. ASSUME NEW s \in Slot, OwnerClose(s) PROVE LiveInv'
  <2>1. \A v \in Worker : \A j \in live[v] : claim[j].run \in hosted[v] => claim[j].run # s /\ claim[j].run \in Slot
    BY <1>2, OwnerCloseEffect DEF TypeOK
  <2> QED BY <1>0, <1>2, <2>1, OwnerCloseEffect, LiveFrame DEF SameProcess, InBatch, Open
<1>3. ASSUME NEW w \in Worker, TimeOut(w) PROVE LiveInv'
  BY <1>0, <1>3, TimeOutEffect, LiveFrame DEF SameProcess, InBatch, Open, dbVars
<1>4. ASSUME NEW w \in Worker, Gone(w) PROVE LiveInv'
  BY <1>0, <1>4, GoneEffect, LiveFrame DEF SameProcess, InBatch, Open, dbVars
<1>5. ASSUME NEW w \in Worker, ClaimRun(w) PROVE LiveInv'
  <2>1. \A v \in Worker : live[v] = {}
    BY <1>5, ClaimRunEffect DEF LiveInv, LiveBelongs, TypeOK
  <2> QED BY <1>5, <2>1, ClaimRunEffect DEF LiveInv, LiveBelongs, LiveWaits, LiveReviewed
<1>6. ASSUME NEW w \in Worker, NEW o \in Outcome, HandlerSettles(w, o) PROVE LiveInv'
  <2>1. Settles(w, job[w]) /\ job[w] \in Job /\ pc[w] = "handling" /\ pc'[w] = "finish"
    BY <1>6, HandlerSettlesEffect
  <2>2. claim[job[w]].run \in hosted[w]
    BY <2>1, InBatchHolds DEF AttemptInv, OwnsWhatItWorksOn, Busy, InBatch, Control
  <2> QED BY <2>1, <2>2, LiveSettles
<1>7. ASSUME NEW w \in Worker, NEW o \in Outcome, NEW j \in Job, LateSettle(w, j, o) PROVE LiveInv'
  BY <1>7, LateSettleEffect, LiveSettles DEF LiveInv, LiveBelongs
<1> QED BY <1>1, <1>2, <1>3, <1>4, <1>5, <1>6, <1>7, StepCases, LiveClaimJob, LiveFinishJob, LiveCloseRun

-----------------------------------------------------------------------------
(* Completed runs.                                                             *)

LEMMA StartedFrame ==
  ASSUME TypeOK, ClaimInv, RunStarted, now' >= now, now' \in Int,
         \A j \in Job : /\ claim'[j].run = claim[j].run
                        /\ claim'[j].state # "none" => claim[j].state # "none",
         \A s \in Slot : runs'[s].status # "none" <=> runs[s].status # "none"
  PROVE  RunStarted'
<1>1. \A s \in Slot : runs'[s].status # "none" => s =< now'
  BY TickType, SlotInt DEF RunStarted
<1>2. \A j \in Job : claim'[j].state # "none" => runs'[claim'[j].run].status # "none"
  BY DEF RunStarted, ClaimInv, ClaimHasRun
<1> QED BY <1>1, <1>2 DEF RunStarted

LEMMA NextStarted ==
  ASSUME TypeOK, BatchInv, ClaimInv, CommitInv, RunStarted, [Next]_vars
  PROVE  RunStarted'
<1>0. now' \in Int
  <2>1. TypeOK'
    BY NextType
  <2>2. now' \in 0..Horizon
    BY <2>1 DEF TypeOK
  <2> QED BY <2>2
<1>1. CASE Quiet
  BY <1>0, <1>1, StartedFrame DEF Quiet
<1>2. CASE UNCHANGED now
  <2>0. now' >= now
    BY <1>2, TickType
  <2>1. ASSUME NEW s \in Slot, OwnerClose(s) PROVE RunStarted'
    <3>1. \A t \in Slot : runs'[t].status # "none" <=> runs[t].status # "none"
      BY <2>1, OwnerCloseEffect DEF Open
    <3>2. \A j \in Job : /\ claim'[j].run = claim[j].run
                         /\ claim'[j].state # "none" => claim[j].state # "none"
      BY <2>1, OwnerCloseEffect
    <3> QED BY <1>0, <2>0, <3>1, <3>2, StartedFrame
  <2>2. ASSUME NEW w \in Worker, TimeOut(w) \/ Gone(w) PROVE RunStarted'
    <3>1. UNCHANGED <<claim, runs>>
      BY <2>2, TimeOutEffect, GoneEffect DEF dbVars
    <3> QED BY <1>0, <2>0, <3>1, StartedFrame
  <2>3. ASSUME NEW w \in Worker, CloseRun(w) PROVE RunStarted'
    <3>1. UNCHANGED claim
      BY <2>3, CloseRunEffect
    <3>2. runs[mine[w]].status = "running" /\ mine[w] \in Slot
      BY <2>3, CloseRunEffect, InBatchHolds DEF InBatch, Control
    <3>3. \A s \in Slot : runs'[s].status # "none" <=> runs[s].status # "none"
      BY <2>3, <3>2, CloseRunEffect DEF TypeOK
    <3> QED BY <1>0, <2>0, <3>1, <3>3, StartedFrame
  <2>4. ASSUME NEW w \in Worker, NEW j \in Job, Settles(w, j) PROVE RunStarted'
    BY <1>0, <2>0, <2>4, StartedFrame DEF Settles
  <2>5. ASSUME NEW w \in Worker, NEW j \in Job, ClaimJob(w, j) PROVE RunStarted'
    <3>1. mine[w] \in Slot /\ runs[mine[w]].status # "none"
      BY <2>5, ClaimJobEffect DEF Open
    <3>2. \A k \in Job : claim'[k].state # "none" => claim'[k].run \in Slot /\ runs[claim'[k].run].status # "none"
      BY <2>5, <3>1, ClaimJobEffect DEF RunStarted, ClaimInv, ClaimHasRun
    <3>3. \A s \in Slot : runs'[s].status = runs[s].status
      BY <2>5, ClaimJobEffect
    <3> QED BY <1>2, <3>2, <3>3 DEF RunStarted
  <2>6. ASSUME NEW w \in Worker, FinishJob(w) PROVE RunStarted'
    <3>1. \A s \in Slot : runs'[s].status = runs[s].status
      BY <2>6, FinishJobEffect DEF Recording, dbVars
    <3>2. \A k \in Job : /\ claim'[k].run = claim[k].run
                         /\ claim'[k].state # "none" => claim[k].state # "none"
      BY <2>6, FinishJobEffect DEF Recording, ClaimFound, dbVars
    <3> QED BY <1>0, <2>0, <3>1, <3>2, StartedFrame
  <2>7. ASSUME NEW w \in Worker, ClaimRun(w) PROVE RunStarted'
    <3>1. \A s \in Slot : runs'[s].status # "none" => s =< now'
      BY <1>2, <2>7, ClaimRunEffect, TickType, SlotInt DEF RunStarted
    <3>2. \A j \in Job : claim'[j].state # "none" => runs'[claim'[j].run].status # "none"
      BY <2>7, ClaimRunEffect DEF RunStarted, ClaimInv, ClaimHasRun
    <3> QED BY <3>1, <3>2 DEF RunStarted
  <2> QED BY <1>1, <2>1, <2>2, <2>3, <2>4, <2>5, <2>6, <2>7, StepCases, HandlerSettlesEffect, LateSettleEffect
<1>3. Quiet \/ UNCHANGED now
  BY StepCases, OwnerCloseEffect, TimeOutEffect, GoneEffect, CloseRunEffect, ClaimJobEffect, FinishJobEffect,
     ClaimRunEffect, HandlerSettlesEffect, LateSettleEffect DEF Settles
<1> QED BY <1>1, <1>2, <1>3

\* A step that ends no batch well and changes claims only from running on.
LEMMA SettledFrame ==
  ASSUME ClaimInv, RecordsItsClaims, CompletedIsRecorded,
         \A j \in Job : claim'[j].run = claim[j].run /\ claim'[j].state = claim[j].state,
         \A s \in Slot : runs'[s].status = runs[s].status,
         \A w \in Worker : InBatch(w)' /\ status'[w] = "completed" =>
           /\ InBatch(w) /\ status[w] = "completed" /\ mine'[w] = mine[w]
           /\ Busy(w) => Busy(w)' /\ job'[w] = job[w]
  PROVE  RecordsItsClaims' /\ CompletedIsRecorded'
<1>1. RecordsItsClaims'
  BY DEF RecordsItsClaims
<1>2. CompletedIsRecorded'
  BY DEF CompletedIsRecorded, ClaimInv, ClaimHasRun
<1> QED BY <1>1, <1>2

LEMMA SettledClaimJob ==
  ASSUME TypeOK, BatchInv, ClaimInv, RecordsItsClaims, CompletedIsRecorded,
         NEW w \in Worker, NEW j \in Job, ClaimJob(w, j)
  PROVE  RecordsItsClaims' /\ CompletedIsRecorded'
<1>1. InBatch(w) /\ ~Busy(w) /\ runs[mine[w]].status = "running" /\ mine[w] \in Slot
  BY ClaimJobEffect, InBatchHolds DEF InBatch, Busy, Control
<1>2. \A v \in Worker : InBatch(v)' => v = w
  BY <1>1, ClaimJobEffect, BatchesApart DEF SingleBatch, SameProcess, InBatch
<1>3. status'[w] = "completed" => (Busy(w)' /\ job'[w] = j) /\ status[w] = "completed"
  BY ClaimJobEffect DEF Begins, Rejects, Leaves, Busy
<1>4. RecordsItsClaims'
  BY <1>1, <1>2, <1>3, ClaimJobEffect DEF RecordsItsClaims
<1>5. CompletedIsRecorded'
  <2> SUFFICES ASSUME NEW k \in Job, claim'[k].state # "none", runs'[claim'[k].run].status = "completed"
               PROVE  claim'[k].state \in Ended
    BY DEF CompletedIsRecorded
  <2>1. k # j
    BY <1>1, ClaimJobEffect
  <2>2. claim'[k] = claim[k] /\ claim[k].run \in Slot
    BY <2>1, ClaimJobEffect DEF ClaimInv, ClaimHasRun
  <2> QED BY <2>2, ClaimJobEffect DEF CompletedIsRecorded
<1> QED BY <1>4, <1>5

LEMMA SettledFinishJob ==
  ASSUME TypeOK, BatchInv, ClaimInv, CommitInv, AttemptInv, RecordsItsClaims, CompletedIsRecorded,
         NEW w \in Worker, FinishJob(w)
  PROVE  RecordsItsClaims' /\ CompletedIsRecorded'
<1>1. /\ InBatch(w) /\ Busy(w) /\ runs[mine[w]].status = "running" /\ mine[w] \in Slot
      /\ pc[w] = "finish" /\ job[w] \in Job /\ UNCHANGED mine
  BY FinishJobEffect, InBatchHolds DEF InBatch, Busy, Control
<1>2. \A v \in Worker : InBatch(v)' => v = w
  BY <1>1, FinishJobEffect, BatchesApart DEF SingleBatch, SameProcess, InBatch
<1>3. \A k \in Job : /\ claim'[k].run = claim[k].run
                     /\ k # job[w] => claim'[k] = claim[k]
  BY FinishJobEffect DEF Recording, ClaimFound, dbVars
<1>4. RecordsItsClaims'
  <2> SUFFICES ASSUME InBatch(w)', status'[w] = "completed", NEW k \in Job, claim'[k].run = mine[w],
                      ~(Busy(w)' /\ job'[w] = k)
               PROVE  claim'[k].state \in Ended
    BY <1>1, <1>2 DEF RecordsItsClaims
  <2>1. status[w] = "completed"
    BY FinishJobEffect DEF Returns, TriesAgain, Leaves
  <2>2. CASE k # job[w]
    BY <1>1, <1>3, <2>1, <2>2 DEF RecordsItsClaims
  <2>3. CASE k = job[w]
    <3>1. Recording(w) /\ Returns(w)
      BY <2>3, FinishJobEffect DEF TriesAgain, Leaves, Busy
    <3>2. fin[w] # "indeterminate"
      BY <1>1, <2>1 DEF AttemptInv, FinishChoice
    <3> QED BY <2>3, <3>1, <3>2 DEF Recording, Ended, TypeOK, FinState
  <2> QED BY <2>2, <2>3
<1>5. CompletedIsRecorded'
  <2> SUFFICES ASSUME NEW k \in Job, claim'[k].state # "none", runs'[claim'[k].run].status = "completed"
               PROVE  claim'[k].state \in Ended
    BY DEF CompletedIsRecorded
  <2>1. \A s \in Slot : runs'[s].status = runs[s].status
    BY FinishJobEffect DEF Recording, dbVars
  <2>2. k # job[w] \/ UNCHANGED claim
    BY <1>1, <2>1, FinishJobEffect DEF Recording, dbVars
  <2>3. claim'[k] = claim[k] /\ claim[k].run \in Slot
    BY <1>3, <2>2 DEF ClaimInv, ClaimHasRun
  <2> QED BY <2>1, <2>3 DEF CompletedIsRecorded
<1> QED BY <1>4, <1>5

LEMMA SettledCloseRun ==
  ASSUME TypeOK, BatchInv, ClaimInv, RecordsItsClaims, CompletedIsRecorded, NEW w \in Worker, CloseRun(w)
  PROVE  RecordsItsClaims' /\ CompletedIsRecorded'
<1>1. InBatch(w) /\ ~Busy(w) /\ UNCHANGED claim
  BY CloseRunEffect DEF InBatch, Busy, Control
<1>2. RecordsItsClaims'
  BY <1>1, CloseRunEffect DEF RecordsItsClaims, SameProcess, InBatch, Busy
<1>3. CompletedIsRecorded'
  BY <1>1, CloseRunEffect DEF RecordsItsClaims, CompletedIsRecorded, ClaimInv, ClaimHasRun
<1> QED BY <1>2, <1>3

LEMMA SettledClaimRun ==
  ASSUME TypeOK, BatchInv, ClaimInv, AttemptInv, RunStarted, RecordsItsClaims, CompletedIsRecorded,
         NEW w \in Worker, ClaimRun(w)
  PROVE  RecordsItsClaims' /\ CompletedIsRecorded'
<1>1. \A v \in Worker : ~InBatch(v)
  BY ClaimRunEffect, InBatchHolds
<1>2. \A j \in Job : claim[j].run # now
  BY ClaimRunEffect, SlotType DEF RunStarted, AttemptInv, AttemptsCounted
<1>3. UNCHANGED claim
  BY ClaimRunEffect
<1>4. RecordsItsClaims'
  BY <1>1, <1>2, <1>3, ClaimRunEffect DEF RecordsItsClaims, SameProcess, InBatch, Control
<1>5. CompletedIsRecorded'
  BY <1>2, <1>3, ClaimRunEffect DEF CompletedIsRecorded, ClaimInv, ClaimHasRun
<1> QED BY <1>4, <1>5

LEMMA SettledOwnerClose ==
  ASSUME TypeOK, BatchInv, ClaimInv, RecordsItsClaims, CompletedIsRecorded, NEW s \in Slot, OwnerClose(s)
  PROVE  RecordsItsClaims' /\ CompletedIsRecorded'
<1>1. \A w \in Worker : InBatch(w) => mine[w] # s
  BY OwnerCloseEffect, InBatchHolds
<1>2. RecordsItsClaims'
  BY <1>1, OwnerCloseEffect DEF RecordsItsClaims, SameProcess, InBatch, Busy
<1>3. CompletedIsRecorded'
  <2> SUFFICES ASSUME NEW k \in Job, claim'[k].state # "none", runs'[claim'[k].run].status = "completed"
               PROVE  claim'[k].state \in Ended
    BY DEF CompletedIsRecorded
  <2>1. claim[k].state # "none" /\ claim[k].run # s /\ claim[k].run \in Slot
    BY OwnerCloseEffect DEF ClaimInv, ClaimHasRun
  <2> QED BY <2>1, OwnerCloseEffect DEF CompletedIsRecorded
<1> QED BY <1>2, <1>3

LEMMA NextSettled ==
  ASSUME TypeOK, BatchInv, ClaimInv, CommitInv, AttemptInv, RunStarted, RecordsItsClaims, CompletedIsRecorded,
         [Next]_vars
  PROVE  RecordsItsClaims' /\ CompletedIsRecorded'
<1>1. CASE Quiet
  BY <1>1, SettledFrame DEF Quiet, Moves, Waiting, InBatch, Busy, Control
<1>2. ASSUME NEW w \in Worker, TimeOut(w) PROVE RecordsItsClaims' /\ CompletedIsRecorded'
  BY <1>2, TimeOutEffect, SettledFrame DEF SameProcess, InBatch, Busy, dbVars
<1>3. ASSUME NEW w \in Worker, Gone(w) PROVE RecordsItsClaims' /\ CompletedIsRecorded'
  BY <1>3, GoneEffect, SettledFrame DEF SameProcess, InBatch, Busy, dbVars
<1>4. ASSUME NEW w \in Worker, NEW o \in Outcome, HandlerSettles(w, o)
      PROVE  RecordsItsClaims' /\ CompletedIsRecorded'
  BY <1>4, HandlerSettlesEffect, SettledFrame DEF Settles, SameProcess, InBatch, Busy, Control
<1>5. ASSUME NEW w \in Worker, NEW o \in Outcome, NEW j \in Job, LateSettle(w, j, o)
      PROVE  RecordsItsClaims' /\ CompletedIsRecorded'
  BY <1>5, LateSettleEffect, SettledFrame DEF Settles, SameProcess, InBatch, Busy
<1> QED BY <1>1, <1>2, <1>3, <1>4, <1>5, StepCases, SettledClaimJob, SettledFinishJob, SettledCloseRun,
           SettledClaimRun, SettledOwnerClose

-----------------------------------------------------------------------------
(* Retried rows and counters.                                                  *)

LEMMA NextWaits ==
  ASSUME TypeOK, BatchInv, CommitInv, RunStarted, RetryWaits, [Next]_vars
  PROVE  RetryWaits'
<1>1. CASE Quiet
  BY <1>1 DEF Quiet, RowMoves, RetryWaits, Deadline
<1>2. CASE UNCHANGED <<claim, outbox, availableAt>>
  BY <1>2 DEF RetryWaits, Deadline
<1>3. ASSUME NEW s \in Slot, OwnerClose(s) PROVE RetryWaits'
  BY <1>3, OwnerCloseEffect DEF RetryWaits, Deadline
<1>4. ASSUME NEW w \in Worker, NEW j \in Job, Settles(w, j) PROVE RetryWaits'
  BY <1>4 DEF Settles, RetryWaits, Deadline
<1>5. ASSUME NEW w \in Worker, NEW j \in Job, ClaimJob(w, j) PROVE RetryWaits'
  <2> SUFFICES ASSUME NEW k \in Job \ WorkJob
               PROVE  /\ claim'[k].state = "retry" /\ outbox'[k] = "pending" => availableAt'[k] >= Deadline(claim'[k].run)
                      /\ outbox'[k] = "failed" => claim'[k].state = "failed"
                      /\ outbox'[k] = "absent" => claim'[k].state = "none"
    BY DEF RetryWaits
  <2>1. CASE k = j
    BY <1>5, <2>1, ClaimJobEffect DEF Due
  <2>2. CASE k # j
    BY <1>5, <2>2, ClaimJobEffect DEF RetryWaits, Deadline
  <2> QED BY <2>1, <2>2
<1>6. ASSUME NEW w \in Worker, FinishJob(w), Recording(w) PROVE RetryWaits'
  <2> SUFFICES ASSUME NEW k \in Job \ WorkJob
               PROVE  /\ claim'[k].state = "retry" /\ outbox'[k] = "pending" => availableAt'[k] >= Deadline(claim'[k].run)
                      /\ outbox'[k] = "failed" => claim'[k].state = "failed"
                      /\ outbox'[k] = "absent" => claim'[k].state = "none"
    BY DEF RetryWaits
  <2>1. CASE k # job[w]
    BY <1>6, <2>1 DEF Recording, RetryWaits, Deadline
  <2>2. CASE k = job[w]
    <3>1. claim[k].state = "running" /\ outbox[k] \notin {"failed", "absent"} /\ mine[w] \in Slot
      BY <1>6, <2>2, FinishJobEffect DEF Recording, ClaimFound, RetryWaits
    <3>2. /\ outbox'[k] = IF outbox[k] = "pending" THEN Settled(k, fin[w]) ELSE outbox[k]
          /\ claim'[k].state = fin[w] /\ claim'[k].run = mine[w]
          /\ fin[w] = "retry" /\ outbox[k] = "pending" => availableAt'[k] = now + RetryDelay
      BY <1>6, <2>2 DEF Recording
    <3>3. /\ outbox'[k] = "failed" => fin[w] = "failed"
          /\ outbox'[k] # "absent"
          /\ outbox'[k] = "pending" => outbox[k] = "pending"
      BY <3>1, <3>2 DEF Settled
    <3>4. now + RetryDelay >= Deadline(mine[w])
      <4>1. mine[w] =< now
        BY <1>6, <2>2, <3>1 DEF RunStarted, Recording, ClaimFound
      <4> QED BY <3>1, <4>1, TickType, SlotInt, BoundAssumption, RetryAssumption DEF Deadline
    <3> QED BY <3>2, <3>3, <3>4
  <2> QED BY <2>1, <2>2
<1>7. ASSUME NEW w \in Worker, FinishJob(w) PROVE RetryWaits'
  BY <1>2, <1>6, <1>7, FinishJobEffect DEF dbVars
<1>8. ASSUME NEW w \in Worker, CloseRun(w) \/ ClaimRun(w) \/ TimeOut(w) \/ Gone(w) PROVE RetryWaits'
  BY <1>2, <1>8, CloseRunEffect, ClaimRunEffect, TimeOutEffect, GoneEffect DEF dbVars
<1> QED BY <1>1, <1>3, <1>4, <1>5, <1>7, <1>8, StepCases, HandlerSettlesEffect, LateSettleEffect

RunningIn(s) == \E j \in Job : claim[j].run = s /\ claim[j].state = "running"

LEMMA CountFrame ==
  ASSUME CountedClaims,
         \A s \in Slot : runs'[s].status # "failed" =>
           /\ runs[s].status # "failed"
           /\ runs'[s].attempted = runs[s].attempted
           /\ runs'[s].processed = runs[s].processed
           /\ runs'[s].failures = runs[s].failures
           /\ RunningIn(s)' <=> RunningIn(s)
  PROVE  CountedClaims'
BY DEF CountedClaims, RunningIn

LEMMA CountClaimJob ==
  ASSUME TypeOK, BatchInv, RunningInv, CountedClaims, NEW w \in Worker, NEW j \in Job, ClaimJob(w, j)
  PROVE  CountedClaims'
<1>1. ~RunningIn(mine[w]) /\ runs[mine[w]].status = "running"
  BY ClaimJobEffect, InBatchHolds DEF RunningIn, RunningInv, KnowsItsClaim, InBatch, Busy, Control
<1>2. claim[j].state # "running"
  BY ClaimJobEffect DEF Due
<1>3. ASSUME NEW s \in Slot, runs'[s].status # "failed"
      PROVE  runs'[s].attempted = runs'[s].processed + runs'[s].failures + (IF RunningIn(s)' THEN 1 ELSE 0)
  <2>1. CASE s = mine[w]
    <3>1. RunningIn(s)'
      BY <2>1, ClaimJobEffect DEF RunningIn
    <3>2. runs[s].attempted = runs[s].processed + runs[s].failures
      <4>1. runs[s].attempted = runs[s].processed + runs[s].failures + 0
        BY <1>1, <2>1 DEF CountedClaims, RunningIn
      <4>2. runs[s].processed \in Nat /\ runs[s].failures \in Nat
        BY <1>3 DEF TypeOK
      <4> QED BY <4>1, <4>2
    <3>3. runs'[s].attempted = runs[s].attempted + 1 /\ runs'[s].processed = runs[s].processed
          /\ runs'[s].failures = runs[s].failures
      BY <2>1, ClaimJobEffect
    <3> QED BY <3>1, <3>2, <3>3
  <2>2. CASE s # mine[w]
    <3>1. runs'[s] = runs[s]
      BY <1>3, <2>2, ClaimJobEffect
    <3>2. RunningIn(s)' <=> RunningIn(s)
      BY <1>2, <2>2, ClaimJobEffect DEF RunningIn
    <3> QED BY <1>3, <3>1, <3>2 DEF CountedClaims, RunningIn
  <2> QED BY <2>1, <2>2
<1> QED BY <1>3 DEF CountedClaims, RunningIn

LEMMA CountRecording ==
  ASSUME TypeOK, BatchInv, CommitInv, RunningInv, CountedClaims, NEW w \in Worker, FinishJob(w), Recording(w)
  PROVE  CountedClaims'
<1>1. job[w] \in Job /\ mine[w] \in Slot /\ runs[mine[w]].status = "running"
  BY FinishJobEffect, InBatchHolds DEF InBatch, Control
<1>2. claim[job[w]].run = mine[w] /\ claim[job[w]].state = "running" /\ claim'[job[w]].state # "running"
      /\ claim'[job[w]].run = mine[w]
  BY <1>1 DEF Recording, ClaimFound, TypeOK, FinState
<1>3. \A k \in Job : k # job[w] => claim'[k] = claim[k] /\ claim[k].state # "running"
  BY <1>1, <1>2 DEF Recording, RunningInv, OneRunning
<1>4. ASSUME NEW s \in Slot, runs'[s].status # "failed"
      PROVE  runs'[s].attempted = runs'[s].processed + runs'[s].failures + (IF RunningIn(s)' THEN 1 ELSE 0)
  <2>1. ~RunningIn(s)'
    BY <1>2, <1>3 DEF RunningIn
  <2>2. CASE s = mine[w]
    <3>1. RunningIn(s)
      BY <1>1, <1>2, <2>2 DEF RunningIn
    <3>2. runs[s].attempted = runs[s].processed + runs[s].failures + 1
      BY <1>1, <2>2, <3>1 DEF CountedClaims, RunningIn
    <3>3. runs'[s].attempted = runs[s].attempted
          /\ runs'[s].processed + runs'[s].failures = runs[s].processed + runs[s].failures + 1
      BY <2>2 DEF Recording
    <3>4. TypeOK'
      BY NextType DEF Next, Process, Cycle
    <3>5. runs'[s].processed \in Nat /\ runs'[s].failures \in Nat
      BY <1>4, <3>4 DEF TypeOK
    <3> QED BY <2>1, <3>2, <3>3, <3>5
  <2>3. CASE s # mine[w]
    <3>1. runs'[s] = runs[s]
      BY <1>4, <2>3 DEF Recording
    <3>2. ~RunningIn(s)
      BY <1>2, <1>3, <2>3 DEF RunningIn
    <3> QED BY <1>4, <2>1, <3>1, <3>2 DEF CountedClaims, RunningIn
  <2> QED BY <2>2, <2>3
<1> QED BY <1>4 DEF CountedClaims, RunningIn

LEMMA NextCounted ==
  ASSUME TypeOK, BatchInv, CommitInv, RunningInv, CountedClaims, [Next]_vars
  PROVE  CountedClaims'
<1>1. CASE UNCHANGED <<runs, claim>>
  BY <1>1, CountFrame DEF RunningIn
<1>2. ASSUME NEW s \in Slot, OwnerClose(s) PROVE CountedClaims'
  <2>1. \A t \in Slot : t # s => runs'[t] = runs[t] /\ (RunningIn(t)' <=> RunningIn(t))
    BY <1>2, OwnerCloseEffect DEF RunningIn
  <2> QED BY <1>2, <2>1, OwnerCloseEffect, CountFrame
<1>3. ASSUME NEW w \in Worker, CloseRun(w) PROVE CountedClaims'
  <2>1. runs[mine[w]].status = "running"
    BY <1>3, CloseRunEffect, InBatchHolds DEF InBatch, Control
  <2>2. \A s \in Slot : runs'[s].status # "failed" => runs[s].status # "failed"
    BY <1>3, <2>1, CloseRunEffect
  <2> QED BY <1>3, <2>2, CloseRunEffect, CountFrame DEF RunningIn
<1>4. ASSUME NEW w \in Worker, ClaimRun(w) PROVE CountedClaims'
  <2>1. \A s \in Slot : runs'[s].status # "failed" => runs[s].status # "failed"
    BY <1>4, ClaimRunEffect
  <2> QED BY <1>4, <2>1, ClaimRunEffect, CountFrame DEF RunningIn
<1>5. ASSUME NEW w \in Worker, FinishJob(w) PROVE CountedClaims'
  BY <1>1, <1>5, CountRecording, FinishJobEffect DEF dbVars
<1>6. ASSUME NEW w \in Worker, NEW j \in Job, Settles(w, j) PROVE CountedClaims'
  BY <1>1, <1>6 DEF Settles
<1>7. ASSUME NEW w \in Worker, TimeOut(w) \/ Gone(w) PROVE CountedClaims'
  BY <1>1, <1>7, TimeOutEffect, GoneEffect DEF dbVars
<1>8. CASE Quiet
  BY <1>1, <1>8 DEF Quiet
<1> QED BY <1>2, <1>3, <1>4, <1>5, <1>6, <1>7, <1>8, StepCases, CountClaimJob, HandlerSettlesEffect,
           LateSettleEffect

-----------------------------------------------------------------------------
(* Theorems.                                                                   *)

JobsInv ==
  /\ AttemptInv /\ RunningInv /\ RunStarted /\ LiveInv
  /\ RecordsItsClaims /\ CompletedIsRecorded /\ RetryWaits /\ CountedClaims

LEMMA InitJobs == Init => JobsInv
<1> SUFFICES ASSUME Init PROVE JobsInv
  OBVIOUS
<1>1. AttemptInv
  BY BoundAssumption DEF Init, AttemptInv, AttemptsCounted, OwnsWhatItWorksOn, FinishChoice, Busy
<1>2. RunningInv
  BY DEF Init, RunningInv, KnowsItsClaim, OneRunning, InBatch
<1>3. RunStarted
  BY DEF Init, RunStarted
<1>4. LiveInv
  BY DEF Init, LiveInv, LiveBelongs, LiveWaits, LiveReviewed
<1>5. RecordsItsClaims /\ CompletedIsRecorded /\ RetryWaits
  BY DEF Init, RecordsItsClaims, CompletedIsRecorded, RetryWaits, InBatch
<1>6. CountedClaims
  BY DEF Init, CountedClaims
<1> QED BY <1>1, <1>2, <1>3, <1>4, <1>5, <1>6 DEF JobsInv

LEMMA JobsInvariant == Spec => []JobsInv
<1>1. TypeOK /\ BatchInv /\ ClaimInv /\ CommitInv /\ JobsInv /\ [Next]_vars => JobsInv'
  BY NextAttempt, NextRunning, NextStarted, NextLive, NextSettled, NextWaits, NextCounted DEF JobsInv
<1> QED BY <1>1, InitJobs, TypeCorrect, BatchInvariant, ClaimInvariant, CommitInvariant, PTL DEF Spec

(* A run recorded as completed left no unresolved claim and no execution: the  *)
(* process ended each claim it made in the run before it closed it, and an     *)
(* execution that outlived its timer keeps the run from completing.            *)
THEOREM CompletedRunsAreSettled == Spec => []CompletedRunIsSettled
<1>1. ClaimInv /\ JobsInv => CompletedRunIsSettled
  BY DEF JobsInv, CompletedIsRecorded, Ended, LiveInv, LiveBelongs, Open, CompletedRunIsSettled
<1> QED BY <1>1, ClaimInvariant, JobsInvariant, PTL

(* The counters of a run the owner has not closed add up: attempts are         *)
(* successes, failures, or the one claim that is running.                      *)
THEOREM CountersAreExact == Spec => []CountersAddUp
<1>1. ASSUME OneRunning, CountedClaims PROVE CountersAddUp
  <2> SUFFICES ASSUME NEW s \in Slot, runs[s].status # "failed"
               PROVE  runs[s].attempted = runs[s].processed + runs[s].failures
                        + Cardinality({j \in Job : claim[j].run = s /\ claim[j].state = "running"})
    BY DEF CountersAddUp
  <2>1. CASE RunningIn(s)
    <3>1. PICK j \in Job : claim[j].run = s /\ claim[j].state = "running"
      BY <2>1 DEF RunningIn
    <3>2. {i \in Job : claim[i].run = s /\ claim[i].state = "running"} = {j}
      BY <1>1, <3>1 DEF OneRunning
    <3>3. Cardinality({j}) = 1
      BY FS_Singleton
    <3> QED BY <1>1, <2>1, <3>2, <3>3 DEF CountedClaims, RunningIn
  <2>2. CASE ~RunningIn(s)
    <3>1. {i \in Job : claim[i].run = s /\ claim[i].state = "running"} = {}
      BY <2>2 DEF RunningIn
    <3>2. Cardinality({}) = 0
      BY FS_EmptySet
    <3> QED BY <1>1, <2>2, <3>1, <3>2 DEF CountedClaims, RunningIn
  <2> QED BY <2>1, <2>2
<1>2. JobsInv => CountersAddUp
  BY <1>1 DEF JobsInv, RunningInv
<1> QED BY <1>2, JobsInvariant, PTL

LEMMA AttemptStep ==
  ASSUME TypeOK, BatchInv, CommitInv, [Next]_vars, NEW j \in Job, claim'[j].attempt > claim[j].attempt
  PROVE  \E w \in Worker : ClaimJob(w, j)
<1>0. claim[j].attempt \in Nat
  BY DEF TypeOK
<1>1. claim'[j].attempt # claim[j].attempt
  BY <1>0
<1>2. CASE Quiet
  BY <1>1, <1>2 DEF Quiet
<1>3. ASSUME NEW w \in Worker, NEW k \in Job, ClaimJob(w, k), k # j PROVE FALSE
  BY <1>1, <1>3, ClaimJobEffect
<1>4. ASSUME NEW w \in Worker, FinishJob(w) PROVE FALSE
  BY <1>1, <1>4, FinishJobEffect DEF Recording, dbVars
<1>5. ASSUME NEW w \in Worker, ClaimRun(w) \/ TimeOut(w) \/ CloseRun(w) \/ Gone(w) PROVE FALSE
  BY <1>1, <1>5, ClaimRunEffect, TimeOutEffect, CloseRunEffect, GoneEffect DEF dbVars
<1>6. ASSUME NEW w \in Worker, NEW k \in Job, Settles(w, k) PROVE FALSE
  BY <1>1, <1>6 DEF Settles
<1>7. ASSUME NEW s \in Slot, OwnerClose(s) PROVE FALSE
  BY <1>1, <1>7, OwnerCloseEffect
<1> QED BY <1>2, <1>3, <1>4, <1>5, <1>6, <1>7, StepCases, HandlerSettlesEffect, LateSettleEffect

(* No attempt of a job starts while an execution of it is running anywhere, a  *)
(* timed-out one included: its claim is unresolved, or was retried and is due  *)
(* after the deadline of the run that may still be executing it.               *)
THEOREM NeverBesideItself == Spec => NeverRestartedWhileLive
<1>1. TypeOK /\ BatchInv /\ ClaimInv /\ CommitInv /\ JobsInv /\ [Next]_vars =>
        \A w \in Worker, j \in Job : claim'[j].attempt > claim[j].attempt => j \notin live[w]
  BY AttemptStep, ClaimedIsNotLive DEF JobsInv
<1> QED BY <1>1, JobsInvariant, TypeCorrect, BatchInvariant, ClaimInvariant, CommitInvariant, PTL
        DEF Spec, NeverRestartedWhileLive

(* A job gets no more attempts than the loop allows, and one batch executes it *)
(* once, but for a WorkJob whose timed-out handler marked its row failed.      *)
THEOREM AttemptsAreBounded == Spec => OncePerBatch
<1>1. ASSUME TypeOK, BatchInv, CommitInv, JobsInv, [Next]_vars, NEW j \in Job,
             claim'[j].attempt > claim[j].attempt
      PROVE  /\ claim'[j].attempt =< MaxAttempts
             /\ j \notin WorkJob => claim'[j].run # claim[j].run
  <2>1. PICK w \in Worker : ClaimJob(w, j)
    BY <1>1, AttemptStep
  <2>2. claim'[j].attempt =< MaxAttempts
    <3>1. AttemptInv'
      BY <1>1, NextAttempt DEF JobsInv
    <3> QED BY <3>1 DEF AttemptInv, AttemptsCounted
  <2>3. ASSUME j \notin WorkJob, claim[j].run = mine[w] PROVE FALSE
    <3>1. claim[j].state = "retry" /\ outbox[j] = "pending" /\ availableAt[j] =< now
      BY <1>1, <2>1, <2>3, ClaimJobEffect, SlotType DEF Due, JobsInv, AttemptInv, AttemptsCounted
    <3>2. availableAt[j] >= Deadline(mine[w]) /\ now < Deadline(mine[w]) /\ mine[w] \in Slot
      BY <1>1, <2>1, <2>3, <3>1, ClaimJobEffect DEF JobsInv, RetryWaits
    <3> QED BY <1>1, <3>1, <3>2, TickType, SlotInt, BoundAssumption DEF Deadline
  <2> QED BY <1>1, <2>1, <2>2, <2>3, ClaimJobEffect
<1>2. TypeOK /\ BatchInv /\ CommitInv /\ JobsInv /\ [Next]_vars =>
        \A j \in Job : claim'[j].attempt > claim[j].attempt =>
          /\ claim'[j].attempt =< MaxAttempts
          /\ j \notin WorkJob => claim'[j].run # claim[j].run
  BY <1>1
<1> QED BY <1>2, JobsInvariant, TypeCorrect, BatchInvariant, CommitInvariant, PTL DEF Spec, OncePerBatch

-----------------------------------------------------------------------------
(* The claims implement JobDelivery: every step begins, commits or records one *)
(* job, or changes nothing the promise speaks of.                              *)

Phase == [j \in Job |-> PhaseOf(claim[j].state)]
Tries == [j \in Job |-> claim[j].attempt]

Same == UNCHANGED <<Phase, Tries, committed>>

LEMMA SameClaims ==
  ASSUME UNCHANGED committed,
         \A j \in Job : claim'[j].state = claim[j].state /\ claim'[j].attempt = claim[j].attempt
  PROVE  Same
BY DEF Same, Phase, Tries

LEMMA SameIsStutter == ASSUME Same PROVE UNCHANGED Delivery!vars
BY DEF Same, Phase, Tries, Delivery!vars

\* One claim ends, the others stay.
LEMMA EndsOne ==
  ASSUME UNCHANGED committed, NEW j \in Job, claim[j].state = "running",
         \A k \in Job : claim'[k].attempt = claim[k].attempt /\ (k # j => claim'[k].state = claim[k].state),
         claim'[j].state \in FinState,
         claim'[j].state = "processed" => committed[j],
         claim'[j].state = "retry" => claim[j].attempt < MaxAttempts
  PROVE  Delivery!Next
<1> DEFINE end == PhaseOf(claim'[j].state)
<1>1. end \in {"handled", "buried", "unresolved", "waiting"}
  BY DEF PhaseOf, FinState
<1>2. Phase[j] = "executing" /\ Tries[j] = claim[j].attempt
  BY DEF Phase, Tries, PhaseOf
<1>3. end = "handled" => committed[j]
  BY DEF PhaseOf, FinState
<1>4. end = "waiting" => Tries[j] < MaxAttempts
  BY <1>2 DEF PhaseOf, FinState
<1>5. Phase' = [Phase EXCEPT ![j] = end] /\ Tries' = Tries
  BY DEF Phase, Tries
<1>6. Delivery!Record(j, end)
  BY <1>2, <1>3, <1>4, <1>5 DEF Delivery!Record, Phase, Tries
<1> QED BY <1>1, <1>6 DEF Delivery!Next

LEMMA ClaimBegins ==
  ASSUME TypeOK, BatchInv, AttemptInv, NEW w \in Worker, NEW j \in Job, ClaimJob(w, j)
  PROVE  Delivery!Next
<1>1. claim[j].state \in {"none", "retry"} /\ claim[j].attempt \in Nat /\ claim[j].attempt < MaxAttempts
  <2>1. claim[j].state \in {"none", "retry"} /\ claim[j].attempt \in Nat
    BY ClaimJobEffect DEF Due, TypeOK
  <2> QED BY <2>1, BoundAssumption DEF AttemptInv, AttemptsCounted
<1>2. Phase[j] = "waiting" /\ Tries[j] < MaxAttempts
  BY <1>1 DEF Phase, Tries, PhaseOf
<1>3. /\ \A k \in Job : k # j => claim'[k] = claim[k]
      /\ claim'[j].state = "running" /\ claim'[j].attempt = claim[j].attempt + 1
      /\ UNCHANGED committed
  BY ClaimJobEffect
<1>4. Phase' = [Phase EXCEPT ![j] = "executing"]
  BY <1>3 DEF Phase, PhaseOf
<1>5. Tries' = [Tries EXCEPT ![j] = @ + 1]
  BY <1>3 DEF Tries
<1>6. Delivery!Begin(j)
  BY <1>2, <1>3, <1>4, <1>5 DEF Delivery!Begin, Phase, Tries
<1> QED BY <1>6 DEF Delivery!Next

LEMMA SettlesCommits ==
  ASSUME TypeOK, AttemptInv, TypeOK', NEW w \in Worker, NEW j \in Job, Settles(w, j), claim[j].state # "none"
  PROVE  Delivery!Next \/ Same
<1>1. CASE committed'[j] = committed[j]
  <2>1. UNCHANGED committed
    BY <1>1 DEF Settles, TypeOK
  <2> QED BY <2>1, SameClaims DEF Settles
<1>2. CASE committed'[j] # committed[j]
  <2>1. committed'[j] = TRUE
    BY <1>2 DEF Settles
  <2>2. committed' = [committed EXCEPT ![j] = TRUE]
    BY <2>1 DEF Settles, TypeOK
  <2>3. Phase' = Phase /\ Tries' = Tries
    BY DEF Settles, Phase, Tries
  <2>4. Tries[j] > 0
    <3>1. claim[j].attempt \in Nat /\ claim[j].attempt # 0
      BY DEF TypeOK, AttemptInv, AttemptsCounted
    <3> QED BY <3>1 DEF Tries
  <2>5. Delivery!Commit(j)
    BY <2>2, <2>3, <2>4 DEF Delivery!Commit, Phase, Tries
  <2> QED BY <2>5 DEF Delivery!Next
<1> QED BY <1>1, <1>2

LEMMA RecordingEnds ==
  ASSUME TypeOK, BatchInv, CommitInv, AttemptInv, NEW w \in Worker, FinishJob(w)
  PROVE  Delivery!Next \/ Same
<1>1. CASE UNCHANGED dbVars
  BY <1>1, FinishJobEffect, SameClaims DEF dbVars
<1>2. CASE Recording(w)
  <2>1. pc[w] = "finish" /\ job[w] \in Job /\ UNCHANGED committed /\ fin[w] \in FinState
    BY FinishJobEffect DEF TypeOK
  <2>2. claim[job[w]].state = "running" /\ claim'[job[w]].state = fin[w]
    BY <1>2 DEF Recording, ClaimFound
  <2>3. \A k \in Job : claim'[k].attempt = claim[k].attempt /\ (k # job[w] => claim'[k].state = claim[k].state)
    BY <1>2 DEF Recording
  <2>4. fin[w] = "processed" => committed[job[w]]
    BY <2>1 DEF CommitInv, RecordsWhatItSaw
  <2>5. fin[w] = "retry" => claim[job[w]].attempt < MaxAttempts
    BY <2>1 DEF AttemptInv, FinishChoice, OwnsWhatItWorksOn, Busy
  <2> QED BY <2>1, <2>2, <2>3, <2>4, <2>5, EndsOne
<1> QED BY <1>1, <1>2, FinishJobEffect

LEMMA OwnerEndsOne ==
  ASSUME TypeOK, RunningInv, NEW s \in Slot, OwnerClose(s)
  PROVE  Delivery!Next \/ Same
<1>1. UNCHANGED committed /\ \A k \in Job : claim'[k].attempt = claim[k].attempt
  BY OwnerCloseEffect
<1>2. CASE \E j \in Job : claim[j].run = s /\ claim[j].state = "running"
  <2>1. PICK j \in Job : claim[j].run = s /\ claim[j].state = "running"
    BY <1>2
  <2>2. claim'[j].state = "indeterminate"
    BY <2>1, OwnerCloseEffect
  <2>3. \A k \in Job : k # j => claim'[k].state = claim[k].state
    BY <2>1, OwnerCloseEffect DEF RunningInv, OneRunning
  <2> QED BY <1>1, <2>1, <2>2, <2>3, EndsOne DEF FinState
<1>3. CASE \A j \in Job : ~(claim[j].run = s /\ claim[j].state = "running")
  BY <1>1, <1>3, OwnerCloseEffect, SameClaims
<1> QED BY <1>2, <1>3

LEMMA LiveHasClaim ==
  ASSUME TypeOK, AttemptInv, LiveInv, NEW w \in Worker, NEW j \in live[w]
  PROVE  j \in Job /\ claim[j].state # "none"
BY SlotType DEF TypeOK, AttemptInv, AttemptsCounted, LiveInv, LiveBelongs

LEMMA StepDelivers ==
  ASSUME TypeOK, BatchInv, CommitInv, JobsInv, [Next]_vars
  PROVE  [Delivery!Next]_(Delivery!vars)
<1> SUFFICES Delivery!Next \/ Same
  BY SameIsStutter
<1>0. AttemptInv /\ RunningInv /\ LiveInv /\ TypeOK'
  BY NextType DEF JobsInv
<1>1. CASE Quiet
  BY <1>1, SameClaims DEF Quiet
<1>2. ASSUME NEW s \in Slot, OwnerClose(s) PROVE Delivery!Next \/ Same
  BY <1>0, <1>2, OwnerEndsOne
<1>3. ASSUME NEW w \in Worker, ClaimRun(w) \/ TimeOut(w) \/ CloseRun(w) \/ Gone(w) PROVE Same
  BY <1>3, SameClaims, ClaimRunEffect, TimeOutEffect, CloseRunEffect, GoneEffect DEF dbVars
<1>4. ASSUME NEW w \in Worker, NEW o \in Outcome, HandlerSettles(w, o) PROVE Delivery!Next \/ Same
  <2>1. Settles(w, job[w]) /\ job[w] \in Job /\ pc[w] = "handling"
    BY <1>4, HandlerSettlesEffect
  <2>2. claim[job[w]].state # "none"
    BY <1>0, <2>1 DEF AttemptInv, OwnsWhatItWorksOn, Busy
  <2> QED BY <1>0, <2>1, <2>2, SettlesCommits
<1>5. ASSUME NEW w \in Worker, NEW o \in Outcome, NEW j \in Job, LateSettle(w, j, o)
      PROVE  Delivery!Next \/ Same
  BY <1>0, <1>5, LateSettleEffect, LiveHasClaim, SettlesCommits
<1>6. ASSUME NEW w \in Worker, FinishJob(w) PROVE Delivery!Next \/ Same
  BY <1>0, <1>6, RecordingEnds
<1>7. ASSUME NEW w \in Worker, NEW j \in Job, ClaimJob(w, j) PROVE Delivery!Next
  BY <1>0, <1>7, ClaimBegins
<1> QED BY <1>1, <1>2, <1>3, <1>4, <1>5, <1>6, <1>7, StepCases

(* The scheduled transport implements the delivery promise: read through       *)
(* PhaseOf, a claim waits, executes at most MaxAttempts times and ends handled *)
(* (after its commit), buried or unresolved, and no end is ever taken back.    *)
THEOREM DeliveryImplemented == Spec => DeliversJobs
<1>1. Init => Delivery!Init
  <2> SUFFICES ASSUME Init PROVE Delivery!Init
    OBVIOUS
  <2>1. \A j \in Job : claim[j].state = "none" /\ claim[j].attempt = 0
    BY DEF Init
  <2>2. committed = [j \in Job |-> FALSE]
    BY DEF Init
  <2> QED BY <2>1, <2>2 DEF Delivery!Init, PhaseOf
<1>2. TypeOK /\ BatchInv /\ CommitInv /\ JobsInv /\ [Next]_vars => [Delivery!Next]_(Delivery!vars)
  BY StepDelivers
<1> QED BY <1>1, <1>2, JobsInvariant, TypeCorrect, BatchInvariant, CommitInvariant, PTL
        DEF Spec, DeliversJobs, Delivery!Spec

=============================================================================
