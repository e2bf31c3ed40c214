------------------------ MODULE JobTransportsProofs ------------------------
(***************************************************************************)
(* Theorems about JobTransports for any number of jobs, sweeps, batches and *)
(* lost answers, and any difference of the two clocks.                     *)
(***************************************************************************)
EXTENDS JobTransports, TLAPS

-----------------------------------------------------------------------------
(* An execution of BullMQ's job holds it as active and lives in the window; an *)
(* execution of the batch holds a running claim, and a batch has one at most.  *)

RedisHolds ==
  /\ \A e \in OwnedBy("redis") : batch = "window" /\ redis[e.job] = "active"
  /\ \A e, f \in OwnedBy("redis") : e.job = f.job => e = f

BatchHolds ==
  /\ \A e \in OwnedBy("batch") : batch = "free" /\ claim[e.job] = "running"
  /\ \A e, f \in OwnedBy("batch") : e = f

(* A job that BullMQ has not failed has an attempt left. *)
AttemptLeft == \A j \in Job : redis[j] # "failed" => made[j] < MaxAttempts

(* A sweep has Redis in its own window only. *)
OpenInWindow == \A s \in Sweep : sweep[s].at # "idle" /\ sweep[s].open => batch = "window"

HoldInv == TypeOK /\ RedisHolds /\ BatchHolds /\ AttemptLeft /\ OpenInWindow

(* Claims do not change while a window is open, so what the function said of a *)
(* row still holds when the sweep adds the job and when it marks the row.      *)
ListingHolds ==
  \A s \in Sweep : sweep[s].at # "idle" /\ sweep[s].open /\ ~sweep[s].scan =>
    claim[sweep[s].job] \in {"none", "retry"}

(* A job in the queue that the function listed and whose publication is marked *)
(* is no longer pending, so the scheduled path cannot claim it.                *)
MarkedIsNotDue ==
  \A j \in Job : redis[j] \in {"waiting", "active"} /\ j \notin stray =>
    row[j] # "pending" /\ claim[j] \in {"none", "retry"}

ExclusionInv == ListingHolds /\ MarkedIsNotDue

(* The window opened after the admission that set the deadline, and no more    *)
(* than RunWindow of the worker's time before it.                              *)
WindowInv ==
  batch = "window" => now =< opened + RunWindow /\ deadline =< opened + skew + RunWindow

-----------------------------------------------------------------------------
(* Executions *)

LEMMA ExecutionType ==
  ASSUME NEW e \in Execution
  PROVE  /\ e.job \in Job /\ e.stage \in {"start", "worked"} /\ e.attempt \in 1..MaxAttempts
         /\ [e EXCEPT !.stage = "worked"] \in Execution
         /\ [e EXCEPT !.stage = "worked"].job = e.job
         /\ [e EXCEPT !.stage = "worked"].by = e.by
BY DEF Execution

LEMMA AbandonedType ==
  ASSUME NEW S \in SUBSET Execution
  PROVE  /\ Abandoned(S) \in SUBSET Execution
         /\ \A e \in Abandoned(S) : e.by \in {"lateBatch", "lateRedis"}
BY DEF Abandoned, Execution

LEMMA DisconnectedType ==
  ASSUME NEW S \in SUBSET Execution
  PROVE  /\ Disconnected(S) \in SUBSET Execution
         /\ \A e \in Disconnected(S) : e.by # "redis" /\ (e.by = "batch" => e \in S)
BY DEF Disconnected, Execution

LEMMA PublicationType ==
  ASSUME NEW p \in Publication, NEW at \in {"read", "add", "mark", "fail"}
  PROVE  /\ p.at # "idle" /\ p.job \in Job /\ p.open \in BOOLEAN /\ p.scan \in BOOLEAN /\ p # Idle
         /\ [p EXCEPT !.at = at] \in Publication
         /\ [p EXCEPT !.at = at].job = p.job /\ [p EXCEPT !.at = at].open = p.open
         /\ [p EXCEPT !.at = at].scan = p.scan
         /\ [p EXCEPT !.open = FALSE] \in Publication
         /\ [p EXCEPT !.open = FALSE].open = FALSE
<1>1. p.at \in {"read", "add", "mark", "fail"} /\ p.job \in Job /\ p.open \in BOOLEAN /\ p.scan \in BOOLEAN
  BY DEF Publication
<1>2. p # Idle
  BY <1>1 DEF Idle
<1>3. /\ [p EXCEPT !.at = at] \in Publication
      /\ [p EXCEPT !.at = at].job = p.job /\ [p EXCEPT !.at = at].open = p.open
      /\ [p EXCEPT !.at = at].scan = p.scan
  BY DEF Publication
<1>4. /\ [p EXCEPT !.open = FALSE] \in Publication
      /\ [p EXCEPT !.open = FALSE].open = FALSE
  BY DEF Publication
<1> QED BY <1>1, <1>2, <1>3, <1>4

LEMMA SweepMoves ==
  ASSUME sweep \in [Sweep -> {Idle} \cup Publication],
         NEW s \in Sweep, sweep[s] \in Publication, NEW at \in {"read", "add", "mark", "fail"},
         sweep' = [sweep EXCEPT ![s].at = at]
  PROVE  /\ sweep' \in [Sweep -> {Idle} \cup Publication]
         /\ sweep'[s].at = at /\ sweep'[s].open = sweep[s].open /\ sweep'[s].job = sweep[s].job
         /\ sweep'[s].scan = sweep[s].scan
         /\ \A t \in Sweep \ {s} : sweep'[t] = sweep[t]
<1> DEFINE p == [sweep[s] EXCEPT !.at = at]
<1>1. p \in Publication /\ p.at = at /\ p.open = sweep[s].open /\ p.job = sweep[s].job
        /\ p.scan = sweep[s].scan
  BY DEF Publication
<1>2. sweep' = [sweep EXCEPT ![s] = p]
  OBVIOUS
<1> HIDE DEF p
<1> QED BY <1>1, <1>2

LEMMA InitHolds == Init => HoldInv
BY TransportAssumption
   DEF Init, HoldInv, TypeOK, RedisHolds, BatchHolds, AttemptLeft, OpenInWindow, OwnedBy, Idle,
       Batch, ClaimState

\* Steps of the owner, of time and of batches.
LEMMA BatchHoldsInv ==
  ASSUME HoldInv,
         \/ OwnerClose \/ Tick \/ Admit \/ OpenWindow \/ Revoke \/ Drained \/ Killed \/ CloseBatch
         \/ \E m \in Mode : SelectMode(m)
  PROVE  HoldInv'
<1> USE TransportAssumption
    DEF HoldInv, TypeOK, RedisHolds, BatchHolds, AttemptLeft, OpenInWindow, OwnedBy, Batch,
        ClaimState, transport, clock, bounds
<1>1. CASE \E m \in Mode : SelectMode(m)
  BY <1>1 DEF SelectMode
<1>2. CASE OwnerClose
  BY <1>2 DEF OwnerClose, Idle
<1>3. CASE Tick
  BY <1>3 DEF Tick
<1>4. CASE Admit
  BY <1>4 DEF Admit
<1>5. CASE OpenWindow
  BY <1>5 DEF OpenWindow
<1>6. CASE Revoke
  <2>1. exec' \in SUBSET Execution /\ \A e \in exec' : e.by # "redis" /\ (e.by = "batch" => e \in exec)
    BY <1>6, DisconnectedType DEF Revoke
  <2>2. /\ sweep' \in [Sweep -> {Idle} \cup Publication]
        /\ \A s \in Sweep : sweep'[s].at # "idle" => ~sweep'[s].open
    <3>1. \A s \in Sweep : sweep[s].at # "idle" => sweep[s] \in Publication
      BY DEF Idle
    <3> QED BY <1>6, <3>1, PublicationType DEF Revoke, Idle
  <2> QED BY <1>6, <2>1, <2>2 DEF Revoke
<1>7. CASE Drained
  BY <1>7 DEF Drained
<1>8. CASE Killed
  BY <1>8 DEF Killed, Fault, Idle
<1>9. CASE CloseBatch
  BY <1>9 DEF CloseBatch
<1> QED BY <1>1, <1>2, <1>3, <1>4, <1>5, <1>6, <1>7, <1>8, <1>9

\* Steps of a sweep.
LEMMA SweepHoldsInv ==
  ASSUME HoldInv, NEW s \in Sweep,
         \/ \E j \in Job : StartSweep(s, j)
         \/ ReadRow(s) \/ Add(s) \/ MarkPublished(s) \/ PublishFailed(s)
  PROVE  HoldInv'
<1> USE TransportAssumption
    DEF HoldInv, TypeOK, RedisHolds, BatchHolds, AttemptLeft, OpenInWindow, OwnedBy, Idle, Publication,
        transport, clock, bounds, Fault, NoFault
<1>1. CASE \E j \in Job : StartSweep(s, j)
  BY <1>1 DEF StartSweep
<1>2. CASE ReadRow(s)
  BY <1>2 DEF ReadRow
<1>3. CASE Add(s)
  <2>1. /\ sweep[s] \in Publication /\ sweep[s].at = "add"
        /\ \E at \in {"mark", "fail"} : sweep' = [sweep EXCEPT ![s].at = at]
    BY <1>3 DEF Add
  <2>2. /\ sweep' \in [Sweep -> {Idle} \cup Publication]
        /\ sweep'[s].open = sweep[s].open
        /\ \A t \in Sweep \ {s} : sweep'[t] = sweep[t]
    <3> HIDE DEF Idle, Publication
    <3> QED BY <2>1, SweepMoves
  <2>3. OpenInWindow'
    BY <1>3, <2>1, <2>2 DEF Add
  <2>4. /\ redis' \in [Job -> {"absent", "waiting", "active", "failed"}]
        /\ made' \in [Job -> 0..MaxAttempts]
        /\ stray' \subseteq Job
        /\ faults' \in 0..MaxFaults
        /\ AttemptLeft'
        /\ \A j \in Job : redis[j] = "active" => redis'[j] = "active"
    <3>1. sweep[s].job \in Job
      BY <2>1, PublicationType
    <3>2. \/ UNCHANGED <<redis, stray>>
          \/ /\ redis' = [redis EXCEPT ![sweep[s].job] = IF @ = "absent" THEN "waiting" ELSE @]
             /\ stray' = stray \cup {sweep[s].job}
      BY <1>3 DEF Add
    <3>4. UNCHANGED made
      BY <1>3 DEF Add
    <3>3. faults' \in 0..MaxFaults
      BY <1>3 DEF Add
    <3> HIDE DEF Idle, Publication, RedisHolds, BatchHolds, OpenInWindow
    <3> QED BY <3>1, <3>2, <3>3, <3>4
  <2>5. RedisHolds' /\ BatchHolds'
    <3>1. \A e \in exec : e.job \in Job
      BY ExecutionType
    <3>2. UNCHANGED <<batch, claim, exec>>
      BY <1>3 DEF Add
    <3>3. BatchHolds'
      BY <3>2
    <3> HIDE DEF BatchHolds, AttemptLeft, OpenInWindow, Idle, Publication
    <3>4. RedisHolds'
      BY <2>4, <3>1, <3>2
    <3> QED BY <3>3, <3>4
  <2> HIDE DEF RedisHolds, BatchHolds, AttemptLeft, OpenInWindow, OwnedBy, Idle, Publication
  <2>6. TypeOK'
    BY <1>3, <2>2, <2>4 DEF Add
  <2> QED BY <2>3, <2>4, <2>5, <2>6
<1>4. CASE MarkPublished(s)
  BY <1>4 DEF MarkPublished, Publish
<1>5. CASE PublishFailed(s)
  BY <1>5 DEF PublishFailed
<1> QED BY <1>1, <1>2, <1>3, <1>4, <1>5

\* Steps of a job outside its handler.
LEMMA JobHoldsInv ==
  ASSUME HoldInv, NEW j \in Job, AdminRetry(j) \/ Take(j) \/ Stalled(j) \/ ClaimJob(j)
  PROVE  HoldInv'
<1> USE TransportAssumption
    DEF HoldInv, TypeOK, RedisHolds, BatchHolds, AttemptLeft, OpenInWindow, OwnedBy, transport, clock,
        bounds, ClaimState
<1>1. CASE AdminRetry(j)
  BY <1>1 DEF AdminRetry
<1>2. CASE Take(j)
  BY <1>2 DEF Take, Execution, Permitted
<1>3. CASE Stalled(j)
  BY <1>3 DEF Stalled, AfterError, RecordTerminal, Permitted
<1>4. CASE ClaimJob(j)
  BY <1>4 DEF ClaimJob, Execution, Due
<1> QED BY <1>1, <1>2, <1>3, <1>4

LEMMA ExecutionsKeepHold ==
  ASSUME HoldInv,
         \A e \in exec' : e.by = "redis" =>
           e \in exec /\ UNCHANGED batch /\ redis'[e.job] = redis[e.job],
         \A e \in exec' : e.by = "batch" =>
           e \in exec /\ UNCHANGED batch /\ claim'[e.job] = claim[e.job]
  PROVE  RedisHolds' /\ BatchHolds'
BY DEF HoldInv, RedisHolds, BatchHolds, OwnedBy

\* The last execution of a kind that holds a job is the one that ends.
LEMMA OthersHoldOtherJobs ==
  ASSUME HoldInv, NEW e \in exec
  PROVE  /\ e.by = "redis" => \A f \in exec \ {e} : f.by = "redis" => f.job # e.job
         /\ e.by = "batch" => \A f \in exec \ {e} : f.by # "batch"
         /\ e.by = "redis" => batch = "window" /\ redis[e.job] = "active" /\ made[e.job] < MaxAttempts
         /\ e.by = "batch" => batch = "free" /\ claim[e.job] = "running"
BY ExecutionType DEF HoldInv, TypeOK, RedisHolds, BatchHolds, OwnedBy, AttemptLeft

\* Steps of a handler.
LEMMA HandlerHoldsInv ==
  ASSUME HoldInv, NEW e \in Execution,
         Work(e) \/ RedisDone(e) \/ RedisError(e) \/ LateEnd(e) \/ BatchSettles(e) \/ BatchTimesOut(e)
  PROVE  HoldInv'
<1> DEFINE j == e.job
<1> USE TransportAssumption DEF transport, clock, bounds
<1>1. j \in Job /\ TypeOK
  BY ExecutionType DEF HoldInv
<1>2. Abandoned({e}) \in SUBSET Execution /\ \A f \in Abandoned({e}) : f.by \notin {"redis", "batch"}
  BY AbandonedType, {e} \in SUBSET Execution
<1>3. CASE Work(e)
  <2> DEFINE f == [e EXCEPT !.stage = "worked"]
  <2>1. f \in Execution /\ f.job = j /\ f.by = e.by
    BY ExecutionType
  <2>2. exec' = (exec \ {e}) \cup {f} /\ e \in exec
    BY <1>3 DEF Work
  <2>3. RedisHolds' /\ BatchHolds'
    <3> HIDE DEF f
    <3>1. UNCHANGED <<batch, redis, claim>>
      BY <1>3 DEF Work
    <3>2. RedisHolds'
      BY <2>1, <2>2, <3>1 DEF HoldInv, RedisHolds, OwnedBy
    <3>3. BatchHolds'
      BY <2>1, <2>2, <3>1 DEF HoldInv, BatchHolds, OwnedBy
    <3> QED BY <3>2, <3>3
  <2>4. TypeOK'
    BY <1>1, <1>3, <2>1, <2>2 DEF Work, TypeOK
  <2> QED BY <1>3, <2>3, <2>4 DEF Work, HoldInv, AttemptLeft, OpenInWindow
<1>4. CASE RedisDone(e)
  <2>1. RedisHolds' /\ BatchHolds'
    BY <1>4, <1>1, ExecutionType, ExecutionsKeepHold, OthersHoldOtherJobs DEF RedisDone, OwnedBy, TypeOK
  <2>2. TypeOK'
    BY <1>1, <1>4 DEF RedisDone, Marks, TypeOK
  <2> QED BY <1>1, <1>4, <2>1, <2>2 DEF RedisDone, HoldInv, AttemptLeft, OpenInWindow, TypeOK
<1>5. CASE RedisError(e)
  <2>1. e \in exec /\ e.by = "redis" /\ made[j] < MaxAttempts
    BY <1>5, OthersHoldOtherJobs DEF RedisError, OwnedBy
  <2>2. PICK permanent \in BOOLEAN :
          /\ redis' = [redis EXCEPT ![j] = AfterError(j, permanent)]
          /\ made' = [made EXCEPT ![j] = @ + 1]
          /\ \E written \in BOOLEAN : RecordTerminal(j, IF permanent THEN PermanentRow(j) ELSE row, written)
          /\ exec' = exec \ {e} \/ exec' = (exec \ {e}) \cup Abandoned({e})
    BY <1>5 DEF RedisError
  <2>3. RedisHolds' /\ BatchHolds'
    BY <1>1, <1>2, <1>5, <2>1, <2>2, ExecutionType, ExecutionsKeepHold, OthersHoldOtherJobs
       DEF RedisError, TypeOK
  <2>4. redis' \in [Job -> {"absent", "waiting", "active", "failed"}] /\ made' \in [Job -> 0..MaxAttempts]
    BY <1>1, <2>1, <2>2 DEF AfterError, TypeOK
  <2>5. row' \in [Job -> {"pending", "published", "processed", "failed"}]
    BY <1>1, <2>2 DEF RecordTerminal, PermanentRow, TypeOK
  <2>6. faults' \in 0..MaxFaults /\ exec' \in SUBSET Execution
    <3>1. faults' \in 0..MaxFaults
      BY <1>1, <1>5 DEF RedisError, TypeOK
    <3>2. exec' \in SUBSET Execution
      BY <1>1, <1>2, <2>2 DEF TypeOK
    <3> QED BY <3>1, <3>2
  <2>7. TypeOK'
    BY <1>1, <1>5, <2>4, <2>5, <2>6 DEF RedisError, TypeOK
  <2>8. AttemptLeft'
    BY <1>1, <2>2 DEF HoldInv, AttemptLeft, AfterError, TypeOK
  <2> QED BY <1>5, <2>3, <2>7, <2>8 DEF RedisError, HoldInv, OpenInWindow
<1>6. CASE LateEnd(e)
  <2>1. /\ exec' = exec \ {e} \/ exec' = (exec \ {e}) \cup Abandoned({e})
        /\ UNCHANGED <<batch, redis, claim>>
    BY <1>6 DEF LateEnd
  <2>2. RedisHolds' /\ BatchHolds'
    BY <1>2, <2>1, ExecutionsKeepHold
  <2>3. TypeOK'
    BY <1>1, <1>2, <1>6, <2>1 DEF LateEnd, Marks, PermanentRow, TypeOK
  <2> QED BY <1>6, <2>2, <2>3 DEF LateEnd, HoldInv, AttemptLeft, OpenInWindow
<1>7. CASE BatchSettles(e)
  <2>1. PICK state \in ClaimState, r \in {row, Marks(e), PermanentRow(j)} : Finish(j, state, r)
    BY <1>7 DEF BatchSettles, ClaimState
  <2>2. e \in exec /\ e.by = "batch" /\ exec' = exec \ {e}
    BY <1>7 DEF BatchSettles, OwnedBy
  <2>3. RedisHolds' /\ BatchHolds'
    BY <1>7, <2>2, ExecutionsKeepHold, OthersHoldOtherJobs DEF BatchSettles
  <2>4. TypeOK'
    BY <1>1, <1>7, <2>1, <2>2 DEF BatchSettles, Finish, Marks, PermanentRow, TypeOK
  <2> QED BY <1>7, <2>3, <2>4 DEF BatchSettles, HoldInv, AttemptLeft, OpenInWindow
<1>8. CASE BatchTimesOut(e)
  <2>1. e \in exec /\ e.by = "batch" /\ exec' = (exec \ {e}) \cup Abandoned({e}) /\ batch = "free"
    BY <1>8 DEF BatchTimesOut, OwnedBy
  <2>2. \A f \in exec' : f.by \notin {"redis", "batch"}
    BY <1>2, <2>1, OthersHoldOtherJobs
  <2>3. RedisHolds' /\ BatchHolds'
    BY <2>2, ExecutionsKeepHold
  <2>4. TypeOK'
    BY <1>1, <1>2, <1>8, <2>1 DEF BatchTimesOut, Finish, TypeOK, ClaimState, Batch
  <2>5. OpenInWindow'
    BY <1>8, <2>1 DEF BatchTimesOut, HoldInv, OpenInWindow
  <2> QED BY <1>8, <2>3, <2>4, <2>5 DEF BatchTimesOut, HoldInv, AttemptLeft
<1> QED BY <1>3, <1>4, <1>5, <1>6, <1>7, <1>8

LEMMA NextHolds == ASSUME HoldInv, [Next]_vars PROVE HoldInv'
<1>1. CASE Next
  BY <1>1, BatchHoldsInv, SweepHoldsInv, JobHoldsInv, HandlerHoldsInv DEF Next
<1>2. CASE UNCHANGED vars
  BY <1>2 DEF vars, transport, clock, bounds, HoldInv, TypeOK, RedisHolds, BatchHolds, AttemptLeft,
              OpenInWindow, OwnedBy
<1> QED BY <1>1, <1>2

(* Every variable keeps its type; in particular BullMQ never makes more        *)
(* attempts at a job than its options allow, stalls and timeouts counted.      *)
THEOREM TypeCorrect == Spec => []TypeOK
<1>1. HoldInv /\ [Next]_vars => HoldInv'
  BY NextHolds
<1>2. HoldInv => TypeOK
  BY DEF HoldInv
<1> QED BY InitHolds, <1>1, <1>2, PTL DEF Spec

LEMMA HoldInvariant == Spec => []HoldInv
<1>1. HoldInv /\ [Next]_vars => HoldInv'
  BY NextHolds
<1> QED BY InitHolds, <1>1, PTL DEF Spec

-----------------------------------------------------------------------------
(* A window is short *)

LEMMA NextWindow == ASSUME TypeOK, WindowInv, [Next]_vars PROVE WindowInv'
<1>0. /\ now \in Nat /\ now' \in Nat /\ skew \in Int /\ deadline \in Int /\ opened \in Int /\ RunWindow \in Nat
      /\ skew' = skew
  <2>1. now \in Nat /\ skew \in Int /\ deadline \in Int /\ opened \in Int /\ RunWindow \in Nat
    BY TransportAssumption DEF TypeOK
  <2>2. now' \in {now, now + 1} /\ skew' = skew
    BY DEF Next, SelectMode, OwnerClose, Tick, Admit, OpenWindow, Revoke, Drained, Killed, CloseBatch,
           StartSweep, ReadRow, Add, MarkPublished, PublishFailed, AdminRetry, Take, Stalled, ClaimJob,
           Work, RedisDone, RedisError, LateEnd, BatchSettles, BatchTimesOut, vars, clock
  <2> QED BY <2>1, <2>2
<1>1. CASE Tick
  BY <1>0, <1>1 DEF Tick, WorkerNow, WindowInv
<1>2. CASE OpenWindow
  BY <1>0, <1>2 DEF OpenWindow, WorkerNow, WindowValid, WindowInv
<1>3. CASE OwnerClose \/ Admit \/ Revoke \/ Drained \/ Killed \/ CloseBatch
  BY <1>3 DEF OwnerClose, Admit, Revoke, Drained, Killed, CloseBatch, WindowInv
<1>4. CASE \/ \E m \in Mode : SelectMode(m)
           \/ \E s \in Sweep : \/ \E j \in Job : StartSweep(s, j)
                               \/ ReadRow(s) \/ Add(s) \/ MarkPublished(s) \/ PublishFailed(s)
           \/ \E j \in Job : AdminRetry(j) \/ Take(j) \/ Stalled(j) \/ ClaimJob(j)
           \/ \E e \in Execution : \/ Work(e) \/ RedisDone(e) \/ RedisError(e) \/ LateEnd(e)
                                   \/ BatchSettles(e)
           \/ UNCHANGED vars
  <2>1. UNCHANGED <<now, skew, deadline, opened, batch>>
    BY <1>4
       DEF SelectMode, StartSweep, ReadRow, Add, MarkPublished, PublishFailed, AdminRetry, Take, Stalled,
           ClaimJob, Work, RedisDone, RedisError, LateEnd, BatchSettles, vars, clock
  <2> QED BY <2>1 DEF WindowInv
<1>5. CASE \E e \in Execution : BatchTimesOut(e)
  BY <1>5 DEF BatchTimesOut, WindowInv
<1> QED BY <1>1, <1>2, <1>3, <1>4, <1>5 DEF Next

(* No window is open longer than RunWindow after it opened, by the database's  *)
(* clock, however far the worker's clock is off.                               *)
THEOREM WindowsAreShort == Spec => []WindowIsShort
<1>1. Init => WindowInv
  BY DEF Init, WindowInv
<1>2. TypeOK /\ WindowInv /\ [Next]_vars => WindowInv'
  BY NextWindow
<1>3. WindowInv => WindowIsShort
  BY DEF WindowInv, WindowIsShort
<1> QED BY <1>1, <1>2, <1>3, TypeCorrect, PTL DEF Spec

-----------------------------------------------------------------------------
(* One transport at a time *)

\* Nothing becomes due or queued, and no claim moves: what listings and marks
\* rest on is kept.
LEMMA ExclusionFrame ==
  ASSUME HoldInv, ExclusionInv,
         \A s \in Sweep : sweep'[s].at # "idle" /\ sweep'[s].open =>
           /\ sweep[s].at # "idle" /\ sweep[s].open
           /\ sweep'[s].job = sweep[s].job /\ sweep'[s].scan = sweep[s].scan,
         \A s \in Sweep : sweep[s].at # "idle" => sweep[s].job \in Job,
         \A j \in Job : claim[j] \in {"none", "retry"} => claim'[j] \in {"none", "retry"},
         \A j \in Job : row'[j] = "pending" => row[j] = "pending",
         \A j \in Job : redis'[j] \in {"waiting", "active"} => redis[j] \in {"waiting", "active"},
         stray \subseteq stray'
  PROVE  ExclusionInv'
<1>1. ListingHolds'
  BY DEF ExclusionInv, ListingHolds
<1>2. MarkedIsNotDue'
  BY DEF ExclusionInv, MarkedIsNotDue
<1> QED BY <1>1, <1>2 DEF ExclusionInv

LEMMA SweepsJob ==
  ASSUME TypeOK, NEW s \in Sweep, sweep[s].at # "idle"
  PROVE  sweep[s] \in Publication /\ sweep[s].job \in Job
<1>1. sweep[s] \in Publication
  BY DEF TypeOK, Idle
<1> QED BY <1>1 DEF Publication

LEMMA BatchExcludes ==
  ASSUME HoldInv, ExclusionInv,
         \/ OwnerClose \/ Tick \/ Admit \/ OpenWindow \/ Revoke \/ Drained \/ Killed \/ CloseBatch
         \/ \E m \in Mode : SelectMode(m)
  PROVE  ExclusionInv'
<1>0. TypeOK /\ \A s \in Sweep : sweep[s].at # "idle" => sweep[s] \in Publication /\ sweep[s].job \in Job
  BY SweepsJob DEF HoldInv
<1>1. CASE OwnerClose \/ Killed
  <2>1. /\ \A s \in Sweep : sweep'[s].at = "idle"
        /\ \A j \in Job : claim[j] \in {"none", "retry"} => claim'[j] \in {"none", "retry"}
        /\ UNCHANGED <<row, redis, stray>>
    BY <1>1 DEF OwnerClose, Killed, Idle, transport
  <2> QED BY <1>0, <2>1, ExclusionFrame
<1>2. CASE Revoke
  <2>1. \A s \in Sweep : sweep'[s].at # "idle" => ~sweep'[s].open
    BY <1>0, <1>2, PublicationType DEF Revoke, Idle
  <2> QED BY <1>0, <1>2, <2>1, ExclusionFrame DEF Revoke, transport
<1>3. CASE \/ Tick \/ Admit \/ OpenWindow \/ Drained \/ CloseBatch
           \/ \E m \in Mode : SelectMode(m)
  <2>1. UNCHANGED <<sweep, claim, row, redis, stray>>
    BY <1>3 DEF Tick, Admit, OpenWindow, Drained, CloseBatch, SelectMode, transport
  <2> QED BY <2>1 DEF ExclusionInv, ListingHolds, MarkedIsNotDue
<1> QED BY <1>1, <1>2, <1>3

LEMMA SweepExcludes ==
  ASSUME HoldInv, ExclusionInv, NEW s \in Sweep,
         \/ \E j \in Job : StartSweep(s, j)
         \/ ReadRow(s) \/ Add(s) \/ MarkPublished(s) \/ PublishFailed(s)
  PROVE  ExclusionInv'
<1>0. TypeOK /\ \A t \in Sweep : sweep[t].at # "idle" => sweep[t] \in Publication /\ sweep[t].job \in Job
  BY SweepsJob DEF HoldInv
<1>1. ASSUME NEW j \in Job, StartSweep(s, j) PROVE ExclusionInv'
  <2>1. /\ \A t \in Sweep \ {s} : sweep'[t] = sweep[t]
        /\ sweep'[s].job = j
        /\ claim[j] \in {"none", "retry"} \/ sweep'[s].scan
        /\ UNCHANGED <<claim, row, redis, stray>>
    BY <1>0, <1>1 DEF StartSweep, Listed, TypeOK, transport
  <2> QED BY <2>1 DEF ExclusionInv, ListingHolds, MarkedIsNotDue
<1>2. CASE ReadRow(s)
  <2>1. \/ sweep'[s] = Idle
        \/ /\ sweep'[s].job = sweep[s].job /\ sweep'[s].open = sweep[s].open
           /\ sweep'[s].scan = sweep[s].scan
    BY <1>0, <1>2, PublicationType DEF ReadRow, TypeOK
  <2>2. /\ \A t \in Sweep \ {s} : sweep'[t] = sweep[t]
        /\ sweep[s].at # "idle"
        /\ UNCHANGED <<claim, row, redis, stray>>
    BY <1>0, <1>2 DEF ReadRow, TypeOK, transport
  <2> QED BY <1>0, <2>1, <2>2, ExclusionFrame DEF Idle
<1>3. CASE Add(s)
  <2>1. /\ sweep[s] \in Publication /\ sweep[s].at = "add" /\ sweep[s].job \in Job
        /\ \E at \in {"mark", "fail"} : sweep' = [sweep EXCEPT ![s].at = at]
        /\ UNCHANGED <<claim, row>>
    BY <1>0, <1>3 DEF Add
  <2>2. /\ sweep'[s].open = sweep[s].open /\ sweep'[s].job = sweep[s].job
        /\ sweep'[s].scan = sweep[s].scan
        /\ \A t \in Sweep \ {s} : sweep'[t] = sweep[t]
    BY <1>0, <2>1, SweepMoves DEF TypeOK
  <2>3. ListingHolds'
    BY <2>1, <2>2 DEF ExclusionInv, ListingHolds
  <2>4. \A j \in Job : redis'[j] = redis[j] \/ (j = sweep[s].job /\ j \in stray')
    BY <1>0, <1>3 DEF Add, TypeOK
  <2>5. stray \subseteq stray'
    BY <1>3 DEF Add
  <2> QED BY <2>1, <2>3, <2>4, <2>5 DEF ExclusionInv, MarkedIsNotDue
<1>4. CASE MarkPublished(s)
  <2>1. /\ sweep[s] \in Publication /\ sweep[s].at = "mark" /\ sweep[s].job \in Job
        /\ UNCHANGED <<claim, redis>>
    BY <1>0, <1>4 DEF MarkPublished
  <2>2. /\ \A t \in Sweep \ {s} : sweep'[t] = sweep[t]
        /\ \/ sweep'[s].at = "idle"
           \/ /\ sweep'[s].open = sweep[s].open /\ sweep'[s].job = sweep[s].job
              /\ sweep'[s].scan = sweep[s].scan
    BY <1>0, <1>4, <2>1, SweepMoves DEF MarkPublished, TypeOK, Idle
  <2>3. ListingHolds'
    BY <2>1, <2>2 DEF ExclusionInv, ListingHolds
  <2>4. \A j \in Job : row'[j] = "pending" => row[j] = "pending"
    BY <1>0, <1>4 DEF MarkPublished, Publish, TypeOK
  <2>5. \/ stray' = stray
        \/ /\ sweep[s].open /\ ~sweep[s].scan /\ stray' = stray \ {sweep[s].job}
           /\ row'[sweep[s].job] # "pending"
    BY <1>0, <1>4, <2>1 DEF MarkPublished, Publish, TypeOK
  <2>6. sweep[s].open /\ ~sweep[s].scan => claim[sweep[s].job] \in {"none", "retry"}
    BY <2>1 DEF ExclusionInv, ListingHolds
  <2> QED BY <2>1, <2>3, <2>4, <2>5, <2>6 DEF ExclusionInv, MarkedIsNotDue
<1>5. CASE PublishFailed(s)
  <2>1. /\ sweep'[s].at = "idle" /\ \A t \in Sweep \ {s} : sweep'[t] = sweep[t]
        /\ \A j \in Job : row'[j] = "pending" => row[j] = "pending"
        /\ UNCHANGED <<claim, redis, stray>>
    BY <1>0, <1>5 DEF PublishFailed, TypeOK, Idle
  <2> QED BY <1>0, <2>1, ExclusionFrame
<1> QED BY <1>1, <1>2, <1>3, <1>4, <1>5

LEMMA JobExcludes ==
  ASSUME HoldInv, ExclusionInv, NEW j \in Job, AdminRetry(j) \/ Take(j) \/ Stalled(j) \/ ClaimJob(j)
  PROVE  ExclusionInv'
<1>0. TypeOK /\ \A t \in Sweep : sweep[t].at # "idle" => sweep[t].job \in Job
  BY SweepsJob DEF HoldInv
<1>1. CASE AdminRetry(j)
  BY <1>0, <1>1 DEF AdminRetry, ExclusionInv, ListingHolds, MarkedIsNotDue, TypeOK
<1>2. CASE Take(j)
  BY <1>0, <1>2 DEF Take, ExclusionInv, ListingHolds, MarkedIsNotDue, TypeOK
<1>3. CASE Stalled(j)
  <2>1. /\ UNCHANGED <<sweep, claim, stray>>
        /\ \A k \in Job : row'[k] = "pending" => row[k] = "pending"
        /\ \A k \in Job : redis'[k] \in {"waiting", "active"} => redis[k] \in {"waiting", "active"}
    BY <1>0, <1>3 DEF Stalled, RecordTerminal, TypeOK
  <2> QED BY <1>0, <2>1, ExclusionFrame
<1>4. CASE ClaimJob(j)
  <2>1. /\ row[j] = "pending" /\ batch = "free" /\ UNCHANGED <<row, redis, sweep, stray>>
        /\ \A k \in Job \ {j} : claim'[k] = claim[k]
    BY <1>0, <1>4 DEF ClaimJob, Due, TypeOK
  <2>2. ListingHolds'
    BY <2>1 DEF HoldInv, OpenInWindow, ListingHolds
  <2> QED BY <2>1, <2>2 DEF ExclusionInv, MarkedIsNotDue
<1> QED BY <1>1, <1>2, <1>3, <1>4

LEMMA HandlerExcludes ==
  ASSUME HoldInv, ExclusionInv, NEW e \in Execution,
         Work(e) \/ RedisDone(e) \/ RedisError(e) \/ LateEnd(e) \/ BatchSettles(e) \/ BatchTimesOut(e)
  PROVE  ExclusionInv'
<1>0. TypeOK /\ e.job \in Job /\ \A t \in Sweep : sweep[t].at # "idle" => sweep[t].job \in Job
  BY SweepsJob, ExecutionType DEF HoldInv
<1>1. UNCHANGED <<sweep, stray>>
  BY DEF Work, RedisDone, RedisError, LateEnd, BatchSettles, BatchTimesOut
<1>2. \A k \in Job : row'[k] = "pending" => row[k] = "pending"
  <2>1. CASE Work(e) \/ RedisDone(e) \/ LateEnd(e)
    BY <1>0, <2>1 DEF Work, RedisDone, LateEnd, Marks, PermanentRow, TypeOK
  <2>2. CASE RedisError(e)
    BY <1>0, <2>2 DEF RedisError, RecordTerminal, PermanentRow, TypeOK
  <2>3. CASE BatchSettles(e) \/ BatchTimesOut(e)
    <3>1. PICK state \in ClaimState, r \in {row, Marks(e), PermanentRow(e.job)} : Finish(e.job, state, r)
      BY <2>3 DEF BatchSettles, BatchTimesOut, ClaimState
    <3>2. /\ r \in [Job -> {"pending", "published", "processed", "failed"}]
          /\ \A k \in Job : r[k] = "pending" => row[k] = "pending"
      BY <1>0 DEF Marks, PermanentRow, TypeOK
    <3> QED BY <1>0, <3>1, <3>2 DEF Finish
  <2> QED BY <2>1, <2>2, <2>3
<1>3. \A k \in Job : redis'[k] \in {"waiting", "active"} => redis[k] \in {"waiting", "active"}
  <2>1. CASE RedisError(e)
    <3>1. redis[e.job] = "active"
      BY <2>1, OthersHoldOtherJobs DEF RedisError, OwnedBy
    <3> QED BY <1>0, <2>1, <3>1 DEF RedisError, TypeOK
  <2>2. CASE ~RedisError(e)
    BY <1>0, <2>2 DEF Work, RedisDone, LateEnd, BatchSettles, BatchTimesOut, TypeOK
  <2> QED BY <2>1, <2>2
<1>4. \A k \in Job : claim[k] \in {"none", "retry"} => claim'[k] \in {"none", "retry"}
  <2>1. CASE BatchSettles(e) \/ BatchTimesOut(e)
    <3>1. claim[e.job] = "running"
      BY <2>1, OthersHoldOtherJobs DEF BatchSettles, BatchTimesOut, OwnedBy
    <3> QED BY <1>0, <2>1, <3>1 DEF BatchSettles, BatchTimesOut, Finish, TypeOK
  <2>2. CASE ~(BatchSettles(e) \/ BatchTimesOut(e))
    BY <2>2 DEF Work, RedisDone, RedisError, LateEnd
  <2> QED BY <2>1, <2>2
<1> QED BY <1>0, <1>1, <1>2, <1>3, <1>4, ExclusionFrame

LEMMA NextExcludes == ASSUME HoldInv, ExclusionInv, [Next]_vars PROVE ExclusionInv'
<1>1. CASE Next
  BY <1>1, BatchExcludes, SweepExcludes, JobExcludes, HandlerExcludes DEF Next
<1>2. CASE UNCHANGED vars
  BY <1>2 DEF vars, transport, ExclusionInv, ListingHolds, MarkedIsNotDue
<1> QED BY <1>1, <1>2

LEMMA ExclusionInvariant == Spec => []ExclusionInv
<1>1. Init => ExclusionInv
  BY DEF Init, ExclusionInv, ListingHolds, MarkedIsNotDue, Idle
<1>2. HoldInv /\ ExclusionInv /\ [Next]_vars => ExclusionInv'
  BY NextExcludes
<1> QED BY <1>1, <1>2, HoldInvariant, PTL DEF Spec

(* Redis offers no job that the scheduled path has in hand, has handled or     *)
(* left unresolved, but for a publication whose mark was lost, late or undone, *)
(* or whose sweep scanned the table because its listing had failed.            *)
THEOREM TransportsAreExclusive == Spec => []ExclusiveTransport
<1>1. ExclusionInv => ExclusiveTransport
  BY DEF ExclusionInv, MarkedIsNotDue, ExclusiveTransport
<1> QED BY <1>1, ExclusionInvariant, PTL

(* A job enters the queue only while its claim is absent or waits for a retry, *)
(* although the sweep looked at the claim when it listed the row and not       *)
(* since; but for a sweep that scanned the table because its listing failed.   *)
THEOREM NothingIsReplayed == Spec => NoReplayIntoRedis
<1> DEFINE ByScan(j) == \E s \in Sweep : /\ sweep[s].at = "add" /\ sweep'[s] # sweep[s]
                                         /\ sweep[s].job = j /\ sweep[s].scan
<1>1. ASSUME HoldInv, ExclusionInv, [Next]_vars
      PROVE  [\A j \in Job : redis[j] = "absent" /\ redis'[j] = "waiting" =>
                \/ claim[j] \in {"none", "retry"}
                \/ \E s \in Sweep : /\ sweep[s].at = "add" /\ sweep'[s] # sweep[s]
                                    /\ sweep[s].job = j /\ sweep[s].scan]_vars
  <2>1. ASSUME NEW s \in Sweep, Add(s), NEW j \in Job, redis[j] = "absent", redis'[j] = "waiting"
        PROVE  claim[j] \in {"none", "retry"} \/ ByScan(j)
    <3>1. sweep[s].open /\ sweep[s].at = "add" /\ j = sweep[s].job
      BY <1>1, <2>1 DEF Add, HoldInv, TypeOK
    <3>2. CASE ~sweep[s].scan
      BY <1>1, <3>1, <3>2 DEF ExclusionInv, ListingHolds
    <3>3. CASE sweep[s].scan
      <4>1. sweep[s] \in Publication /\ \E at \in {"mark", "fail"} : sweep' = [sweep EXCEPT ![s].at = at]
        BY <1>1, <2>1, <3>1, SweepsJob DEF Add, HoldInv
      <4>2. sweep'[s].at # "add"
        BY <1>1, <4>1, SweepMoves DEF HoldInv, TypeOK
      <4> QED BY <3>1, <3>3, <4>2
    <3> QED BY <3>2, <3>3
  <2>2. ASSUME NEW e \in Execution, RedisError(e) PROVE redis[e.job] = "active"
    BY <1>1, <2>2, OthersHoldOtherJobs DEF RedisError, OwnedBy
  <2>3. ASSUME NEW j \in Job, redis[j] = "absent", redis'[j] = "waiting",
               \A s \in Sweep : ~Add(s)
        PROVE  FALSE
    <3>1. CASE \E e \in Execution : RedisError(e)
      BY <1>1, <2>2, <2>3, <3>1 DEF RedisError, HoldInv, TypeOK
    <3>2. CASE \E k \in Job : Take(k) \/ Stalled(k)
      BY <1>1, <2>3, <3>2 DEF Take, Stalled, HoldInv, TypeOK
    <3>3. CASE \E e \in Execution : RedisDone(e)
      BY <1>1, <2>3, <3>3 DEF RedisDone, HoldInv, TypeOK
    <3>4. CASE UNCHANGED redis
      BY <2>3, <3>4
    <3> QED BY <1>1, <2>3, <3>1, <3>2, <3>3, <3>4
            DEF Next, SelectMode, OwnerClose, Tick, Admit, OpenWindow, Revoke, Drained, Killed, CloseBatch,
                StartSweep, ReadRow, MarkPublished, PublishFailed, AdminRetry, ClaimJob, Work, LateEnd,
                BatchSettles, BatchTimesOut, vars, transport
  <2> QED BY <2>1, <2>3
<1> QED BY <1>1, HoldInvariant, ExclusionInvariant, PTL DEF Spec, NoReplayIntoRedis

-----------------------------------------------------------------------------
(* Who may take back "processed" *)

(* A processed row is overwritten by the last failed publication and by a      *)
(* permanent error of another execution only, and only with "failed".          *)
THEOREM ProcessedStays == Spec => ProcessedIsKept
<1> DEFINE Kept == \A j \in Job : row[j] = "processed" /\ row'[j] # "processed" =>
                     /\ row'[j] = "failed"
                     /\ fails'[j] = MaxPublish \/ \E e \in exec \ exec' : e.job = j
<1>1. ASSUME HoldInv, [Next]_vars PROVE [Kept]_vars
  <2>0. TypeOK /\ \A e \in Execution : e.job \in Job
    BY <1>1, ExecutionType DEF HoldInv
  <2>1. ASSUME NEW s \in Sweep, PublishFailed(s) PROVE Kept
    <3>1. sweep[s].job \in Job
      BY <2>0, <2>1, SweepsJob DEF PublishFailed
    <3> QED BY <2>0, <2>1, <3>1, TransportAssumption DEF PublishFailed, TypeOK
  <2>2. ASSUME NEW s \in Sweep, MarkPublished(s) PROVE Kept
    BY <2>0, <2>2 DEF MarkPublished, Publish, TypeOK
  <2>3. ASSUME NEW j \in Job, AdminRetry(j) \/ Stalled(j) PROVE Kept
    BY <2>0, <2>3 DEF AdminRetry, Stalled, RecordTerminal, TypeOK
  <2>4. ASSUME NEW e \in Execution, Work(e) \/ RedisDone(e) PROVE Kept
    BY <2>0, <2>4 DEF Work, RedisDone, Marks, TypeOK
  <2>5. ASSUME NEW e \in Execution, RedisError(e) PROVE Kept
    <3>1. PICK permanent \in BOOLEAN, timeout \in BOOLEAN, written \in BOOLEAN :
            /\ ~(permanent /\ timeout)
            /\ RecordTerminal(e.job, IF permanent THEN PermanentRow(e.job) ELSE row, written)
            /\ exec' = (exec \ {e}) \cup (IF timeout THEN Abandoned({e}) ELSE {})
      BY <2>5 DEF RedisError
    <3>2. permanent => e \in exec \ exec'
      BY <2>5, <3>1 DEF RedisError, OwnedBy
    <3> QED BY <2>0, <3>1, <3>2 DEF RecordTerminal, PermanentRow, TypeOK
  <2>6. ASSUME NEW e \in Execution, LateEnd(e) PROVE Kept
    BY <2>0, <2>6 DEF LateEnd, Marks, PermanentRow, TypeOK
  <2>7. ASSUME NEW e \in Execution, BatchSettles(e) PROVE Kept
    <3>1. /\ e \in exec \ exec'
          /\ \E state \in ClaimState, r \in {row, Marks(e), PermanentRow(e.job)} : Finish(e.job, state, r)
      BY <2>7 DEF BatchSettles, OwnedBy, ClaimState
    <3> QED BY <2>0, <3>1 DEF Finish, Marks, PermanentRow, TypeOK
  <2>8. ASSUME NEW e \in Execution, BatchTimesOut(e) PROVE Kept
    BY <2>0, <2>8 DEF BatchTimesOut, Finish, TypeOK
  <2>9. CASE UNCHANGED row
    BY <2>9
  <2> HIDE DEF Kept
  <2> QED BY <1>1, <2>1, <2>2, <2>3, <2>4, <2>5, <2>6, <2>7, <2>8, <2>9
          DEF Next, SelectMode, OwnerClose, Tick, Admit, OpenWindow, Revoke, Drained, Killed, CloseBatch,
              StartSweep, ReadRow, Add, Take, ClaimJob, vars, transport
<1> QED BY <1>1, HoldInvariant, PTL DEF Spec, ProcessedIsKept
=============================================================================
