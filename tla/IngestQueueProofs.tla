-------------------------- MODULE IngestQueueProofs --------------------------
(***************************************************************************)
(* Theorems about IngestQueue for any number of events, publishers and     *)
(* executions, and any number of stalls, failed calls, crashes and         *)
(* evictions.                                                              *)
(***************************************************************************)
EXTENDS IngestQueue, TLAPS

-----------------------------------------------------------------------------
(* What BullMQ keeps of a job: only an active one has a runner, and a job that *)
(* still runs or waits has attempts and stalls left.                           *)

RunnerIsActive == \A e \in Event : runner[e] # None => job[e] = "active"

RetriesLeft ==
  \A e \in Event : job[e] \in {"waiting", "active"} =>
    attemptsMade[e] < MaxAttempts /\ stalls[e] =< MaxStalls

KnowsItsEvent ==
  /\ \A p \in Publisher : pub[p] # "idle" => pubEvent[p] \in Event
  /\ \A x \in Exec : exec[x] # "free" => execEvent[x] \in Event

QueueInv == TypeOK /\ RunnerIsActive /\ RetriesLeft /\ KnowsItsEvent

(* A transaction that has updated the event's status keeps its row locked, and *)
(* inserts an observation only after it saw none under that lock.              *)
HoldsTheRow == \A x \in Exec : exec[x] \in {"look", "insert", "skip"} => lock[execEvent[x]] = x

InsertsTheFirst == \A x \in Exec : exec[x] = "insert" => normalized[execEvent[x]] = 0

OnceInv == HoldsTheRow /\ InsertsTheFirst /\ NormalizedOnce

(* A handler returns normally only for an event whose observation is committed. *)
ProcessedWasNormalized == \A e \in Event : event[e] = "processed" => normalized[e] > 0

DoneWasNormalized == \A x \in Exec : exec[x] \in {"skip", "ok"} => normalized[execEvent[x]] > 0

DoneInv == ProcessedWasNormalized /\ DoneWasNormalized /\ CompletedWasNormalized

(* Rows, jobs and handlers exist for accepted events only, and a publisher     *)
(* about to mark a row has added its job, which may have run since.            *)
Accepted ==
  /\ \A e \in Event : outbox[e] # "absent" => event[e] # "absent"
  /\ \A x \in Exec : exec[x] # "free" => event[execEvent[x]] # "absent"
  /\ \A e \in Event : job[e] # "none" => event[e] # "absent"
  /\ \A p \in Publisher : pub[p] # "idle" => event[pubEvent[p]] # "absent"

MarksWhatItAdded ==
  \A p \in Publisher : pub[p] \in {"mark", "update"} =>
    job[pubEvent[p]] # "none" \/ normalized[pubEvent[p]] > 0

LossInv == Accepted /\ MarksWhatItAdded /\ NothingLost

-----------------------------------------------------------------------------
(* Types and the bookkeeping of BullMQ *)

LEMMA InitQueue == Init => QueueInv
BY EventAssumption, LimitAssumption
   DEF Init, QueueInv, TypeOK, RunnerIsActive, RetriesLeft, KnowsItsEvent, EventStatus, Handling

LEMMA PublishQueue ==
  ASSUME QueueInv, NEW p \in Publisher,
         \/ Publish(p) \/ MarkFails(p) \/ PublisherDies(p)
         \/ \E e \in Event : Pick(p, e)
  PROVE  QueueInv'
<1> USE EventAssumption, LimitAssumption
    DEF QueueInv, TypeOK, RunnerIsActive, RetriesLeft, KnowsItsEvent, EventStatus, PubGoto,
        dbVars, redisVars, execVars
<1>1. CASE \E e \in Event : Pick(p, e)
  BY <1>1 DEF Pick
<1>2. CASE ReadRow(p)
  BY <1>2 DEF ReadRow
<1>3. CASE Add(p)
  BY <1>3 DEF Add, AddJob, Trouble
<1>4. CASE MarkPublished(p)
  BY <1>4 DEF MarkPublished
<1>5. CASE MarkQueued(p)
  BY <1>5 DEF MarkQueued
<1>6. CASE PublishFailed(p)
  BY <1>6 DEF PublishFailed
<1>7. CASE MarkFails(p) \/ PublisherDies(p)
  BY <1>7 DEF MarkFails, PublisherDies, Trouble
<1> QED BY <1>1, <1>2, <1>3, <1>4, <1>5, <1>6, <1>7 DEF Publish

LEMMA UnlockType ==
  ASSUME QueueInv, NEW x \in Exec, Unlock(x)
  PROVE  lock' \in [Event -> Exec \cup {None}]
BY DEF QueueInv, TypeOK, Unlock

(* A step of a handler goes on or settles, and leaves Redis and the publishers *)
(* alone.                                                                      *)
LEMMA HandlerFrame ==
  ASSUME QueueInv, NEW x \in Exec, exec[x] # "free",
         NEW how \in {"ok", "error", "failRead"} \cup Handling, Settle(x, how) \/ Goto(x, how),
         event' \in [Event -> EventStatus \cup {"absent"}], normalized' \in [Event -> Nat],
         lock' \in [Event -> Exec \cup {None}], trouble' \in 0..MaxTrouble,
         UNCHANGED <<outbox, failures, active, redisVars, pubVars>>
  PROVE  QueueInv'
<1>1. /\ exec' \in [Exec -> {"free", "ok", "error", "dead", "failRead", "failUpdate"} \cup Handling]
      /\ execEvent' \in [Exec -> Event \cup {None}]
      /\ detached' \in [Exec -> BOOLEAN]
      /\ \A y \in Exec : exec'[y] # "free" => exec[y] # "free" /\ execEvent'[y] = execEvent[y]
  <2>1. CASE Goto(x, how)
    BY <2>1 DEF QueueInv, TypeOK, Goto
  <2>2. CASE Free(x)
    BY <2>2 DEF QueueInv, TypeOK, Free
  <2> QED BY <2>1, <2>2 DEF Settle
<1> QED BY <1>1 DEF QueueInv, TypeOK, RunnerIsActive, RetriesLeft, KnowsItsEvent, redisVars, pubVars

LEMMA HandleQueue ==
  ASSUME QueueInv, NEW x \in Exec,
         \/ Handle(x) \/ TimeOut(x) \/ HandlerFails(x) \/ FailureUnrecorded(x) \/ ExecGone(x)
         \/ \E e \in Event : Take(x, e)
  PROVE  QueueInv'
<1> USE EventAssumption, LimitAssumption
    DEF QueueInv, TypeOK, RunnerIsActive, RetriesLeft, KnowsItsEvent, EventStatus, Handling,
        dbVars, redisVars, pubVars
<1>1. CASE \E e \in Event : Take(x, e)
  BY <1>1 DEF Take
<1>2. CASE Read(x)
  <2>1. \E how \in {"failRead", "ok", "check"} : Settle(x, how) \/ Goto(x, how)
    BY <1>2 DEF Read
  <2> QED BY <1>2, <2>1, HandlerFrame DEF Read
<1>3. CASE Check(x)
  <2>1. \E how \in {"lock", "error"} : Settle(x, how) \/ Goto(x, how)
    BY <1>3 DEF Check
  <2> QED BY <1>3, <2>1, HandlerFrame DEF Check
<1>4. CASE Lock(x)
  BY <1>4 DEF Lock, Goto
<1>5. CASE Look(x)
  <2>1. \E how \in {"skip", "failRead", "insert"} : Settle(x, how) \/ Goto(x, how)
    BY <1>5 DEF Look
  <2>2. lock' \in [Event -> Exec \cup {None}]
    BY <1>5, UnlockType DEF Look
  <2> QED BY <1>5, <2>1, <2>2, HandlerFrame DEF Look
<1>6. CASE Commit(x)
  <2>1. /\ event' \in [Event -> EventStatus \cup {"absent"}]
        /\ normalized' \in [Event -> Nat]
        /\ trouble' \in 0..MaxTrouble
    BY <1>6 DEF Commit, Trouble
  <2>2. \E how \in {"ok", "error"} : Settle(x, how) \/ Goto(x, how)
    BY <1>6 DEF Commit
  <2> QED BY <1>6, <2>1, <2>2, UnlockType, HandlerFrame DEF Commit
<1>7. CASE FailRead(x)
  BY <1>7 DEF FailRead, Goto
<1>8. CASE FailUpdate(x)
  BY <1>8 DEF FailUpdate, Goto
<1>9. CASE Report(x)
  BY <1>9 DEF Report, Free, Attached, Conclude, AttemptFailed
<1>10. CASE TimeOut(x)
  BY <1>10 DEF TimeOut, Attached, Conclude, AttemptFailed, Trouble
<1>11. CASE HandlerFails(x)
  BY <1>11, UnlockType, HandlerFrame DEF HandlerFails, Trouble
<1>12. CASE FailureUnrecorded(x)
  BY <1>12 DEF FailureUnrecorded, Goto, Trouble
<1>13. CASE ExecGone(x)
  BY <1>13 DEF ExecGone, Free, Unlock, Trouble
<1> QED BY <1>1, <1>2, <1>3, <1>4, <1>5, <1>6, <1>7, <1>8, <1>9, <1>10, <1>11, <1>12, <1>13
        DEF Handle

LEMMA NextQueue == ASSUME QueueInv, [Next]_vars PROVE QueueInv'
<1> USE EventAssumption, LimitAssumption
    DEF QueueInv, TypeOK, RunnerIsActive, RetriesLeft, KnowsItsEvent, EventStatus,
        dbVars, redisVars, pubVars, execVars
<1>1. ASSUME NEW e \in Event, Accept(e) PROVE QueueInv'
  BY <1>1 DEF Accept
<1>2. ASSUME NEW e \in Event, Stalled(e) PROVE QueueInv'
  BY <1>2 DEF Stalled, Trouble
<1>3. ASSUME NEW e \in Event, Evict(e) PROVE QueueInv'
  BY <1>3 DEF Evict, Trouble
<1>4. CASE ChangeTenant
  BY <1>4 DEF ChangeTenant
<1>5. CASE UNCHANGED vars
  BY <1>5 DEF vars
<1> QED BY <1>1, <1>2, <1>3, <1>4, <1>5, PublishQueue, HandleQueue DEF Next, Mishap

(* Every variable keeps its type; in particular a job never makes more         *)
(* attempts than BullMQ allows it, however executions, deadlines and stalls    *)
(* overlap.                                                                    *)
THEOREM TypeCorrect == Spec => []TypeOK
<1>1. QueueInv /\ [Next]_vars => QueueInv'
  BY NextQueue
<1>2. QueueInv => TypeOK
  BY DEF QueueInv
<1> QED BY InitQueue, <1>1, <1>2, PTL DEF Spec

LEMMA QueueInvariant == Spec => []QueueInv
<1>1. QueueInv /\ [Next]_vars => QueueInv'
  BY NextQueue
<1> QED BY InitQueue, <1>1, PTL DEF Spec

-----------------------------------------------------------------------------
(* One transaction writes the observation *)

\* Steps that leave the observation, the locks and the handlers alone.
LEMMA OnceFrame ==
  ASSUME OnceInv, UNCHANGED <<normalized, exec, execEvent, lock>>
  PROVE  OnceInv'
BY DEF OnceInv, HoldsTheRow, InsertsTheFirst, NormalizedOnce

\* A handler outside its transaction, or one that leaves it and unlocks the row.
LEMMA OnceLeaves ==
  ASSUME QueueInv, OnceInv, NEW x \in Exec, UNCHANGED normalized,
         exec'[x] \notin {"look", "insert", "skip"},
         \A y \in Exec \ {x} : exec'[y] = exec[y] /\ execEvent'[y] = execEvent[y],
         \A e \in Event : lock[e] # x => lock'[e] = lock[e]
  PROVE  OnceInv'
BY DEF QueueInv, KnowsItsEvent, OnceInv, HoldsTheRow, InsertsTheFirst, NormalizedOnce

LEMMA HandleOnce ==
  ASSUME QueueInv, OnceInv, NEW x \in Exec, Handle(x)
  PROVE  OnceInv'
<1> USE EventAssumption DEF QueueInv, TypeOK, KnowsItsEvent
<1>1. CASE Read(x) \/ Check(x)
  BY <1>1, OnceLeaves DEF Read, Check, Settle, Goto, Free, dbVars, Handling
<1>2. CASE FailRead(x) \/ FailUpdate(x) \/ Report(x)
  BY <1>2, OnceLeaves DEF FailRead, FailUpdate, Report, Goto, Free, dbVars
<1>3. CASE Lock(x)
  BY <1>3 DEF Lock, Goto, dbVars, OnceInv, HoldsTheRow, InsertsTheFirst, NormalizedOnce
<1>4. CASE Look(x)
  <2>1. CASE Goto(x, "skip") /\ UNCHANGED lock
    BY <1>4, <2>1 DEF Look, Goto, dbVars, OnceInv, HoldsTheRow, InsertsTheFirst, NormalizedOnce
  <2>2. CASE Goto(x, "insert") /\ UNCHANGED lock /\ ~(normalized[execEvent[x]] > 0)
    BY <1>4, <2>2 DEF Look, Goto, dbVars, OnceInv, HoldsTheRow, InsertsTheFirst, NormalizedOnce
  <2>3. CASE Settle(x, "failRead") /\ Unlock(x)
    BY <1>4, <2>3, OnceLeaves DEF Look, Settle, Goto, Free, Unlock, dbVars
  <2> QED BY <1>4, <2>1, <2>2, <2>3 DEF Look
<1>5. CASE Commit(x)
  <2>1. /\ exec'[x] \in {"free", "ok", "error"}
        /\ \A y \in Exec \ {x} : exec'[y] = exec[y] /\ execEvent'[y] = execEvent[y]
    BY <1>5 DEF Commit, Settle, Goto, Free
  <2>2. /\ \A e \in Event \ {execEvent[x]} : normalized'[e] = normalized[e]
        /\ normalized'[execEvent[x]] =< 1
    BY <1>5 DEF Commit, OnceInv, InsertsTheFirst, NormalizedOnce
  <2>3. /\ lock[execEvent[x]] = x
        /\ \A e \in Event : lock[e] # x => lock'[e] = lock[e]
    BY <1>5 DEF Commit, Unlock, OnceInv, HoldsTheRow
  <2> QED BY <2>1, <2>2, <2>3, <1>5 DEF Commit, OnceInv, HoldsTheRow, InsertsTheFirst, NormalizedOnce
<1> QED BY <1>1, <1>2, <1>3, <1>4, <1>5 DEF Handle

LEMMA NextOnce == ASSUME QueueInv, OnceInv, [Next]_vars PROVE OnceInv'
<1>1. ASSUME NEW p \in Publisher,
             Publish(p) \/ MarkFails(p) \/ PublisherDies(p) \/ \E e \in Event : Pick(p, e)
      PROVE OnceInv'
  BY <1>1, OnceFrame
     DEF Publish, ReadRow, Add, MarkPublished, MarkQueued, PublishFailed, MarkFails, PublisherDies,
         Pick, dbVars, execVars
<1>2. ASSUME NEW e \in Event, Accept(e) \/ Stalled(e) \/ Evict(e) PROVE OnceInv'
  BY <1>2, OnceFrame DEF Accept, Stalled, Evict, dbVars, execVars
<1>3. ASSUME NEW x \in Exec, NEW e \in Event, Take(x, e) PROVE OnceInv'
  BY <1>3, OnceLeaves DEF Take, dbVars, QueueInv, TypeOK
<1>4. ASSUME NEW x \in Exec,
             TimeOut(x) \/ HandlerFails(x) \/ FailureUnrecorded(x) \/ ExecGone(x)
      PROVE OnceInv'
  <2>1. CASE TimeOut(x)
    BY <2>1, OnceFrame DEF TimeOut, dbVars
  <2>2. CASE HandlerFails(x) \/ FailureUnrecorded(x) \/ ExecGone(x)
    BY <2>2, OnceLeaves
       DEF HandlerFails, FailureUnrecorded, ExecGone, Settle, Goto, Free, Unlock, dbVars, QueueInv, TypeOK
  <2> QED BY <1>4, <2>1, <2>2
<1>5. CASE ChangeTenant \/ UNCHANGED vars
  BY <1>5, OnceFrame DEF ChangeTenant, vars, dbVars, execVars
<1> QED BY <1>1, <1>2, <1>3, <1>4, <1>5, HandleOnce DEF Next, Mishap

(* However many executions of an event's job run at the same time, timed out   *)
(* and abandoned ones included, one transaction writes its observation.        *)
THEOREM NormalizedByOneTransaction == Spec => []NormalizedOnce
<1>1. Init => OnceInv
  BY DEF Init, OnceInv, HoldsTheRow, InsertsTheFirst, NormalizedOnce
<1>2. QueueInv /\ OnceInv /\ [Next]_vars => OnceInv'
  BY NextOnce
<1>3. OnceInv => NormalizedOnce
  BY DEF OnceInv
<1> QED BY <1>1, <1>2, <1>3, QueueInvariant, PTL DEF Spec

-----------------------------------------------------------------------------
(* What BullMQ may forget is normalized *)

LEMMA DoneFrame ==
  ASSUME DoneInv,
         \A e \in Event : normalized[e] > 0 => normalized'[e] > 0,
         \A e \in Event : event'[e] = "processed" => event[e] = "processed",
         \A e \in Event : job'[e] = "completed" => job[e] = "completed",
         \A x \in Exec : exec'[x] \in {"skip", "ok"} =>
           exec[x] = exec'[x] /\ execEvent'[x] = execEvent[x] /\ execEvent[x] \in Event
  PROVE  DoneInv'
BY DEF DoneInv, ProcessedWasNormalized, DoneWasNormalized, CompletedWasNormalized

LEMMA PublishDone ==
  ASSUME QueueInv, DoneInv, NEW p \in Publisher,
         \/ Publish(p) \/ MarkFails(p) \/ PublisherDies(p)
         \/ \E e \in Event : Pick(p, e)
  PROVE  DoneInv'
<1> USE DEF QueueInv, TypeOK, KnowsItsEvent, dbVars, redisVars, execVars
<1>1. CASE MarkQueued(p)
  BY <1>1, DoneFrame DEF MarkQueued
<1>2. CASE Add(p)
  BY <1>2, DoneFrame DEF Add, AddJob
<1>3. CASE ~MarkQueued(p) /\ ~Add(p)
  BY <1>3, DoneFrame
     DEF Publish, ReadRow, MarkPublished, PublishFailed, MarkFails, PublisherDies, Pick
<1> QED BY <1>1, <1>2, <1>3

LEMMA HandleDone ==
  ASSUME QueueInv, DoneInv, NEW x \in Exec, Handle(x)
  PROVE  DoneInv'
<1> USE DEF QueueInv, TypeOK, KnowsItsEvent, Settle, Goto, Free, dbVars, redisVars
<1>1. CASE Read(x)
  BY <1>1 DEF Read, DoneInv, ProcessedWasNormalized, DoneWasNormalized, CompletedWasNormalized
<1>2. CASE Check(x) \/ Lock(x)
  BY <1>2, DoneFrame DEF Check, Lock
<1>3. CASE Look(x)
  BY <1>3 DEF Look, DoneInv, ProcessedWasNormalized, DoneWasNormalized, CompletedWasNormalized
<1>4. CASE Commit(x)
  <2>1. /\ \A e \in Event : normalized[e] > 0 => normalized'[e] > 0
        /\ normalized'[execEvent[x]] > 0
    BY <1>4 DEF Commit, DoneInv, DoneWasNormalized
  <2>2. /\ exec'[x] = "ok" => execEvent'[x] = execEvent[x]
        /\ exec'[x] # "skip"
        /\ \A y \in Exec \ {x} : exec'[y] = exec[y] /\ execEvent'[y] = execEvent[y]
    BY <1>4 DEF Commit
  <2>3. /\ UNCHANGED job
        /\ \A e \in Event : event'[e] = "processed" => event[e] = "processed" \/ e = execEvent[x]
    BY <1>4 DEF Commit
  <2> QED BY <2>1, <2>2, <2>3
          DEF DoneInv, ProcessedWasNormalized, DoneWasNormalized, CompletedWasNormalized
<1>5. CASE FailRead(x) \/ FailUpdate(x)
  BY <1>5, DoneFrame DEF FailRead, FailUpdate
<1>6. CASE Report(x)
  <2>1. \A e \in Event : job'[e] = "completed" =>
          job[e] = "completed" \/ (exec[x] = "ok" /\ e = execEvent[x])
    BY <1>6 DEF Report, Conclude, AttemptFailed
  <2> QED BY <1>6, <2>1
          DEF Report, DoneInv, ProcessedWasNormalized, DoneWasNormalized, CompletedWasNormalized
<1> QED BY <1>1, <1>2, <1>3, <1>4, <1>5, <1>6 DEF Handle

LEMMA NextDone == ASSUME QueueInv, DoneInv, [Next]_vars PROVE DoneInv'
<1> USE DEF QueueInv, TypeOK, KnowsItsEvent, dbVars, redisVars, execVars
<1>1. ASSUME NEW e \in Event, Accept(e) \/ Stalled(e) \/ Evict(e) PROVE DoneInv'
  BY <1>1, DoneFrame DEF Accept, Stalled, Evict
<1>2. ASSUME NEW x \in Exec, NEW e \in Event, Take(x, e) PROVE DoneInv'
  BY <1>2, DoneFrame DEF Take
<1>3. ASSUME NEW x \in Exec,
             TimeOut(x) \/ HandlerFails(x) \/ FailureUnrecorded(x) \/ ExecGone(x)
      PROVE DoneInv'
  <2>1. CASE TimeOut(x)
    BY <2>1, DoneFrame DEF TimeOut, AttemptFailed, Conclude
  <2>2. CASE HandlerFails(x) \/ FailureUnrecorded(x) \/ ExecGone(x)
    BY <2>2, DoneFrame DEF HandlerFails, FailureUnrecorded, ExecGone, Settle, Goto, Free
  <2> QED BY <1>3, <2>1, <2>2
<1>4. CASE ChangeTenant \/ UNCHANGED vars
  BY <1>4, DoneFrame DEF ChangeTenant, vars
<1> QED BY <1>1, <1>2, <1>3, <1>4, PublishDone, HandleDone DEF Next, Mishap

LEMMA DoneInvariant == Spec => []DoneInv
<1>1. Init => DoneInv
  BY DEF Init, DoneInv, ProcessedWasNormalized, DoneWasNormalized, CompletedWasNormalized
<1>2. QueueInv /\ DoneInv /\ [Next]_vars => DoneInv'
  BY NextDone
<1> QED BY <1>1, <1>2, QueueInvariant, PTL DEF Spec

(* A job that BullMQ keeps as completed, and may forget, belongs to an event   *)
(* whose observation is committed.                                             *)
THEOREM CompletedIsNormalized == Spec => []CompletedWasNormalized
<1>1. DoneInv => CompletedWasNormalized
  BY DEF DoneInv
<1> QED BY <1>1, DoneInvariant, PTL

-----------------------------------------------------------------------------
(* No accepted event is lost *)

LEMMA LossFrame ==
  ASSUME QueueInv, LossInv, UNCHANGED <<event, outbox, pubVars>>,
         \A e \in Event : normalized[e] > 0 => normalized'[e] > 0,
         \A e \in Event : job'[e] # "none" <=> job[e] # "none",
         \A x \in Exec : exec'[x] # "free" => exec[x] # "free" /\ execEvent'[x] = execEvent[x]
  PROVE  LossInv'
BY DEF QueueInv, TypeOK, KnowsItsEvent, LossInv, Accepted, MarksWhatItAdded, NothingLost, pubVars

LEMMA PublishLoss ==
  ASSUME QueueInv, LossInv, NEW p \in Publisher,
         \/ Publish(p) \/ MarkFails(p) \/ PublisherDies(p)
         \/ \E e \in Event : Pick(p, e)
  PROVE  LossInv'
<1> USE EventAssumption
    DEF QueueInv, TypeOK, KnowsItsEvent, LossInv, Accepted, MarksWhatItAdded, NothingLost, PubGoto,
        dbVars, redisVars, execVars
<1>1. CASE \E e \in Event : Pick(p, e)
  BY <1>1 DEF Pick
<1>2. CASE ReadRow(p)
  BY <1>2 DEF ReadRow
<1>3. CASE Add(p)
  BY <1>3 DEF Add, AddJob
<1>4. CASE MarkPublished(p)
  BY <1>4 DEF MarkPublished
<1>5. CASE MarkQueued(p)
  BY <1>5 DEF MarkQueued
<1>6. CASE PublishFailed(p)
  BY <1>6 DEF PublishFailed
<1>7. CASE MarkFails(p) \/ PublisherDies(p)
  BY <1>7 DEF MarkFails, PublisherDies
<1> QED BY <1>1, <1>2, <1>3, <1>4, <1>5, <1>6, <1>7 DEF Publish

LEMMA HandleLoss ==
  ASSUME QueueInv, LossInv, NEW x \in Exec, Handle(x)
  PROVE  LossInv'
<1> USE DEF QueueInv, TypeOK, KnowsItsEvent, Settle, Goto, Free, dbVars, redisVars
<1>1. CASE Read(x) \/ Check(x) \/ Lock(x) \/ FailRead(x)
  BY <1>1, LossFrame DEF Read, Check, Lock, FailRead
<1>2. CASE Look(x)
  BY <1>2, LossFrame DEF Look
<1>3. CASE Commit(x) \/ FailUpdate(x)
  BY <1>3 DEF Commit, FailUpdate, pubVars, LossInv, Accepted, MarksWhatItAdded, NothingLost
<1>4. CASE Report(x)
  <2>1. \A e \in Event : job'[e] # "none" <=> job[e] # "none"
    BY <1>4, EventAssumption DEF Report, Conclude, AttemptFailed, Attached, RunnerIsActive
  <2> QED BY <1>4, <2>1, LossFrame DEF Report
<1> QED BY <1>1, <1>2, <1>3, <1>4 DEF Handle

\* Forgetting a completed job loses nothing: its event is normalized.
LEMMA EvictLoss ==
  ASSUME QueueInv, DoneInv, LossInv, NEW e \in Event, Evict(e)
  PROVE  LossInv'
BY DEF Evict, QueueInv, TypeOK, DoneInv, CompletedWasNormalized, LossInv, Accepted,
   MarksWhatItAdded, NothingLost, dbVars, pubVars, execVars

LEMMA NextLoss == ASSUME QueueInv, DoneInv, LossInv, [Next]_vars PROVE LossInv'
<1> USE EventAssumption DEF QueueInv, TypeOK, KnowsItsEvent, RunnerIsActive, dbVars, redisVars, execVars
<1>1. ASSUME NEW e \in Event, Accept(e) PROVE LossInv'
  BY <1>1 DEF Accept, pubVars, LossInv, Accepted, MarksWhatItAdded, NothingLost
<1>2. ASSUME NEW e \in Event, Stalled(e) PROVE LossInv'
  BY <1>2, LossFrame DEF Stalled
<1>3. ASSUME NEW x \in Exec, NEW e \in Event, Take(x, e) PROVE LossInv'
  BY <1>3 DEF Take, pubVars, LossInv, Accepted, MarksWhatItAdded, NothingLost
<1>4. ASSUME NEW x \in Exec,
             TimeOut(x) \/ HandlerFails(x) \/ FailureUnrecorded(x) \/ ExecGone(x)
      PROVE LossInv'
  <2>1. CASE TimeOut(x)
    BY <2>1, LossFrame DEF TimeOut, Attached, AttemptFailed, Conclude
  <2>2. CASE HandlerFails(x)
    <3>1. \A y \in Exec : exec'[y] # "free" => exec[y] # "free" /\ execEvent'[y] = execEvent[y]
      BY <2>2 DEF HandlerFails, Settle, Goto, Free, Handling
    <3> QED BY <2>2, <3>1, LossFrame DEF HandlerFails
  <2>3. CASE FailureUnrecorded(x) \/ ExecGone(x)
    <3>1. \A y \in Exec : exec'[y] # "free" => exec[y] # "free" /\ execEvent'[y] = execEvent[y]
      BY <2>3 DEF FailureUnrecorded, ExecGone, Goto, Free
    <3> QED BY <2>3, <3>1, LossFrame DEF FailureUnrecorded, ExecGone
  <2> QED BY <1>4, <2>1, <2>2, <2>3
<1>5. CASE ChangeTenant \/ UNCHANGED vars
  BY <1>5, LossFrame DEF ChangeTenant, vars
<1> QED BY <1>1, <1>2, <1>3, <1>4, <1>5, PublishLoss, HandleLoss, EvictLoss DEF Next, Mishap

(* An accepted event is normalized, in the outbox where the sweep or the owner *)
(* finds it, or known to Redis, whatever crashes, fails or is forgotten.       *)
THEOREM NoEventIsLost == Spec => []NothingLost
<1>1. Init => LossInv
  BY DEF Init, LossInv, Accepted, MarksWhatItAdded, NothingLost
<1>2. QueueInv /\ DoneInv /\ LossInv /\ [Next]_vars => LossInv'
  BY NextLoss
<1>3. LossInv => NothingLost
  BY DEF LossInv
<1> QED BY <1>1, <1>2, <1>3, QueueInvariant, DoneInvariant, PTL DEF Spec
=============================================================================
