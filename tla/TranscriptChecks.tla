---------------------------- MODULE TranscriptChecks ----------------------------
(***************************************************************************)
(* The transcript backfill of stored videos.  A check is one                 *)
(* provider_sync_run row per video, claimed (with the requests it may need   *)
(* reserved in the day's budget) before anything is fetched, corrected when  *)
(* the fetch has answered, and finished when its mentions are stored: four   *)
(* transactions a crash may separate.  Batches of two workers overlap.  A    *)
(* fetch never lasts a day.                                                  *)
(***************************************************************************)
EXTENDS Integers, FiniteSets

CONSTANTS Worker, Video,
          Reserve,       \* fetcher.maxRequestsPerVideo
          Budget,        \* requests per day
          MaxAttempts,   \* TRANSCRIPT_MAX_ATTEMPTS
          Day,           \* ticks of a day
          LastTick,      \* bound
          Null

Assumptions ==
  /\ {Reserve, Budget, MaxAttempts, Day, LastTick} \subseteq Nat \ {0}
  /\ IsFiniteSet(Video) /\ Null \notin Video

VARIABLES
  clock,
  row,      \* video -> its row; status "none" before the first claim
  worker,   \* worker -> [pc, video, result, requests]
  stored,   \* videos whose mentions were stored
  sent      \* ghost: day -> requests sent for claims of that day, <<video, nth of the claim>>

vars == <<clock, row, worker, stored, sent>>

Resting == [pc |-> "rest", video |-> Null, result |-> Null, requests |-> 0]
Between == [Resting EXCEPT !.pc = "batch"]
DayOf(t) == t \div Day

Init ==
  /\ clock = 0 /\ stored = {}
  /\ row = [v \in Video |-> [status |-> "none", at |-> 0, attempts |-> 0, limit |-> 0, limited |-> FALSE]]
  /\ worker = [w \in Worker |-> Resting]
  /\ sent = [d \in 0..DayOf(LastTick) |-> {}]

Today == {v \in Video : row[v].status # "none" /\ DayOf(row[v].at) = DayOf(clock)}

\* A batch starts unless the provider has limited a check of today.
StartBatch(w) ==
  /\ worker[w].pc = "rest"
  /\ \A v \in Today : ~row[v].limited
  /\ worker' = [worker EXCEPT ![w] = Between]
  /\ UNCHANGED <<clock, row, stored, sent>>

\* What the rows of today reserve, a member per request, and their sum.
Reserved == {q \in Today \X (1..Reserve) : q[2] <= row[q[1]].limit}
UsedToday == Cardinality(Reserved)

Claimable(v) ==
  \/ row[v].status = "none"
  \/ /\ row[v].status \notin {"completed", "skipped"}
     /\ row[v].at <= clock - Day
     /\ row[v].attempts < MaxAttempts

\* claimTranscriptCheck, under its advisory lock.
ClaimCheck(w, v) ==
  /\ worker[w].pc = "batch"
  /\ UsedToday + Reserve <= Budget
  /\ Claimable(v)
  /\ row' = [row EXCEPT ![v] = [status |-> "started", at |-> clock, attempts |-> @.attempts + 1,
                                limit |-> Reserve, limited |-> FALSE]]
  /\ worker' = [worker EXCEPT ![w] = [@ EXCEPT !.pc = "fetch", !.video = v]]
  /\ UNCHANGED <<clock, stored, sent>>

\* The budget is spent, or the candidates are.
EndBatch(w) ==
  /\ worker[w].pc = "batch"
  /\ worker' = [worker EXCEPT ![w] = Resting]
  /\ UNCHANGED <<clock, row, stored, sent>>

Result == {"ok", "unavailable", "rate_limited", "error"}

Fetch(w, n, result) ==
  /\ worker[w].pc = "fetch" /\ n \in 1..Reserve
  /\ result \in Result
  /\ sent' = [sent EXCEPT ![DayOf(row[worker[w].video].at)] = @ \cup ({worker[w].video} \X (1..n))]
  /\ worker' = [worker EXCEPT ![w] = [@ EXCEPT !.pc = "fetched", !.result = result, !.requests = n]]
  /\ UNCHANGED <<clock, row, stored>>

\* What the fetch did not use is given back.
GiveBack(w) ==
  /\ worker[w].pc = "fetched"
  /\ row' = [row EXCEPT ![worker[w].video].limit = worker[w].requests]
  /\ worker' = [worker EXCEPT ![w] =
       [@ EXCEPT !.pc = IF worker[w].result = "ok" THEN "store" ELSE "finish", !.requests = 0]]
  /\ UNCHANGED <<clock, stored, sent>>

\* storeTranscriptMentions: stable ids, so a second time adds nothing.
Store(w) ==
  /\ worker[w].pc = "store"
  /\ \/ stored' = stored \cup {worker[w].video} /\ worker' = [worker EXCEPT ![w].pc = "finish"]
     \/ worker' = [worker EXCEPT ![w] = [@ EXCEPT !.pc = "finish", !.result = "ingest_failed"]]
        /\ UNCHANGED stored
  /\ UNCHANGED <<clock, row, sent>>

Status(result) ==
  IF result = "ok" THEN "completed" ELSE IF result = "unavailable" THEN "skipped" ELSE "failed"

\* finishTranscriptCheck; the batch goes on unless the provider limited it or the
\* mentions could not be stored.
FinishCheck(w) ==
  LET result == worker[w].result IN
  /\ worker[w].pc = "finish"
  /\ row' = [row EXCEPT ![worker[w].video] =
               [@ EXCEPT !.status = Status(result), !.limited = (result = "rate_limited")]]
  /\ worker' = [worker EXCEPT ![w] =
       IF result \in {"rate_limited", "ingest_failed"} THEN Resting ELSE Between]
  /\ UNCHANGED <<clock, stored, sent>>

WorkerDies(w) ==
  /\ worker[w].pc # "rest"
  /\ worker' = [worker EXCEPT ![w] = Resting]
  /\ UNCHANGED <<clock, row, stored, sent>>

Tick ==
  /\ clock < LastTick /\ clock' = clock + 1
  /\ \A w \in Worker : worker[w].video # Null => clock + 1 < row[worker[w].video].at + Day
  /\ UNCHANGED <<row, worker, stored, sent>>

Next ==
  \/ \E w \in Worker :
       \/ StartBatch(w) \/ EndBatch(w) \/ GiveBack(w) \/ Store(w) \/ FinishCheck(w) \/ WorkerDies(w)
       \/ \E v \in Video : ClaimCheck(w, v)
       \/ \E n \in 1..Reserve, result \in Result : Fetch(w, n, result)
  \/ Tick

Spec == Init /\ [][Next]_vars

-----------------------------------------------------------------------------
\* Every variable holds a value of its kind, the attempts within their limit.
TypeOK ==
  /\ clock \in 0..LastTick /\ stored \subseteq Video
  /\ \A v \in Video : /\ row[v].status \in {"none", "started", "completed", "skipped", "failed"}
                      /\ row[v].at \in 0..clock /\ row[v].attempts \in 0..MaxAttempts
                      /\ row[v].limit \in 0..Reserve /\ row[v].limited \in BOOLEAN
  /\ \A w \in Worker : worker[w].pc \in {"rest", "batch", "fetch", "fetched", "store", "finish"}

\* Two batches never check one video at the same time.
WorkersApart ==
  \A w, x \in Worker : w # x /\ worker[w].video = worker[x].video => worker[w].video = Null

\* The requests for the claims of a day stay within its budget, whatever dies
\* before its reservation was corrected.
WithinDailyBudget == \A d \in DOMAIN sent : Cardinality(sent[d]) <= Budget

\* A check that is completed has its mentions stored, though the two are
\* separate transactions.
CompletedIsStored == \A v \in Video : row[v].status = "completed" => v \in stored

=============================================================================
