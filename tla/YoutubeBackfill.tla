----------------------------- MODULE YoutubeBackfill -----------------------------
(***************************************************************************)
(* The twelve-month backfill of monitored YouTube channels.  A run is one    *)
(* provider_sync_run row of a channel: limit_count is what the daily cap     *)
(* sums, the checkpoint is where the channel's next run resumes.  Batches    *)
(* overlap (it runs outside the provider lease's reach, and a claim is only  *)
(* good for half an hour); here a batch reads one channel at a time, on the  *)
(* checkpoint its selection read any time before.  The shared data bucket    *)
(* may refuse any request; one that was sent and failed is spent all the same. *)
(***************************************************************************)
EXTENDS Integers, FiniteSets, Sequences, FiniteSetsExt

CONSTANTS Batch, Channel,
          Budget,       \* YOUTUBE_BACKFILL_REQUESTS_PER_DAY
          MaxPages,     \* pages per run
          Window,       \* pages of a channel that are not older than the cutoff
          Videos,       \* videos of a page
          ClaimTime, Day,               \* in ticks
          MaxRuns, LastTick,            \* bounds
          Null

Outcome == {"channel_unavailable", "reached_cutoff", "not_found"}

Assumptions ==
  /\ {Budget, MaxPages, Window, ClaimTime, Day, MaxRuns, LastTick} \subseteq Nat \ {0}
  /\ Null \notin Outcome

VARIABLES
  clock,
  allowed,     \* channel -> monitored, trusted, and the provider not paused
  runs,        \* the provider_sync_run rows, by started_at
  batch,       \* batch -> the run it executes: see Waiting
  stored,      \* channel -> <<page, video>> ingested
  extra        \* ghost: day -> requests sent beyond the row's limit_count, <<run, nth of the run>>

vars == <<clock, allowed, runs, batch, stored, extra>>

FirstState == [playlist |-> FALSE, page |-> 1, outcome |-> Null]
Waiting == [pc |-> "wait", channel |-> Null, state |-> FirstState, run |-> 0,
            reserve |-> 0, pages |-> 0, todo |-> {}]
Done(state) == state.outcome \in Outcome
DayOf(t) == t \div Day
PageOf(p) == {p} \X Videos

Init ==
  /\ clock = 0 /\ runs = <<>>
  /\ allowed = [c \in Channel |-> TRUE]
  /\ batch = [b \in Batch |-> Waiting]
  /\ stored = [c \in Channel |-> {}]
  /\ extra = [d \in 0..DayOf(LastTick) |-> {}]

RunsOf(c) == {i \in 1..Len(runs) : runs[i].channel = c}
RunsOn(d) == {i \in 1..Len(runs) : DayOf(runs[i].at) = d}
Running(i) == runs[i].status = "started" /\ runs[i].at > clock - ClaimTime

\* The candidates: the newest row of a channel is its state.
SelectChannel(b, c) ==
  /\ batch[b].pc = "wait" /\ allowed[c]
  /\ IF RunsOf(c) = {} THEN batch' = [batch EXCEPT ![b] = [@ EXCEPT !.pc = "chosen", !.channel = c]]
     ELSE LET last == Max(RunsOf(c)) IN
          /\ ~Done(runs[last].state) /\ ~Running(last)
          /\ batch' = [batch EXCEPT ![b] =
               [@ EXCEPT !.pc = "chosen", !.channel = c, !.state = runs[last].state]]
  /\ UNCHANGED <<clock, allowed, runs, stored, extra>>

\* The most a run asks for, and what the rows of a day reserve, a member per
\* request.
MaxReserve == MaxPages * 2 + 1
ReservedOn(d) == {q \in RunsOn(d) \X (1..MaxReserve) : q[2] <= runs[q[1]].limit}

\* claimChannelRun, under its advisory lock.
ClaimChannelRun(b) ==
  LET c == batch[b].channel state == batch[b].state
      available == Budget - Cardinality(ReservedOn(DayOf(clock)))
      minimum == IF state.playlist THEN 2 ELSE 3
      reserve == Min({MaxReserve, available})
  IN
  /\ batch[b].pc = "chosen"
  /\ IF available < minimum \/ \E i \in RunsOf(c) : Running(i)
     THEN batch' = [batch EXCEPT ![b] = Waiting] /\ UNCHANGED runs
     ELSE /\ Len(runs) < MaxRuns
          /\ runs' = Append(runs, [channel |-> c, at |-> clock, status |-> "started",
                                   limit |-> reserve, state |-> state, sent |-> 0])
          /\ batch' = [batch EXCEPT ![b] =
               [@ EXCEPT !.pc = "read", !.run = Len(runs) + 1, !.reserve = reserve]]
  /\ UNCHANGED <<clock, allowed, stored, extra>>

Run(b) == runs[batch[b].run]

\* A request of the run, beyond what its row reserves or not.
CountRequest(b) ==
  LET next == Run(b).sent + 1 IN
  extra' = [extra EXCEPT ![DayOf(Run(b).at)] =
              @ \cup (IF next > Run(b).limit THEN {<<batch[b].run, next>>} ELSE {})]

Send(b) == runs' = [runs EXCEPT ![batch[b].run].sent = @ + 1] /\ CountRequest(b)

Reading(b) == batch[b].pc = "read" /\ ~Done(batch[b].state)

\* getUploadsPlaylistId; without a playlist the channel is done.
FindUploads(b) ==
  /\ Reading(b) /\ ~batch[b].state.playlist
  /\ Send(b)
  /\ \/ batch' = [batch EXCEPT ![b].state.playlist = TRUE]
     \/ batch' = [batch EXCEPT ![b].state.outcome = "channel_unavailable"]
  /\ UNCHANGED <<clock, allowed, stored>>

\* Mutant: one request left is taken to be enough for a page.
MorePagesForOne(b) ==
  /\ Reading(b) /\ batch[b].state.playlist
  /\ batch[b].pages < MaxPages /\ batch[b].reserve - Run(b).sent >= 1

MorePages(b) ==
  /\ Reading(b) /\ batch[b].state.playlist
  /\ batch[b].pages < MaxPages /\ batch[b].reserve - Run(b).sent >= 2

\* A page: beyond the window it has no video to ask the details of.
ReadPage(b) ==
  LET p == batch[b].state.page IN
  /\ MorePages(b) /\ allowed[batch[b].channel]
  /\ Send(b)
  /\ batch' = [batch EXCEPT ![b].pc = IF p <= Window THEN "details" ELSE "store",
                            ![b].pages = @ + 1]
  /\ UNCHANGED <<clock, allowed, stored>>

ReadDetails(b) ==
  /\ batch[b].pc = "details"
  /\ Send(b)
  /\ batch' = [batch EXCEPT ![b].pc = "store", ![b].todo = PageOf(batch[b].state.page)]
  /\ UNCHANGED <<clock, allowed, stored>>

\* ingestBackfilledVideo: one transaction.
StoreVideo(b, v) ==
  /\ batch[b].pc = "store" /\ v \in batch[b].todo
  /\ stored' = [stored EXCEPT ![batch[b].channel] = @ \cup {v}]
  /\ batch' = [batch EXCEPT ![b].todo = @ \ {v}]
  /\ UNCHANGED <<clock, allowed, runs, extra>>

\* The end of a page: the next page token, and saveRun, which also sets
\* limit_count to the requests so far though the run goes on.
SavePage(b) ==
  LET p == batch[b].state.page
      next(outcome) == [batch[b].state EXCEPT !.page = p + 1, !.outcome = outcome]
  IN
  /\ batch[b].pc = "store" /\ batch[b].todo = {}
  /\ \E outcome \in {Null, "reached_cutoff"} :
       /\ p < Window => outcome = Null
       /\ p > Window => outcome # Null
       /\ runs' = [runs EXCEPT ![batch[b].run] =
                    [@ EXCEPT !.limit = Run(b).sent, !.state = next(outcome)]]
       /\ batch' = [batch EXCEPT ![b] = [@ EXCEPT !.pc = "read", !.state = next(outcome)]]
  /\ UNCHANGED <<clock, allowed, stored, extra>>

\* The last saveRun of a run that has sent n requests.
Finish(b, status, state, n) ==
  /\ runs' = [runs EXCEPT ![batch[b].run] =
               [@ EXCEPT !.status = status, !.sent = n, !.limit = n, !.state = state]]
  /\ batch' = [batch EXCEPT ![b] = Waiting]

\* The loop is over: done, its pages or its requests used up, or an operator
\* paused the provider or excluded the creator.
EndRun(b) ==
  /\ batch[b].pc = "read" /\ (batch[b].state.playlist \/ Done(batch[b].state))
  /\ MorePages(b) => ~allowed[batch[b].channel]
  /\ Finish(b, "completed", batch[b].state, Run(b).sent)
  /\ UNCHANGED <<clock, allowed, stored, extra>>

\* Mutant: a page that cannot be stored is not read again.
AfterFailureSkipped(state) == [state EXCEPT !.page = @ + 1]

\* An exception leaves the state where the last page saved it.
AfterFailure(state) == state

\* A request is due: the uploads playlist, a page or its details.
Requesting(b) ==
  \/ Reading(b) /\ ~batch[b].state.playlist
  \/ MorePages(b) /\ allowed[batch[b].channel]
  \/ batch[b].pc = "details"

\* reserveDiscoveryRequest refuses it: nothing is sent.
RequestRefused(b) ==
  /\ Requesting(b)
  /\ Finish(b, "completed", AfterFailure(batch[b].state), Run(b).sent)
  /\ UNCHANGED <<clock, allowed, stored, extra>>

\* It is sent and fails; what is not found is finished for good.
RequestFails(b) ==
  /\ Requesting(b)
  /\ CountRequest(b)
  /\ \/ Finish(b, "failed", AfterFailure(batch[b].state), Run(b).sent + 1)
     \/ Finish(b, "completed", [batch[b].state EXCEPT !.outcome = "not_found"], Run(b).sent + 1)
  /\ UNCHANGED <<clock, allowed, stored>>

StoreFails(b) ==
  /\ batch[b].pc = "store" /\ batch[b].todo # {}
  /\ Finish(b, "failed", AfterFailure(batch[b].state), Run(b).sent)
  /\ UNCHANGED <<clock, allowed, stored, extra>>

BatchDies(b) ==
  /\ batch[b].pc # "wait"
  /\ batch' = [batch EXCEPT ![b] = Waiting]
  /\ UNCHANGED <<clock, allowed, runs, stored, extra>>

\* An operator's decision on the creator or the provider.
Forbid(c) ==
  /\ allowed[c] /\ allowed' = [allowed EXCEPT ![c] = FALSE]
  /\ UNCHANGED <<clock, runs, batch, stored, extra>>

Tick ==
  /\ clock < LastTick /\ clock' = clock + 1
  /\ UNCHANGED <<allowed, runs, batch, stored, extra>>

Next ==
  \/ \E b \in Batch :
       \/ ClaimChannelRun(b) \/ FindUploads(b) \/ ReadPage(b) \/ ReadDetails(b)
       \/ SavePage(b) \/ EndRun(b) \/ RequestRefused(b) \/ RequestFails(b)
       \/ StoreFails(b) \/ BatchDies(b)
       \/ \E c \in Channel : SelectChannel(b, c)
       \/ \E v \in (1..Window) \X Videos : StoreVideo(b, v)
  \/ \E c \in Channel : Forbid(c)
  \/ Tick

Spec == Init /\ [][Next]_vars

-----------------------------------------------------------------------------
\* Every variable holds a value of its kind; no run sends more than it reserved.
TypeOK ==
  /\ clock \in 0..LastTick /\ allowed \in [Channel -> BOOLEAN]
  /\ \A i \in 1..Len(runs) : /\ runs[i].channel \in Channel /\ runs[i].at \in 0..clock
                             /\ runs[i].status \in {"started", "completed", "failed"}
                             /\ runs[i].sent <= MaxReserve
  /\ \A b \in Batch : /\ batch[b].pc \in {"wait", "chosen", "read", "details", "store"}
                      /\ batch[b].run # 0 => Run(b).sent <= batch[b].reserve
  /\ \A c \in Channel : stored[c] \subseteq (1..Window) \X Videos

\* "The backfill itself may use at most" the day's cap: it uses more only by
\* what a run that goes on sends after saveRun has given its reservation back.
WithinDailyBudget ==
  \A d \in DOMAIN extra :
    Cardinality({q \in RunsOn(d) \X (1..MaxReserve) : q[2] <= runs[q[1]].sent})
      <= Budget + Cardinality(extra[d])

\* Whatever fails, dies or overlaps, a channel's saved page token never lies
\* beyond a page whose videos were not all stored, and a year that is said to
\* be done to its cutoff is.
VideosStored ==
  \A i \in 1..Len(runs) :
    LET state == runs[i].state IN
    \A p \in 1..Window :
      p < state.page \/ state.outcome = "reached_cutoff" => PageOf(p) \subseteq stored[runs[i].channel]

=============================================================================
