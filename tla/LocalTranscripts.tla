----------------------------- MODULE LocalTranscripts -----------------------------
(***************************************************************************)
(* The queue of podcast episodes that helpers outside the platform           *)
(* transcribe.  An episode's job is one provider_sync_run row: a helper      *)
(* claims it, works for hours, and answers.  The API identifies a job by its *)
(* episode only, so a helper whose claim expired may answer for the claim of *)
(* another.                                                                  *)
(***************************************************************************)
EXTENDS Integers, FiniteSets

CONSTANTS Helper, Episode,
          Lease,          \* LOCAL_TRANSCRIPT_LEASE_HOURS, in ticks
          MaxAttempts,    \* LOCAL_TRANSCRIPT_MAX_ATTEMPTS
          MaxReleases,    \* bound: jobs handed back
          LastTick        \* bound

Assumptions == {Lease, MaxAttempts, MaxReleases, LastTick} \subseteq Nat \ {0}

VARIABLES
  clock,
  job,         \* episode -> its row [status, at, attempts]; "none" before the first claim
  eligible,    \* episode -> its account and feed are active and trusted
  work,        \* helper -> episode -> [claim, at] of the claim it works on
  selected,    \* the claim transaction past its SELECT: {} or {[helper, episode, at, raced]},
               \* raced (ghost): an answer for the episode was taken since
  claims,      \* ghost: episode -> claims
  releases,    \* ghost: episode -> claims given back
  transcripts, \* ghost: episode -> transcripts stored
  late,        \* ghost: episode -> answers that ended the claim of another
  reopened     \* ghost: episode -> claims written over an answer they raced with

vars == <<clock, job, eligible, work, selected, claims, releases, transcripts, late, reopened>>

NoWork == [claim |-> 0, at |-> 0]

Init ==
  /\ clock = 0
  /\ job = [e \in Episode |-> [status |-> "none", at |-> 0, attempts |-> 0]]
  /\ eligible = [e \in Episode |-> TRUE]
  /\ work = [h \in Helper |-> [e \in Episode |-> NoWork]]
  /\ claims = [e \in Episode |-> 0] /\ releases = [e \in Episode |-> 0]
  /\ transcripts = [e \in Episode |-> 0] /\ late = [e \in Episode |-> 0]
  /\ selected = {} /\ reopened = [e \in Episode |-> 0]

Held(e) == job[e].status = "started" /\ job[e].at > clock - Lease

\* claimLocalTranscriptJobs, one episode of its batch: the SELECT, under the
\* advisory lock of claims, which answers do not take...
SelectEpisode(h, e) ==
  /\ selected = {} /\ work[h][e] = NoWork
  /\ eligible[e]
  /\ job[e].status \notin {"completed", "skipped"} /\ ~Held(e)
  /\ job[e].attempts < MaxAttempts
  /\ selected' = {[helper |-> h, episode |-> e, at |-> clock, raced |-> FALSE]}
  /\ UNCHANGED <<clock, job, eligible, work, claims, releases, transcripts, late, reopened>>

\* ...and the upsert, which looks at nothing the SELECT has seen.
ClaimEpisode ==
  \E c \in selected :
    LET e == c.episode IN
    /\ job' = [job EXCEPT ![e] = [status |-> "started", at |-> c.at, attempts |-> @.attempts + 1]]
    /\ claims' = [claims EXCEPT ![e] = @ + 1]
    /\ work' = [work EXCEPT ![c.helper][e] = [claim |-> claims[e] + 1, at |-> c.at]]
    /\ reopened' = [reopened EXCEPT ![e] = IF c.raced THEN @ + 1 ELSE @]
    /\ selected' = {}
    /\ UNCHANGED <<clock, eligible, releases, transcripts, late>>

\* The transaction is rolled back.
ClaimDies ==
  /\ selected # {} /\ selected' = {}
  /\ UNCHANGED <<clock, job, eligible, work, claims, releases, transcripts, late, reopened>>

\* Mutant: any answer is taken, whatever the state of the job.
AcceptsAny(e) == job[e].status # "none"

\* submitLocalTranscript, the row FOR UPDATE: only the status is looked at.
Accepts(e) == job[e].status = "started"

Answers(h, e) ==
  /\ work[h][e] # NoWork /\ Accepts(e)
  /\ work' = [work EXCEPT ![h][e] = NoWork]
  /\ late' = [late EXCEPT ![e] = IF work[h][e].claim = claims[e] THEN @ ELSE @ + 1]
  /\ selected' = {[c EXCEPT !.raced = @ \/ c.episode = e] : c \in selected}
  /\ UNCHANGED <<clock, eligible, claims, reopened>>

\* storeTranscriptMentions in the transaction that completes the job.
Transcribed(h, e) ==
  /\ Answers(h, e)
  /\ transcripts' = [transcripts EXCEPT ![e] = @ + 1]
  /\ job' = [job EXCEPT ![e].status = "completed"]
  /\ UNCHANGED releases

Unavailable(h, e) ==
  /\ Answers(h, e)
  /\ job' = [job EXCEPT ![e].status = "skipped"]
  /\ UNCHANGED <<releases, transcripts>>

Failed(h, e) ==
  /\ Answers(h, e)
  /\ job' = [job EXCEPT ![e].status = "failed"]
  /\ UNCHANGED <<releases, transcripts>>

Released(h, e) ==
  /\ releases[e] < MaxReleases
  /\ Answers(h, e)
  /\ job' = [job EXCEPT ![e].status = "failed", ![e].attempts = @ - 1]
  /\ releases' = [releases EXCEPT ![e] = @ + 1]
  /\ UNCHANGED transcripts

\* Refused ("not_claimed").
NotClaimed(h, e) ==
  /\ work[h][e] # NoWork /\ ~Accepts(e)
  /\ work' = [work EXCEPT ![h][e] = NoWork]
  /\ UNCHANGED <<clock, job, eligible, selected, claims, releases, transcripts, late, reopened>>

\* The computer is switched off mid-job, or its answer never arrives.
HelperStops(h, e) ==
  /\ work[h][e] # NoWork
  /\ work' = [work EXCEPT ![h][e] = NoWork]
  /\ UNCHANGED <<clock, job, eligible, selected, claims, releases, transcripts, late, reopened>>

Exclude(e) ==
  /\ eligible[e] /\ eligible' = [eligible EXCEPT ![e] = FALSE]
  /\ UNCHANGED <<clock, job, work, selected, claims, releases, transcripts, late, reopened>>

Tick ==
  /\ clock < LastTick /\ clock' = clock + 1
  /\ UNCHANGED <<job, eligible, work, selected, claims, releases, transcripts, late, reopened>>

Next ==
  \/ \E h \in Helper, e \in Episode :
       \/ SelectEpisode(h, e) \/ Transcribed(h, e) \/ Unavailable(h, e) \/ Failed(h, e)
       \/ Released(h, e) \/ NotClaimed(h, e) \/ HelperStops(h, e)
  \/ \E e \in Episode : Exclude(e)
  \/ ClaimEpisode \/ ClaimDies \/ Tick

Spec == Init /\ [][Next]_vars

-----------------------------------------------------------------------------
\* Every variable holds a value of its kind, and the attempts a row counts are
\* its claims less those handed back, never more than allowed.
TypeOK ==
  /\ clock \in 0..LastTick
  /\ \A e \in Episode : /\ job[e].status \in {"none", "started", "completed", "skipped", "failed"}
                        /\ job[e].attempts \in 0..MaxAttempts
                        /\ job[e].attempts = claims[e] - releases[e]
                        /\ job[e].at \in 0..clock /\ late[e] \in Nat /\ reopened[e] \in 0..claims[e]
  /\ \A c, d \in selected : c = d
  /\ \A h \in Helper, e \in Episode : work[h][e].claim \in 0..claims[e]

\* Two helpers transcribe one episode within their twelve hours only after a
\* late answer has ended a claim that was not the answerer's.
HelpersOverlap ==
  \A e \in Episode :
    Cardinality({h \in Helper : work[h][e] # NoWork /\ work[h][e].at > clock - Lease}) <= 1 + late[e]

\* A completed job has its transcript, and no transcript is stored a second time -
\* by another claim, or a late answer of an expired one - unless a claim had selected
\* the episode before an answer came and wrote over it: each such claim may cost one
\* transcript more.
TranscriptStands ==
  \A e \in Episode :
    LET completed == IF job[e].status = "completed" THEN 1 ELSE 0
    IN transcripts[e] \in completed .. completed + reopened[e]

=============================================================================
