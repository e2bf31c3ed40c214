------------------------------ MODULE TikTokListing ------------------------------
(***************************************************************************)
(* The listing of a followed TikTok creator's profile by helpers outside the *)
(* platform.  A claim is one provider_sync_run row with the time to list     *)
(* from; the answer names the profile only and closes the newest claim that  *)
(* is still open; the next claim starts from the newest video of all         *)
(* completed ones.                                                           *)
(***************************************************************************)
EXTENDS Integers, FiniteSets, Sequences, FiniteSetsExt

CONSTANTS Helper,
          Interval,     \* TIKTOK_PROFILE_INTERVAL_HOURS, in ticks
          MaxListed,    \* most videos a helper reads from the top
          MaxRuns, MaxVideo, LastTick      \* bounds

Assumptions == {Interval, MaxListed, MaxRuns, MaxVideo, LastTick} \subseteq Nat \ {0}

VARIABLES
  clock,
  followed,    \* the creator is followed, trusted and the provider not paused
  posted,      \* videos 1..posted are on the profile; a video is its upload time
  claims,      \* the provider_sync_run rows, by started_at
  work,        \* helper -> what it does: see NoWork
  stored,      \* videos stored
  given        \* ghost: videos passed over: not about cards, failed, or below
               \* the top of the profile that was read

vars == <<clock, followed, posted, claims, work, stored, given>>

NoWork == [pc |-> "idle", since |-> 0, videos |-> {}, claim |-> 0, newest |-> 0]

Init ==
  /\ clock = 0 /\ followed = TRUE /\ posted = 1 /\ claims = <<>>
  /\ work = [h \in Helper |-> NoWork]
  /\ stored = {} /\ given = {}

Open(i) == claims[i].status = "started" /\ claims[i].at > clock - Interval

Since == Max({0} \cup {claims[i].newest : i \in {j \in 1..Len(claims) : claims[j].status = "completed"}})

\* claimTikTokProfileJobs, under its advisory lock.
ClaimProfile(h) ==
  /\ work[h].pc = "idle" /\ followed /\ Len(claims) < MaxRuns
  /\ claims # <<>> => claims[Len(claims)].at <= clock - Interval
  /\ claims' = Append(claims, [status |-> "started", at |-> clock, since |-> Since, newest |-> 0])
  /\ work' = [work EXCEPT ![h] = [NoWork EXCEPT !.pc = "list", !.since = Since]]
  /\ UNCHANGED <<clock, followed, posted, stored, given>>

\* The helper reads the top of the profile, newer than what it was told.
ListProfile(h) ==
  LET new == work[h].since + 1 .. posted
      top == {v \in new : v > posted - MaxListed}
  IN
  /\ work[h].pc = "list"
  /\ work' = [work EXCEPT ![h] = [@ EXCEPT !.pc = "answer", !.videos = top]]
  /\ given' = given \cup (new \ top)
  /\ UNCHANGED <<clock, followed, posted, claims, stored>>

\* submitTikTokProfileListing: the newest open claim of the profile, and of the
\* answer what is newer than that claim's since.
Submit(h) ==
  LET open == {i \in 1..Len(claims) : Open(i)}
      listed == {v \in work[h].videos : v > claims[Max(open)].since}
  IN
  /\ work[h].pc = "answer"
  /\ work' = [work EXCEPT ![h] =
       IF open = {} THEN NoWork
       ELSE [@ EXCEPT !.pc = "store", !.videos = listed, !.claim = Max(open),
                      !.newest = Max(listed \cup {claims[Max(open)].since})]]
  /\ UNCHANGED <<clock, followed, posted, claims, stored, given>>

\* Each kept video is stored in a transaction of its own...
StoreVideo(h, v) ==
  /\ work[h].pc = "store" /\ v \in work[h].videos
  /\ stored' = stored \cup {v}
  /\ work' = [work EXCEPT ![h].videos = @ \ {v}]
  /\ UNCHANGED <<clock, followed, posted, claims, given>>

\* ...one whose caption is not about cards is skipped, one that fails counted.
SkipVideo(h, v) ==
  /\ work[h].pc = "store" /\ v \in work[h].videos \ stored
  /\ given' = given \cup {v}
  /\ work' = [work EXCEPT ![h].videos = @ \ {v}]
  /\ UNCHANGED <<clock, followed, posted, claims, stored>>

\* The claim is completed whatever its status is by now.
FinishListing(h) ==
  /\ work[h].pc = "store" /\ work[h].videos = {}
  /\ claims' = [claims EXCEPT ![work[h].claim] =
                  [@ EXCEPT !.status = "completed", !.newest = work[h].newest]]
  /\ work' = [work EXCEPT ![h] = NoWork]
  /\ UNCHANGED <<clock, followed, posted, stored, given>>

\* An answer "error" fails the newest open claim, in a transaction after the one
\* that found it and whatever its status is by then.
SubmitError(h) ==
  LET open == {i \in 1..Len(claims) : Open(i)} IN
  /\ work[h].pc \in {"list", "answer"}
  /\ work' = [work EXCEPT ![h] =
       IF open = {} THEN NoWork ELSE [NoWork EXCEPT !.pc = "fail", !.claim = Max(open)]]
  /\ UNCHANGED <<clock, followed, posted, claims, stored, given>>

FailListing(h) ==
  /\ work[h].pc = "fail"
  /\ claims' = [claims EXCEPT ![work[h].claim] = [@ EXCEPT !.status = "failed", !.newest = 0]]
  /\ work' = [work EXCEPT ![h] = NoWork]
  /\ UNCHANGED <<clock, followed, posted, stored, given>>

\* The helper's computer, or the API while it stores, stops.
HelperStops(h) ==
  /\ work[h].pc # "idle"
  /\ work' = [work EXCEPT ![h] = NoWork]
  /\ UNCHANGED <<clock, followed, posted, claims, stored, given>>

Follow(state) ==
  /\ followed # state /\ followed' = state
  /\ UNCHANGED <<clock, posted, claims, work, stored, given>>

PostVideo ==
  /\ posted < MaxVideo /\ posted' = posted + 1
  /\ UNCHANGED <<clock, followed, claims, work, stored, given>>

Tick ==
  /\ clock < LastTick /\ clock' = clock + 1
  /\ UNCHANGED <<followed, posted, claims, work, stored, given>>

Next ==
  \/ \E h \in Helper :
       \/ ClaimProfile(h) \/ ListProfile(h) \/ Submit(h) \/ FinishListing(h) \/ SubmitError(h)
       \/ FailListing(h) \/ HelperStops(h)
       \/ \E v \in 1..MaxVideo : StoreVideo(h, v) \/ SkipVideo(h, v)
  \/ \E f \in BOOLEAN : Follow(f)
  \/ PostVideo \/ Tick

Spec == Init /\ [][Next]_vars

-----------------------------------------------------------------------------
\* Every variable holds a value of its kind.
TypeOK ==
  /\ clock \in 0..LastTick /\ followed \in BOOLEAN /\ posted \in 1..MaxVideo
  /\ \A i \in 1..Len(claims) : /\ claims[i].status \in {"started", "completed", "failed"}
                               /\ claims[i].at \in 0..clock /\ claims[i].newest \in 0..posted
  /\ \A h \in Helper : /\ work[h].pc \in {"idle", "list", "answer", "store", "fail"}
                       /\ work[h].claim \in 0..Len(claims) /\ work[h].videos \subseteq 1..posted
  /\ stored \cup given \subseteq 1..posted

\* No video is skipped in silence: all up to where the next listing starts were
\* stored or passed over on their own account, though answers come late, for
\* another helper's claim, and twice.
VideosAccountedFor == 1..Since \subseteq stored \cup given

=============================================================================
