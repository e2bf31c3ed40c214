------------------------------- MODULE SourceProofs -------------------------------
(***************************************************************************)
(* Theorems about the modules that collect data from providers, run side by  *)
(* side as MCSources does: for any number of helpers, workers, creators,     *)
(* episodes and videos, and any budget, lease and limit.  Here the transcripts, *)
(* the provider sync and the TikTok listings; the rest is in BackfillProofs. *)
(***************************************************************************)
EXTENDS MCSources, Sequences, FiniteSetTheorems, WellFoundedInduction, TLAPS

\* The instances count as the module does.
LEMMA SameCounts ==
  /\ \A R : S!Cardinality(R) = Cardinality(R) /\ L!Cardinality(R) = Cardinality(R)
  /\ \A R : F!Cardinality(R) = Cardinality(R) /\ Y!Cardinality(R) = Cardinality(R)
  /\ \A R : C!Cardinality(R) = Cardinality(R) /\ (C!IsFiniteSet(R) <=> IsFiniteSet(R))
BY DEF S!Cardinality, L!Cardinality, F!Cardinality, Y!Cardinality, C!Cardinality, Cardinality,
       C!IsFiniteSet, IsFiniteSet

LEMMA LeqTrans == \A i, j, k \in Nat : i <= j /\ j <= k => i <= k
OBVIOUS

LEMMA DivBounds ==
  ASSUME NEW d \in Nat \ {0}, NEW t \in Nat
  PROVE  t \div d \in Nat /\ d * (t \div d) <= t /\ t < d * (t \div d) + d
OBVIOUS

LEMMA DivMono ==
  ASSUME NEW d \in Nat \ {0}, NEW a \in Nat, NEW b \in Nat, a <= b PROVE a \div d <= b \div d
BY DivBounds

LEMMA DivLess ==
  ASSUME NEW d \in Nat \ {0}, NEW a \in Nat, NEW b \in Nat, a <= b - d PROVE a \div d < b \div d
BY DivBounds

\* A set of numbers with an upper bound has a largest one.
LEMMA HasLargest ==
  ASSUME NEW R, R \subseteq Nat, R # {}, NEW m \in Nat, \A x \in R : x <= m
  PROVE  \E x \in R : \A y \in R : x >= y
<1> DEFINE gaps == {k \in Nat : m - k \in R}
<1>1. gaps # {}
  <2>1. PICK x \in R : TRUE OBVIOUS
  <2>2. m - x \in Nat /\ m - (m - x) = x BY <2>1
  <2> QED BY <2>1, <2>2
<1>2. PICK k \in gaps : \A j \in gaps : ~ (<<j, k>> \in OpToRel(<, Nat))
  BY <1>1, NatLessThanWellFounded, WFMin
<1>3. \A j \in gaps : j \in Nat /\ k \in Nat OBVIOUS
<1> HIDE DEF gaps
<1>4. \A j \in gaps : ~ (j < k) BY <1>2, <1>3, Zenon DEF OpToRel
<1>5. \A j \in gaps : k <= j BY <1>3, <1>4
<1> USE DEF gaps
<1>6. \A y \in R : m - k >= y
  <2> SUFFICES ASSUME NEW y \in R PROVE m - k >= y OBVIOUS
  <2>1. m - y \in Nat /\ m - (m - y) = y OBVIOUS
  <2>2. m - y \in gaps BY <2>1
  <2> QED BY <2>1, <2>2, <1>5
<1> QED BY <1>6

-----------------------------------------------------------------------------
(* LocalTranscripts.  A helper whose claim is the episode's latest, and still  *)
(* open, is its owner; every other helper within its lease is one that a late   *)
(* answer has left behind, and the ghost counts those answers.                 *)

Transcribing(e) == {h \in Helpers : work[h][e] # L!NoWork}
InLease(e) == {h \in Transcribing(e) : work[h][e].at > clock - HelperLease}
Owns(h, e) == job[e].status = "started" /\ work[h][e].claim = claims[e]
LeftBehind(e) == {h \in InLease(e) : ~Owns(h, e)}

EpisodeJob == [status : {"none", "started", "completed", "skipped", "failed"}, at : Nat, attempts : Nat]

HelperTypes ==
  /\ job \in [Episodes -> EpisodeJob]
  /\ eligible \in [Episodes -> BOOLEAN]
  /\ work \in [Helpers -> [Episodes -> [claim : Nat, at : Nat]]]
  /\ claims \in [Episodes -> Nat] /\ releases \in [Episodes -> Nat]
  /\ transcripts \in [Episodes -> Nat] /\ late \in [Episodes -> Nat]
  /\ reopened \in [Episodes -> Nat]

\* What a claim transaction has selected stays free to claim until it writes, but
\* for an answer that ends the job meanwhile.
Selection == [helper : Helpers, episode : Episodes, at : Nat, raced : BOOLEAN]
SelectedOk ==
  \A c \in selected :
    /\ c \in Selection /\ c.at <= clock
    /\ work[c.helper][c.episode] = L!NoWork
    /\ ~L!Held(c.episode) /\ job[c.episode].attempts < HelperAttempts
    /\ ~c.raced => job[c.episode].status # "completed"

ClaimsMatch ==
  \A e \in Episodes :
    /\ job[e].status = "started" => job[e].attempts >= 1
    /\ IsFiniteSet(Transcribing(e))
    /\ \A h \in Transcribing(e) : work[h][e].claim = claims[e] =>
         /\ job[e].status = "started" => work[h][e].at = job[e].at
         /\ \A g \in Transcribing(e) : work[g][e].claim = claims[e] => g = h

LateAnswers == \A e \in Episodes : Cardinality(LeftBehind(e)) <= late[e]

HelperInv ==
  L!TypeOK /\ HelperTypes /\ SelectedOk /\ ClaimsMatch /\ LateAnswers /\ L!TranscriptStands

LEMMA HelperStart == ASSUME L!Assumptions, L!Init PROVE HelperInv
<1> USE DEF L!Init, L!NoWork
<1>1. HelperLease \in Nat /\ HelperAttempts \in Nat /\ HelperTicks \in Nat BY DEF L!Assumptions
<1>2. HelperTypes BY DEF HelperTypes, EpisodeJob
<1>3. L!TypeOK BY <1>1 DEF L!TypeOK
<1>4. \A e \in Episodes : Transcribing(e) = {} BY DEF Transcribing
<1>5. ClaimsMatch BY <1>4, FS_EmptySet DEF ClaimsMatch
<1>6. \A e \in Episodes : LeftBehind(e) = {} BY <1>4 DEF LeftBehind, InLease
<1>7. LateAnswers
  <2> SUFFICES ASSUME NEW e \in Episodes PROVE Cardinality(LeftBehind(e)) <= late[e] BY DEF LateAnswers
  <2>1. LeftBehind(e) = {} /\ Cardinality({}) = 0 BY <1>6, FS_EmptySet
  <2> QED BY <2>1
<1>8. L!TranscriptStands BY DEF L!TranscriptStands
<1>9. SelectedOk BY DEF SelectedOk
<1> QED BY <1>2, <1>3, <1>5, <1>7, <1>8, <1>9 DEF HelperInv

\* The claim that ClaimEpisode writes.
ClaimedAs(h, e, at, race) ==
  /\ at \in Nat /\ at <= clock /\ race \in BOOLEAN
  /\ work[h][e] = L!NoWork /\ ~L!Held(e) /\ job[e].attempts < HelperAttempts
  /\ ~race => job[e].status # "completed"
  /\ job' = [job EXCEPT ![e] = [status |-> "started", at |-> at, attempts |-> @.attempts + 1]]
  /\ claims' = [claims EXCEPT ![e] = @ + 1]
  /\ work' = [work EXCEPT ![h][e] = [claim |-> claims[e] + 1, at |-> at]]
  /\ reopened' = [reopened EXCEPT ![e] = IF race THEN @ + 1 ELSE @]
  /\ selected' = {}
  /\ UNCHANGED <<clock, eligible, releases, transcripts, late>>

LEMMA ClaimIs ==
  ASSUME HelperInv, L!ClaimEpisode
  PROVE  \E h \in Helpers, e \in Episodes, at \in Nat, race \in BOOLEAN : ClaimedAs(h, e, at, race)
<1>1. PICK c \in selected :
        /\ job' = [job EXCEPT ![c.episode] = [status |-> "started", at |-> c.at, attempts |-> @.attempts + 1]]
        /\ claims' = [claims EXCEPT ![c.episode] = @ + 1]
        /\ work' = [work EXCEPT ![c.helper][c.episode] = [claim |-> claims[c.episode] + 1, at |-> c.at]]
        /\ reopened' = [reopened EXCEPT ![c.episode] = IF c.raced THEN @ + 1 ELSE @]
        /\ selected' = {}
        /\ UNCHANGED <<clock, eligible, releases, transcripts, late>>
  BY DEF L!ClaimEpisode
<1>2. /\ c \in Selection /\ c.at <= clock
      /\ work[c.helper][c.episode] = L!NoWork
      /\ ~L!Held(c.episode) /\ job[c.episode].attempts < HelperAttempts
      /\ ~c.raced => job[c.episode].status # "completed"
  BY DEF HelperInv, SelectedOk
<1>3. c.helper \in Helpers /\ c.episode \in Episodes /\ c.at \in Nat /\ c.raced \in BOOLEAN
  BY <1>2 DEF Selection
<1>4. ClaimedAs(c.helper, c.episode, c.at, c.raced) BY <1>1, <1>2, <1>3 DEF ClaimedAs
<1> QED BY <1>3, <1>4

LEMMA WorkEnds ==
  ASSUME HelperTypes, NEW h \in Helpers, NEW e \in Episodes, work' = [work EXCEPT ![h][e] = L!NoWork]
  PROVE  /\ work' \in [Helpers -> [Episodes -> [claim : Nat, at : Nat]]]
         /\ \A g \in Helpers, d \in Episodes :
              work'[g][d] = IF g = h /\ d = e THEN L!NoWork ELSE work[g][d]
         /\ Transcribing(e)' = Transcribing(e) \ {h}
         /\ \A d \in Episodes \ {e} : Transcribing(d)' = Transcribing(d)
<1>1. L!NoWork \in [claim : Nat, at : Nat] BY DEF L!NoWork
<1>2. work' \in [Helpers -> [Episodes -> [claim : Nat, at : Nat]]] BY <1>1 DEF HelperTypes
<1>3. \A g \in Helpers, d \in Episodes :
        work'[g][d] = IF g = h /\ d = e THEN L!NoWork ELSE work[g][d]
  BY DEF HelperTypes
<1>4. Transcribing(e)' = Transcribing(e) \ {h} BY <1>3 DEF Transcribing
<1>5. \A d \in Episodes \ {e} : Transcribing(d)' = Transcribing(d) BY <1>3 DEF Transcribing
<1> QED BY <1>2, <1>3, <1>4, <1>5

Outcome(h, e) == L!Transcribed(h, e) \/ L!Unavailable(h, e) \/ L!Failed(h, e) \/ L!Released(h, e)

\* What an answer does to the episode's job, whichever answer it is.
LEMMA AnswerEnds ==
  ASSUME L!Assumptions, HelperInv, NEW h \in Helpers, NEW e \in Episodes, Outcome(h, e)
  PROVE  /\ h \in Transcribing(e) /\ job[e].status = "started" /\ job[e].attempts \in 1..HelperAttempts
         /\ work' = [work EXCEPT ![h][e] = L!NoWork]
         /\ late' = [late EXCEPT ![e] = IF work[h][e].claim = claims[e] THEN @ ELSE @ + 1]
         /\ UNCHANGED <<clock, eligible, claims, reopened>>
         /\ selected' = {[c EXCEPT !.raced = @ \/ c.episode = e] : c \in selected}
         /\ job' \in [Episodes -> EpisodeJob] /\ \A d \in Episodes \ {e} : job'[d] = job[d]
         /\ job'[e].status # "started" /\ job'[e].at = job[e].at
         /\ releases' \in [Episodes -> Nat] /\ \A d \in Episodes \ {e} : releases'[d] = releases[d]
         /\ job'[e].attempts + releases'[e] = job[e].attempts + releases[e]
         /\ job'[e].attempts <= job[e].attempts
         /\ transcripts' \in [Episodes -> Nat]
         /\ \A d \in Episodes \ {e} : transcripts'[d] = transcripts[d]
         /\ \/ job'[e].status = "completed" /\ transcripts'[e] = transcripts[e] + 1
            \/ job'[e].status # "completed" /\ transcripts'[e] = transcripts[e]
<1>1. /\ job \in [Episodes -> EpisodeJob] /\ releases \in [Episodes -> Nat]
      /\ transcripts \in [Episodes -> Nat]
  BY DEF HelperInv, HelperTypes
<1>2. L!Answers(h, e) BY Zenon DEF Outcome, L!Transcribed, L!Unavailable, L!Failed, L!Released
<1>3. h \in Transcribing(e) /\ job[e].status = "started" /\ job[e].attempts \in 1..HelperAttempts
  <2>1. h \in Transcribing(e) /\ job[e].status = "started" BY <1>2 DEF L!Answers, L!Accepts, Transcribing
  <2>2. job[e].attempts >= 1 BY <2>1 DEF HelperInv, ClaimsMatch
  <2>3. job[e].attempts \in 0..HelperAttempts /\ HelperAttempts \in Nat
    BY DEF HelperInv, L!TypeOK, L!Assumptions
  <2> QED BY <2>1, <2>2, <2>3
<1>4. /\ work' = [work EXCEPT ![h][e] = L!NoWork]
      /\ late' = [late EXCEPT ![e] = IF work[h][e].claim = claims[e] THEN @ ELSE @ + 1]
      /\ UNCHANGED <<clock, eligible, claims, reopened>>
      /\ selected' = {[c EXCEPT !.raced = @ \/ c.episode = e] : c \in selected}
  BY <1>2 DEF L!Answers
<1>5. CASE L!Transcribed(h, e)
  <2>1. /\ job' = [job EXCEPT ![e].status = "completed"]
        /\ releases' = releases /\ transcripts' = [transcripts EXCEPT ![e] = @ + 1]
    BY <1>5 DEF L!Transcribed
  <2>2. job'[e] = [job[e] EXCEPT !.status = "completed"] /\ \A d \in Episodes \ {e} : job'[d] = job[d]
    BY <2>1, <1>1
  <2>3. /\ job'[e] \in EpisodeJob /\ job'[e].status = "completed" /\ job'[e].at = job[e].at
        /\ job'[e].attempts = job[e].attempts
    BY <2>2, <1>1 DEF EpisodeJob
  <2>4. job' \in [Episodes -> EpisodeJob] BY <2>1, <2>2, <2>3, <1>1
  <2>5. releases' \in [Episodes -> Nat] /\ transcripts' \in [Episodes -> Nat] BY <2>1, <1>1
  <2>6. job[e].attempts \in Nat /\ releases[e] \in Nat BY <1>1 DEF EpisodeJob
  <2> QED BY <2>1, <2>2, <2>3, <2>4, <2>5, <2>6, <1>1, <1>3, <1>4
<1>6. CASE L!Unavailable(h, e)
  <2>1. /\ job' = [job EXCEPT ![e].status = "skipped"]
        /\ releases' = releases /\ transcripts' = transcripts
    BY <1>6 DEF L!Unavailable
  <2>2. job'[e] = [job[e] EXCEPT !.status = "skipped"] /\ \A d \in Episodes \ {e} : job'[d] = job[d]
    BY <2>1, <1>1
  <2>3. /\ job'[e] \in EpisodeJob /\ job'[e].status = "skipped" /\ job'[e].at = job[e].at
        /\ job'[e].attempts = job[e].attempts
    BY <2>2, <1>1 DEF EpisodeJob
  <2>4. job' \in [Episodes -> EpisodeJob] BY <2>1, <2>2, <2>3, <1>1
  <2>5. releases' \in [Episodes -> Nat] /\ transcripts' \in [Episodes -> Nat] BY <2>1, <1>1
  <2>6. job[e].attempts \in Nat /\ releases[e] \in Nat BY <1>1 DEF EpisodeJob
  <2> QED BY <2>1, <2>2, <2>3, <2>4, <2>5, <2>6, <1>1, <1>3, <1>4
<1>7. CASE L!Failed(h, e)
  <2>1. /\ job' = [job EXCEPT ![e].status = "failed"]
        /\ releases' = releases /\ transcripts' = transcripts
    BY <1>7 DEF L!Failed
  <2>2. job'[e] = [job[e] EXCEPT !.status = "failed"] /\ \A d \in Episodes \ {e} : job'[d] = job[d]
    BY <2>1, <1>1
  <2>3. /\ job'[e] \in EpisodeJob /\ job'[e].status = "failed" /\ job'[e].at = job[e].at
        /\ job'[e].attempts = job[e].attempts
    BY <2>2, <1>1 DEF EpisodeJob
  <2>4. job' \in [Episodes -> EpisodeJob] BY <2>1, <2>2, <2>3, <1>1
  <2>5. releases' \in [Episodes -> Nat] /\ transcripts' \in [Episodes -> Nat] BY <2>1, <1>1
  <2>6. job[e].attempts \in Nat /\ releases[e] \in Nat BY <1>1 DEF EpisodeJob
  <2> QED BY <2>1, <2>2, <2>3, <2>4, <2>5, <2>6, <1>1, <1>3, <1>4
<1>8. CASE L!Released(h, e)
  <2>1. /\ job' = [job EXCEPT ![e].status = "failed", ![e].attempts = @ - 1]
        /\ releases' = [releases EXCEPT ![e] = @ + 1] /\ transcripts' = transcripts
    BY <1>8 DEF L!Released
  <2>2. job[e] \in EpisodeJob /\ job[e].attempts - 1 \in Nat BY <1>3, <1>1 DEF EpisodeJob
  <2>3. \A d \in Episodes \ {e} : job'[d] = job[d] BY <2>1, <1>1
  <2>4. /\ job'[e] \in EpisodeJob /\ job'[e].status = "failed" /\ job'[e].at = job[e].at
        /\ job'[e].attempts = job[e].attempts - 1
    BY <2>1, <2>2, <1>1 DEF EpisodeJob
  <2>5. job' \in [Episodes -> EpisodeJob] BY <2>1, <2>3, <2>4, <1>1
  <2>6. releases' \in [Episodes -> Nat] /\ transcripts' \in [Episodes -> Nat] BY <2>1, <1>1
  <2>7. job[e].attempts \in Nat /\ releases[e] \in Nat BY <1>1 DEF EpisodeJob
  <2> QED BY <2>1, <2>3, <2>4, <2>5, <2>6, <2>7, <1>1, <1>3, <1>4
<1> QED BY <1>5, <1>6, <1>7, <1>8 DEF Outcome

LEMMA HelperTypesStep == ASSUME L!Assumptions, HelperInv, L!Next PROVE HelperTypes' /\ L!TypeOK'
<1> USE DEF HelperInv
<1>1. HelperLease \in Nat /\ HelperAttempts \in Nat /\ HelperTicks \in Nat BY DEF L!Assumptions
<1>2. ASSUME NEW h \in Helpers, NEW e \in Episodes, NEW at \in Nat, NEW race \in BOOLEAN,
             ClaimedAs(h, e, at, race)
      PROVE  HelperTypes' /\ L!TypeOK'
  <2>1. HelperTypes' BY <1>2, <1>1 DEF ClaimedAs, L!TypeOK, HelperTypes, EpisodeJob
  <2>2. L!TypeOK' BY <1>2, <1>1, <2>1 DEF ClaimedAs, L!TypeOK, HelperTypes, EpisodeJob
  <2> QED BY <2>1, <2>2
<1>3. ASSUME NEW h \in Helpers, NEW e \in Episodes, Outcome(h, e) PROVE HelperTypes' /\ L!TypeOK'
  <2>1. /\ late' = [late EXCEPT ![e] = IF work[h][e].claim = claims[e] THEN @ ELSE @ + 1]
        /\ work' = [work EXCEPT ![h][e] = L!NoWork] /\ UNCHANGED <<clock, eligible, claims, reopened>>
        /\ job' \in [Episodes -> EpisodeJob] /\ releases' \in [Episodes -> Nat]
        /\ transcripts' \in [Episodes -> Nat]
    BY <1>3, AnswerEnds
  <2>2. late' \in [Episodes -> Nat] BY <2>1 DEF HelperTypes
  <2>3. work' \in [Helpers -> [Episodes -> [claim : Nat, at : Nat]]] BY <2>1, WorkEnds
  <2>4. HelperTypes' BY <2>1, <2>2, <2>3 DEF HelperTypes
  <2>5. ASSUME NEW d \in Episodes
        PROVE /\ job'[d].status \in {"none", "started", "completed", "skipped", "failed"}
              /\ job'[d].attempts \in 0..HelperAttempts
              /\ job'[d].attempts = claims'[d] - releases'[d]
              /\ job'[d].at \in 0..clock' /\ late'[d] \in Nat
    <3>1. job'[d] \in EpisodeJob /\ late'[d] \in Nat BY <2>2, <1>3, AnswerEnds
    <3>2. CASE d # e BY <3>1, <3>2, <1>3, AnswerEnds DEF L!TypeOK
    <3>3. CASE d = e
      <4>1. job[e].attempts \in 0..HelperAttempts /\ job[e].attempts = claims[e] - releases[e]
            /\ job[e].at \in 0..clock /\ claims[e] \in Nat /\ releases[e] \in Nat
        BY DEF L!TypeOK, HelperTypes
      <4>2. /\ job'[e].at = job[e].at /\ clock' = clock /\ claims' = claims /\ releases'[e] \in Nat
            /\ job'[e].attempts + releases'[e] = job[e].attempts + releases[e]
            /\ job'[e].attempts <= job[e].attempts
        BY <1>3, AnswerEnds
      <4> QED BY <4>1, <4>2, <3>1, <3>3, <1>1 DEF EpisodeJob
    <3> QED BY <3>2, <3>3
  <2>6. \A g \in Helpers, d \in Episodes : work'[g][d].claim \in 0..claims'[d]
    <3> SUFFICES ASSUME NEW g \in Helpers, NEW d \in Episodes PROVE work'[g][d].claim \in 0..claims[d]
      BY <1>3, AnswerEnds
    <3>1. work'[g][d] = IF g = h /\ d = e THEN L!NoWork ELSE work[g][d] BY <1>3, AnswerEnds, WorkEnds
    <3> QED BY <3>1 DEF L!TypeOK, L!NoWork, HelperTypes
  <2>7. clock' \in 0..HelperTicks BY <1>3, AnswerEnds DEF L!TypeOK
  <2>8. (\A c, d \in selected : c = d)' BY <1>3, AnswerEnds DEF L!TypeOK
  <2>9. \A d \in Episodes : reopened'[d] \in 0..claims'[d] BY <2>1 DEF L!TypeOK
  <2> QED BY <2>4, <2>5, <2>6, <2>7, <2>8, <2>9 DEF L!TypeOK
<1>4. ASSUME NEW h \in Helpers, NEW e \in Episodes, L!NotClaimed(h, e) \/ L!HelperStops(h, e)
      PROVE HelperTypes' /\ L!TypeOK'
  <2>1. work' = [work EXCEPT ![h][e] = L!NoWork]
        /\ UNCHANGED <<clock, job, eligible, selected, claims, releases, transcripts, late, reopened>>
    BY <1>4 DEF L!NotClaimed, L!HelperStops
  <2>2. HelperTypes' BY <2>1, WorkEnds DEF HelperTypes
  <2>3. \A g \in Helpers, d \in Episodes : work'[g][d].claim \in 0..claims'[d]
    <3> SUFFICES ASSUME NEW g \in Helpers, NEW d \in Episodes PROVE work'[g][d].claim \in 0..claims[d]
      BY <2>1
    <3>1. work'[g][d] = IF g = h /\ d = e THEN L!NoWork ELSE work[g][d] BY <2>1, WorkEnds
    <3> QED BY <3>1 DEF L!TypeOK, L!NoWork, HelperTypes
  <2> QED BY <2>1, <2>2, <2>3 DEF L!TypeOK
<1>5. ASSUME NEW e \in Episodes, L!Exclude(e) PROVE HelperTypes' /\ L!TypeOK'
  BY <1>5 DEF L!Exclude, L!TypeOK, HelperTypes, EpisodeJob
<1>6. CASE L!Tick BY <1>6, <1>1 DEF L!Tick, L!TypeOK, HelperTypes, EpisodeJob
<1>7. CASE L!ClaimDies \/ \E h \in Helpers, e \in Episodes : L!SelectEpisode(h, e)
  BY <1>7 DEF L!ClaimDies, L!SelectEpisode, L!TypeOK, HelperTypes, EpisodeJob
<1>8. CASE L!ClaimEpisode BY <1>8, <1>2, ClaimIs
<1> QED BY <1>2, <1>3, <1>4, <1>5, <1>6, <1>7, <1>8, Zenon DEF L!Next, Outcome

LEMMA SelectedStep == ASSUME L!Assumptions, HelperInv, L!Next PROVE SelectedOk'
<1>1. /\ HelperTypes /\ L!TypeOK /\ SelectedOk /\ HelperTypes' /\ L!TypeOK' BY HelperTypesStep DEF HelperInv
<1>2. clock \in Nat /\ HelperLease \in Nat /\ HelperAttempts \in Nat BY <1>1 DEF L!TypeOK, L!Assumptions
<1>3. ASSUME NEW h \in Helpers, NEW e \in Episodes, Outcome(h, e) PROVE SelectedOk'
  <2>1. /\ selected' = {[c EXCEPT !.raced = @ \/ c.episode = e] : c \in selected}
        /\ work' = [work EXCEPT ![h][e] = L!NoWork] /\ clock' = clock
        /\ \A d \in Episodes \ {e} : job'[d] = job[d]
        /\ job'[e].status # "started" /\ job'[e].attempts <= job[e].attempts
        /\ job' \in [Episodes -> EpisodeJob]
    BY <1>3, AnswerEnds, <1>1 DEF HelperInv
  <2>2. \A g \in Helpers, d \in Episodes : work'[g][d] = IF g = h /\ d = e THEN L!NoWork ELSE work[g][d]
    BY <2>1, <1>1, WorkEnds
  <2> SUFFICES ASSUME NEW b \in selected'
               PROVE /\ b \in Selection /\ b.at <= clock'
                     /\ work'[b.helper][b.episode] = L!NoWork
                     /\ ~L!Held(b.episode)' /\ job'[b.episode].attempts < HelperAttempts
                     /\ ~b.raced => job'[b.episode].status # "completed"
    BY DEF SelectedOk, L!Held
  <2>3. PICK c \in selected : b = [c EXCEPT !.raced = @ \/ c.episode = e] BY <2>1
  <2>4. /\ c \in Selection /\ c.at <= clock /\ work[c.helper][c.episode] = L!NoWork
        /\ ~L!Held(c.episode) /\ job[c.episode].attempts < HelperAttempts
        /\ ~c.raced => job[c.episode].status # "completed"
    BY <1>1 DEF SelectedOk
  <2>5. /\ b \in Selection /\ b.helper = c.helper /\ b.episode = c.episode /\ b.at = c.at
        /\ b.raced <=> (c.raced \/ c.episode = e)
        /\ c.helper \in Helpers /\ c.episode \in Episodes
    BY <2>3, <2>4 DEF Selection
  <2>6. b.at <= clock' /\ work'[b.helper][b.episode] = L!NoWork BY <2>1, <2>2, <2>4, <2>5
  <2>7. CASE c.episode = e
    <3>1. ~L!Held(b.episode)' BY <2>7, <2>1, <2>5 DEF L!Held
    <3>2. job'[b.episode].attempts < HelperAttempts
      <4>1. job[e].attempts \in Nat /\ job'[e].attempts \in Nat BY <1>1, <2>1 DEF HelperTypes, EpisodeJob
      <4> QED BY <4>1, <2>7, <2>1, <2>4, <2>5, <1>2
    <3> QED BY <3>1, <3>2, <2>5, <2>6, <2>7
  <2>8. CASE c.episode # e
    <3>1. job'[b.episode] = job[c.episode] BY <2>8, <2>1, <2>5
    <3>2. ~L!Held(b.episode)' BY <3>1, <2>1, <2>4, <2>5 DEF L!Held
    <3> QED BY <3>1, <3>2, <2>4, <2>5, <2>6, <2>8
  <2> QED BY <2>7, <2>8
<1>4. ASSUME NEW h \in Helpers, NEW e \in Episodes, L!NotClaimed(h, e) \/ L!HelperStops(h, e)
      PROVE SelectedOk'
  <2>1. work' = [work EXCEPT ![h][e] = L!NoWork] /\ UNCHANGED <<clock, job, selected>>
    BY <1>4 DEF L!NotClaimed, L!HelperStops
  <2>2. \A g \in Helpers, d \in Episodes : work'[g][d] = IF g = h /\ d = e THEN L!NoWork ELSE work[g][d]
    BY <2>1, <1>1, WorkEnds
  <2> QED BY <2>1, <2>2, <1>1 DEF SelectedOk, Selection, L!Held
<1>5. ASSUME NEW h \in Helpers, NEW e \in Episodes, L!SelectEpisode(h, e) PROVE SelectedOk'
  <2>1. /\ work[h][e] = L!NoWork /\ job[e].status # "completed" /\ ~L!Held(e)
        /\ job[e].attempts < HelperAttempts
        /\ selected' = {[helper |-> h, episode |-> e, at |-> clock, raced |-> FALSE]}
        /\ UNCHANGED <<clock, job, work>>
    BY <1>5 DEF L!SelectEpisode
  <2>a. PICK c : c = [helper |-> h, episode |-> e, at |-> clock, raced |-> FALSE] OBVIOUS
  <2>2. c \in Selection /\ c.helper = h /\ c.episode = e /\ c.at = clock BY <2>a, <1>2 DEF Selection
  <2>3. selected' = {c} BY <2>a, <2>1
  <2>4. work'[c.helper][c.episode] = L!NoWork /\ job'[c.episode] = job[e] /\ c.at <= clock'
    BY <2>1, <2>2, <1>2
  <2>5. ~L!Held(c.episode)' BY <2>1, <2>2 DEF L!Held
  <2> QED BY <2>1, <2>2, <2>3, <2>4, <2>5 DEF SelectedOk
<1>6. CASE L!ClaimEpisode \/ L!ClaimDies
  <2>1. selected' = {} BY <1>6 DEF L!ClaimEpisode, L!ClaimDies
  <2> QED BY <2>1 DEF SelectedOk
<1>7. CASE \E e \in Episodes : L!Exclude(e)
  <2>1. UNCHANGED <<clock, job, work, selected>> BY <1>7 DEF L!Exclude
  <2> QED BY <2>1, <1>1 DEF SelectedOk, L!Held
<1>8. CASE L!Tick
  <2>1. clock' = clock + 1 /\ UNCHANGED <<job, work, selected>> BY <1>8 DEF L!Tick
  <2>2. \A d \in Episodes : job[d].at \in Nat BY <1>1 DEF HelperTypes, EpisodeJob
  <2>3. \A d \in Episodes : ~L!Held(d) => ~L!Held(d)' BY <2>1, <2>2, <1>2 DEF L!Held
  <2> QED BY <2>1, <2>3, <1>1, <1>2 DEF SelectedOk, Selection
<1> QED BY <1>3, <1>4, <1>5, <1>6, <1>7, <1>8, Zenon DEF L!Next, Outcome

LEMMA ClaimsMatchStep == ASSUME L!Assumptions, HelperInv, L!Next PROVE ClaimsMatch'
<1>1. HelperTypes /\ HelperTypes' /\ L!TypeOK /\ ClaimsMatch BY HelperTypesStep DEF HelperInv
<1>2. ASSUME NEW h \in Helpers, NEW e \in Episodes, NEW at \in Nat, NEW race \in BOOLEAN,
             ClaimedAs(h, e, at, race)
      PROVE  ClaimsMatch'
  <2> USE DEF HelperTypes, EpisodeJob, Transcribing
  <2>1. \A d \in Episodes \ {e} : /\ Transcribing(d)' = Transcribing(d)
                                  /\ \A g \in Helpers : work'[g][d] = work[g][d]
                                  /\ claims'[d] = claims[d] /\ job'[d] = job[d]
    BY <1>2, <1>1 DEF ClaimedAs
  <2>2. Transcribing(e)' \subseteq Transcribing(e) \cup {h} BY <1>2, <1>1 DEF ClaimedAs
  <2>3. IsFiniteSet(Transcribing(e)') BY <2>2, <1>1, FS_AddElement, FS_Subset DEF ClaimsMatch
  <2>4. \A g \in Helpers : work[g][e].claim <= claims[e] BY <1>1 DEF L!TypeOK
  <2>5. \A g \in Transcribing(e)' : work'[g][e].claim = claims'[e] => g = h /\ work'[g][e].at = job'[e].at
    BY <1>2, <1>1, <2>4 DEF ClaimedAs
  <2>6. job'[e].attempts >= 1 BY <1>2, <1>1 DEF ClaimedAs, L!TypeOK
  <2> HIDE DEF Transcribing
  <2> SUFFICES ASSUME NEW d \in Episodes
               PROVE /\ job'[d].status = "started" => job'[d].attempts >= 1
                     /\ IsFiniteSet(Transcribing(d)')
                     /\ \A f \in Transcribing(d)' : work'[f][d].claim = claims'[d] =>
                          /\ job'[d].status = "started" => work'[f][d].at = job'[d].at
                          /\ \A g \in Transcribing(d)' : work'[g][d].claim = claims'[d] => g = f
    BY Zenon DEF ClaimsMatch
  <2>7. CASE d = e BY <2>7, <2>3, <2>5, <2>6
  <2>8. CASE d # e
    <3>1. Transcribing(d)' = Transcribing(d) /\ claims'[d] = claims[d] /\ job'[d] = job[d]
          /\ \A g \in Transcribing(d) : work'[g][d] = work[g][d]
      BY <2>8, <2>1 DEF Transcribing
    <3>2. /\ job[d].status = "started" => job[d].attempts >= 1
          /\ IsFiniteSet(Transcribing(d))
          /\ \A f \in Transcribing(d) : work[f][d].claim = claims[d] =>
               /\ job[d].status = "started" => work[f][d].at = job[d].at
               /\ \A g \in Transcribing(d) : work[g][d].claim = claims[d] => g = f
      BY <1>1 DEF ClaimsMatch
    <3> QED BY <3>1, <3>2
  <2> QED BY <2>7, <2>8
\* No answer lets a helper in, or starts a job.
<1>3. ASSUME claims' = claims,
             \A d \in Episodes : /\ Transcribing(d)' \subseteq Transcribing(d)
                                 /\ \A g \in Transcribing(d)' : work'[g][d] = work[g][d]
                                 /\ job'[d] # job[d] => job'[d].status # "started"
      PROVE ClaimsMatch'
  <2> SUFFICES ASSUME NEW d \in Episodes
               PROVE /\ job'[d].status = "started" => job'[d].attempts >= 1
                     /\ IsFiniteSet(Transcribing(d)')
                     /\ \A f \in Transcribing(d)' : work'[f][d].claim = claims'[d] =>
                          /\ job'[d].status = "started" => work'[f][d].at = job'[d].at
                          /\ \A g \in Transcribing(d)' : work'[g][d].claim = claims'[d] => g = f
    BY Zenon DEF ClaimsMatch
  <2>1. IsFiniteSet(Transcribing(d)') BY <1>3, <1>1, FS_Subset DEF ClaimsMatch
  <2>2. /\ Transcribing(d)' \subseteq Transcribing(d)
        /\ \A g \in Transcribing(d)' : work'[g][d] = work[g][d]
        /\ job'[d] # job[d] => job'[d].status # "started"
    BY <1>3, Zenon
  <2>3. \A g \in Transcribing(d)' : g \in Transcribing(d) /\ work'[g][d] = work[g][d] BY <2>2
  <2>4. job'[d].status = "started" => job'[d] = job[d] BY <2>2
  <2> QED BY <1>3, <1>1, <2>1, <2>3, <2>4 DEF ClaimsMatch
<1>4. ASSUME NEW h \in Helpers, NEW e \in Episodes, Outcome(h, e) PROVE ClaimsMatch'
  <2>1. /\ Transcribing(e)' = Transcribing(e) \ {h} /\ \A d \in Episodes \ {e} : Transcribing(d)' = Transcribing(d)
        /\ \A g \in Helpers, d \in Episodes : work'[g][d] = IF g = h /\ d = e THEN L!NoWork ELSE work[g][d]
    <3>1. HelperTypes /\ work' = [work EXCEPT ![h][e] = L!NoWork] BY <1>4, <1>1, AnswerEnds
    <3>2. Transcribing(e)' = Transcribing(e) \ {h} BY <3>1, WorkEnds
    <3>3. \A d \in Episodes \ {e} : Transcribing(d)' = Transcribing(d) BY <3>1, WorkEnds
    <3>4. \A g \in Helpers, d \in Episodes : work'[g][d] = IF g = h /\ d = e THEN L!NoWork ELSE work[g][d]
      BY <3>1, WorkEnds
    <3> QED BY <3>2, <3>3, <3>4
  <2>2. claims' = claims /\ \A d \in Episodes : job'[d] # job[d] => job'[d].status # "started"
    BY <1>4, AnswerEnds
  <2>3. \A d \in Episodes : Transcribing(d)' \subseteq Transcribing(d) BY <2>1
  <2>4. ASSUME NEW d \in Episodes, NEW g \in Transcribing(d)' PROVE work'[g][d] = work[g][d]
    BY <2>1, <2>4 DEF Transcribing
  <2> QED BY <1>3, <2>2, <2>3, <2>4
<1>5. ASSUME NEW h \in Helpers, NEW e \in Episodes, L!NotClaimed(h, e) \/ L!HelperStops(h, e)
      PROVE ClaimsMatch'
  <2>1. work' = [work EXCEPT ![h][e] = L!NoWork] /\ UNCHANGED <<job, claims>>
    BY <1>5 DEF L!NotClaimed, L!HelperStops
  <2>2. /\ Transcribing(e)' = Transcribing(e) \ {h} /\ \A d \in Episodes \ {e} : Transcribing(d)' = Transcribing(d)
        /\ \A g \in Helpers, d \in Episodes : work'[g][d] = IF g = h /\ d = e THEN L!NoWork ELSE work[g][d]
    <3>1. HelperTypes /\ work' = [work EXCEPT ![h][e] = L!NoWork] BY <2>1, <1>1
    <3>2. Transcribing(e)' = Transcribing(e) \ {h} BY <3>1, WorkEnds
    <3>3. \A d \in Episodes \ {e} : Transcribing(d)' = Transcribing(d) BY <3>1, WorkEnds
    <3>4. \A g \in Helpers, d \in Episodes : work'[g][d] = IF g = h /\ d = e THEN L!NoWork ELSE work[g][d]
      BY <3>1, WorkEnds
    <3> QED BY <3>2, <3>3, <3>4
  <2>3. \A d \in Episodes : Transcribing(d)' \subseteq Transcribing(d) BY <2>2
  <2>4. ASSUME NEW d \in Episodes, NEW g \in Transcribing(d)' PROVE work'[g][d] = work[g][d]
    BY <2>2, <2>4 DEF Transcribing
  <2> QED BY <1>3, <2>1, <2>3, <2>4
<1>6. CASE \/ L!Tick \/ L!ClaimDies \/ \E e \in Episodes : L!Exclude(e)
           \/ \E h \in Helpers, e \in Episodes : L!SelectEpisode(h, e)
  <2>1. UNCHANGED <<job, work, claims>> BY <1>6 DEF L!Exclude, L!Tick, L!ClaimDies, L!SelectEpisode
  <2>2. \A d \in Episodes : Transcribing(d)' = Transcribing(d) BY <2>1 DEF Transcribing
  <2> QED BY <1>3, <2>1, <2>2
<1>7. CASE L!ClaimEpisode BY <1>7, <1>2, ClaimIs
<1> QED BY <1>2, <1>4, <1>5, <1>6, <1>7, Zenon DEF L!Next, Outcome

LEMMA LeftBehindFinite ==
  ASSUME ClaimsMatch, NEW e \in Episodes
  PROVE IsFiniteSet(LeftBehind(e)) /\ Cardinality(LeftBehind(e)) \in Nat
<1>1. IsFiniteSet(LeftBehind(e)) BY FS_Subset DEF ClaimsMatch, LeftBehind, InLease
<1> QED BY <1>1, FS_CardinalityType

LEMMA LateAnswersStep == ASSUME L!Assumptions, HelperInv, L!Next PROVE LateAnswers'
<1> USE DEF HelperTypes, EpisodeJob, L!NoWork
<1>1. HelperTypes /\ HelperTypes' /\ L!TypeOK /\ L!TypeOK' /\ ClaimsMatch /\ LateAnswers
  BY HelperTypesStep DEF HelperInv
<1>2. HelperLease \in Nat /\ clock \in Nat /\ clock' \in Nat BY <1>1 DEF L!Assumptions, L!TypeOK
<1>3. late \in [Episodes -> Nat] /\ late' \in [Episodes -> Nat] BY <1>1 DEF HelperTypes
<1>4. ASSUME NEW d \in Episodes, LeftBehind(d)' \subseteq LeftBehind(d), late'[d] >= late[d]
      PROVE Cardinality(LeftBehind(d)') <= late'[d]
  <2>1. Cardinality(LeftBehind(d)') <= Cardinality(LeftBehind(d)) /\ Cardinality(LeftBehind(d)') \in Nat
    BY <1>4, <1>1, LeftBehindFinite, FS_Subset, FS_CardinalityType
  <2> QED BY <2>1, <1>4, <1>1, LeftBehindFinite DEF LateAnswers
<1>5. ASSUME NEW h \in Helpers, NEW e \in Episodes, NEW at \in Nat, NEW race \in BOOLEAN,
             ClaimedAs(h, e, at, race)
      PROVE  LateAnswers'
  <2>1. ASSUME NEW d \in Episodes \ {e} PROVE LeftBehind(d)' = LeftBehind(d)
    BY <1>5, <1>1, <2>1 DEF ClaimedAs, LeftBehind, InLease, Transcribing, Owns
  <2>2. ASSUME NEW g \in LeftBehind(e)' PROVE g \in LeftBehind(e)
    <3>1. g \in Helpers /\ work'[g][e].at > clock - HelperLease /\ ~Owns(g, e)'
      BY <1>5 DEF ClaimedAs, LeftBehind, InLease, Transcribing
    <3>2. g # h BY <3>1, <1>5, <1>1 DEF ClaimedAs, Owns
    <3>3. work'[g][e] = work[g][e] BY <3>1, <3>2, <1>5, <1>1 DEF ClaimedAs
    <3>4. g \in InLease(e) BY <3>1, <3>3, <2>2 DEF LeftBehind, InLease, Transcribing
    <3>5. ASSUME Owns(g, e) PROVE FALSE
      <4>1. work[g][e].at = job[e].at BY <3>5, <3>4, <1>1 DEF ClaimsMatch, Owns, InLease
      <4> QED BY <4>1, <3>5, <3>1, <3>3, <1>5, <1>1, <1>2 DEF ClaimedAs, L!Held, Owns
    <3> QED BY <3>4, <3>5 DEF LeftBehind
  <2>3. \A d \in Episodes : LeftBehind(d)' \subseteq LeftBehind(d) BY <2>1, <2>2
  <2>4. late' = late BY <1>5 DEF ClaimedAs
  <2> QED BY <2>3, <2>4, <1>3, <1>4 DEF LateAnswers
<1>6. ASSUME NEW h \in Helpers, NEW e \in Episodes, Outcome(h, e) PROVE LateAnswers'
  <2>1. /\ Transcribing(e)' = Transcribing(e) \ {h} /\ \A d \in Episodes \ {e} : Transcribing(d)' = Transcribing(d)
        /\ \A g \in Helpers, d \in Episodes : work'[g][d] = IF g = h /\ d = e THEN L!NoWork ELSE work[g][d]
        /\ claims' = claims /\ clock' = clock
        /\ late' = [late EXCEPT ![e] = IF work[h][e].claim = claims[e] THEN @ ELSE @ + 1]
        /\ \A d \in Episodes \ {e} : job'[d] = job[d]
    <3>1. /\ work' = [work EXCEPT ![h][e] = L!NoWork] /\ claims' = claims /\ clock' = clock
          /\ late' = [late EXCEPT ![e] = IF work[h][e].claim = claims[e] THEN @ ELSE @ + 1]
          /\ \A d \in Episodes \ {e} : job'[d] = job[d]
      BY <1>6, AnswerEnds
    <3>2. HelperTypes /\ work' = [work EXCEPT ![h][e] = L!NoWork] BY <3>1, <1>1
    <3>3. Transcribing(e)' = Transcribing(e) \ {h} BY <3>2, WorkEnds
    <3>4. \A d \in Episodes \ {e} : Transcribing(d)' = Transcribing(d) BY <3>2, WorkEnds
    <3>5. \A g \in Helpers, d \in Episodes : work'[g][d] = IF g = h /\ d = e THEN L!NoWork ELSE work[g][d]
      BY <3>2, WorkEnds
    <3> QED BY <3>1, <3>3, <3>4, <3>5
  <2>2. ASSUME NEW d \in Episodes \ {e} PROVE LeftBehind(d)' = LeftBehind(d) /\ late'[d] = late[d]
    <3>1. \A g \in Helpers : work'[g][d] = work[g][d] BY <2>1
    <3>2. InLease(d)' = InLease(d) BY <2>1, <3>1 DEF InLease, Transcribing
    <3>3. \A g \in InLease(d) : Owns(g, d)' <=> Owns(g, d) BY <2>1, <3>1 DEF InLease, Transcribing, Owns
    <3> QED BY <2>1, <3>2, <3>3, <1>1 DEF LeftBehind
  <2>3. LeftBehind(e)' \subseteq InLease(e) \ {h}
    BY <2>1 DEF LeftBehind, InLease, Transcribing
  <2>4. h \in Transcribing(e) /\ job[e].status = "started" BY <1>6, AnswerEnds
  <2>5. CASE work[h][e].claim = claims[e]
    <3>1. LeftBehind(e)' \subseteq LeftBehind(e)
      BY <2>3, <2>4, <2>5, <1>1 DEF LeftBehind, InLease, Owns, ClaimsMatch
    <3>2. late'[e] = late[e] BY <2>5, <2>1, <1>1
    <3>3. \A d \in Episodes : LeftBehind(d)' \subseteq LeftBehind(d) /\ late'[d] = late[d]
      BY <3>1, <3>2, <2>2
    <3> QED BY <3>3, <1>4, <1>3 DEF LateAnswers
  <2>6. CASE work[h][e].claim # claims[e]
    <3>1. late'[e] = late[e] + 1 BY <2>6, <2>1, <1>1
    <3>2. CASE \E g \in Transcribing(e) : Owns(g, e)
      <4>1. PICK g \in Transcribing(e) : Owns(g, e) BY <3>2
      <4>2. LeftBehind(e)' \subseteq LeftBehind(e) \cup {g}
        BY <2>3, <4>1, <1>1 DEF LeftBehind, InLease, Owns, ClaimsMatch
      <4>3. IsFiniteSet(LeftBehind(e) \cup {g})
            /\ Cardinality(LeftBehind(e) \cup {g}) <= Cardinality(LeftBehind(e)) + 1
        <5>1. IsFiniteSet(LeftBehind(e)) /\ Cardinality(LeftBehind(e)) \in Nat BY <1>1, LeftBehindFinite
        <5>2. IsFiniteSet(LeftBehind(e) \cup {g}) /\ Cardinality(LeftBehind(e) \cup {g}) =
               IF g \in LeftBehind(e) THEN Cardinality(LeftBehind(e)) ELSE Cardinality(LeftBehind(e)) + 1
          BY <5>1, FS_AddElement
        <5> QED BY <5>1, <5>2
      <4>4. Cardinality(LeftBehind(e)') <= Cardinality(LeftBehind(e)) + 1
        <5>1. IsFiniteSet(LeftBehind(e)) /\ Cardinality(LeftBehind(e)) \in Nat BY <1>1, LeftBehindFinite
        <5>2. Cardinality(LeftBehind(e)') <= Cardinality(LeftBehind(e) \cup {g}) BY <4>2, <4>3, FS_Subset
        <5>3. Cardinality(LeftBehind(e) \cup {g}) \in Nat /\ Cardinality(LeftBehind(e)') \in Nat
          BY <4>2, <4>3, FS_Subset, FS_CardinalityType
        <5> QED BY <5>1, <5>2, <5>3, <4>3
      <4>5. Cardinality(LeftBehind(e)') \in Nat BY <4>2, <4>3, FS_Subset, FS_CardinalityType
      <4>6. Cardinality(LeftBehind(e)') <= late'[e]
        BY <4>4, <4>5, <3>1, <1>1, LeftBehindFinite DEF LateAnswers
      <4>7. ASSUME NEW d \in Episodes \ {e} PROVE Cardinality(LeftBehind(d)') <= late'[d]
        BY <2>2, <1>4, <1>3
      <4> QED BY <4>6, <4>7 DEF LateAnswers
    <3>3. CASE ~\E g \in Transcribing(e) : Owns(g, e)
      <4>1. LeftBehind(e)' \subseteq LeftBehind(e) BY <2>3, <3>3 DEF LeftBehind, InLease
      <4>2. \A d \in Episodes : LeftBehind(d)' \subseteq LeftBehind(d) /\ late'[d] >= late[d]
        BY <4>1, <3>1, <2>2, <1>3
      <4> QED BY <4>2, <1>4 DEF LateAnswers
    <3> QED BY <3>2, <3>3
  <2> QED BY <2>5, <2>6
<1>7. ASSUME NEW h \in Helpers, NEW e \in Episodes, L!NotClaimed(h, e) \/ L!HelperStops(h, e)
      PROVE LateAnswers'
  <2>a. work' = [work EXCEPT ![h][e] = L!NoWork] /\ UNCHANGED <<clock, job, claims, late>>
    BY <1>7 DEF L!NotClaimed, L!HelperStops
  <2>b. \A g \in Helpers, d \in Episodes : work'[g][d] = IF g = h /\ d = e THEN L!NoWork ELSE work[g][d]
    BY <2>a, <1>1, WorkEnds
  <2>1. ASSUME NEW d \in Episodes PROVE LeftBehind(d)' \subseteq LeftBehind(d) /\ late'[d] = late[d]
    <3>1. \A g \in Transcribing(d)' : g \in Helpers /\ work'[g][d] = work[g][d] BY <2>b DEF Transcribing
    <3> QED BY <2>a, <3>1 DEF LeftBehind, InLease, Transcribing, Owns
  <2>2. \A d \in Episodes : LeftBehind(d)' \subseteq LeftBehind(d) /\ late'[d] >= late[d]
    BY <2>1, <1>3
  <2> QED BY <2>2, <1>4 DEF LateAnswers
<1>8. CASE \/ L!ClaimDies \/ \E e \in Episodes : L!Exclude(e)
           \/ \E h \in Helpers, e \in Episodes : L!SelectEpisode(h, e)
  <2>1. ASSUME NEW d \in Episodes PROVE LeftBehind(d)' = LeftBehind(d) /\ late'[d] = late[d]
    BY <1>8 DEF L!Exclude, L!ClaimDies, L!SelectEpisode, LeftBehind, InLease, Transcribing, Owns
  <2>2. \A d \in Episodes : LeftBehind(d)' \subseteq LeftBehind(d) /\ late'[d] >= late[d]
    BY <2>1, <1>3
  <2> QED BY <2>2, <1>4 DEF LateAnswers
<1>9. CASE L!Tick
  <2>1. ASSUME NEW d \in Episodes PROVE LeftBehind(d)' \subseteq LeftBehind(d) /\ late'[d] = late[d]
    BY <1>9, <1>1, <1>2 DEF L!Tick, LeftBehind, InLease, Transcribing, Owns
  <2>2. \A d \in Episodes : LeftBehind(d)' \subseteq LeftBehind(d) /\ late'[d] >= late[d]
    BY <2>1, <1>3
  <2> QED BY <2>2, <1>4 DEF LateAnswers
<1>10. CASE L!ClaimEpisode BY <1>10, <1>5, ClaimIs
<1> QED BY <1>5, <1>6, <1>7, <1>8, <1>9, <1>10, Zenon DEF L!Next, Outcome

LEMMA TranscriptStep == ASSUME L!Assumptions, HelperInv, L!Next PROVE L!TranscriptStands'
<1> DEFINE Completed(d) == IF job[d].status = "completed" THEN 1 ELSE 0
<1>1. /\ job \in [Episodes -> EpisodeJob] /\ transcripts \in [Episodes -> Nat] /\ reopened \in [Episodes -> Nat]
      /\ \A d \in Episodes : transcripts[d] \in Completed(d) .. Completed(d) + reopened[d]
  BY DEF HelperInv, HelperTypes, L!TranscriptStands
<1>2. ASSUME NEW h \in Helpers, NEW e \in Episodes, NEW at \in Nat, NEW race \in BOOLEAN,
             ClaimedAs(h, e, at, race)
      PROVE  L!TranscriptStands'
  <2>1. /\ transcripts' = transcripts /\ job'[e].status = "started"
        /\ \A d \in Episodes \ {e} : job'[d] = job[d] /\ reopened'[d] = reopened[d]
        /\ reopened'[e] = IF race THEN reopened[e] + 1 ELSE reopened[e]
        /\ ~race => job[e].status # "completed"
    BY <1>1, <1>2 DEF ClaimedAs
  <2> SUFFICES ASSUME NEW d \in Episodes
               PROVE (transcripts[d] \in Completed(d) .. Completed(d) + reopened[d])'
    BY DEF L!TranscriptStands
  <2>2. transcripts[d] \in Nat /\ reopened[d] \in Nat
        /\ transcripts[d] \in Completed(d) .. Completed(d) + reopened[d]
    BY <1>1
  <2>3. CASE d # e BY <2>1, <2>2, <2>3
  <2>4. CASE d = e BY <2>1, <2>2, <2>4
  <2> QED BY <2>3, <2>4
<1>3. ASSUME NEW h \in Helpers, NEW e \in Episodes, Outcome(h, e) PROVE L!TranscriptStands'
  <2>1. /\ \A d \in Episodes \ {e} : job'[d] = job[d] /\ transcripts'[d] = transcripts[d]
        /\ reopened' = reopened /\ job[e].status = "started"
        /\ \/ job'[e].status = "completed" /\ transcripts'[e] = transcripts[e] + 1
           \/ job'[e].status # "completed" /\ transcripts'[e] = transcripts[e]
    BY <1>3, AnswerEnds
  <2> SUFFICES ASSUME NEW d \in Episodes
               PROVE (transcripts[d] \in Completed(d) .. Completed(d) + reopened[d])'
    BY DEF L!TranscriptStands
  <2>2. transcripts[d] \in Nat /\ reopened[d] \in Nat
        /\ transcripts[d] \in Completed(d) .. Completed(d) + reopened[d]
    BY <1>1
  <2>3. CASE d # e BY <2>1, <2>2, <2>3
  <2>4. CASE d = e
    <3>1. Completed(e) = 0 BY <2>1
    <3>2. transcripts[e] \in 0..reopened[e] BY <3>1, <2>2, <2>4
    <3>3. CASE job'[e].status = "completed" BY <3>2, <3>3, <2>1, <2>2, <2>4
    <3>4. CASE job'[e].status # "completed" BY <3>2, <3>4, <2>1, <2>2, <2>4
    <3> QED BY <3>3, <3>4
  <2> QED BY <2>3, <2>4
<1>4. CASE \/ L!Tick \/ L!ClaimDies \/ \E e \in Episodes : L!Exclude(e)
           \/ \E h \in Helpers, e \in Episodes :
                L!SelectEpisode(h, e) \/ L!NotClaimed(h, e) \/ L!HelperStops(h, e)
  <2>1. UNCHANGED <<job, transcripts, reopened>>
    BY <1>4, Zenon DEF L!Tick, L!ClaimDies, L!Exclude, L!SelectEpisode, L!NotClaimed, L!HelperStops
  <2> QED BY <2>1, <1>1 DEF L!TranscriptStands
<1>5. CASE L!ClaimEpisode BY <1>5, <1>2, ClaimIs
<1> QED BY <1>2, <1>3, <1>4, <1>5, Zenon DEF L!Next, Outcome

LEMMA HelperInvStep == ASSUME L!Assumptions, HelperInv, [L!Next]_L!vars PROVE HelperInv'
<1>1. CASE L!Next BY <1>1, HelperTypesStep, SelectedStep, ClaimsMatchStep, LateAnswersStep, TranscriptStep DEF HelperInv
<1>2. CASE UNCHANGED L!vars
  <2> USE <1>2 DEF L!vars
  <2>1. L!TypeOK' BY DEF L!TypeOK, HelperInv
  <2>2. HelperTypes' BY DEF HelperTypes, HelperInv, EpisodeJob
  <2>5. SelectedOk' BY DEF SelectedOk, HelperInv, L!Held
  <2>3. \A e \in Episodes : Transcribing(e)' = Transcribing(e) /\ LeftBehind(e)' = LeftBehind(e)
    BY DEF Transcribing, LeftBehind, InLease, Owns
  <2>4. ClaimsMatch' /\ LateAnswers' /\ L!TranscriptStands'
    BY <2>3 DEF ClaimsMatch, LateAnswers, L!TranscriptStands, HelperInv
  <2> QED BY <2>1, <2>2, <2>4, <2>5 DEF HelperInv
<1> QED BY <1>1, <1>2

LEMMA HelpersOverlapHolds == ASSUME HelperInv PROVE L!HelpersOverlap
<1> USE DEF HelperInv
<1> SUFFICES ASSUME NEW e \in Episodes PROVE Cardinality(InLease(e)) <= 1 + late[e]
  <2>1. ASSUME NEW e \in Episodes
        PROVE InLease(e) = {h \in Helpers : work[h][e] # L!NoWork /\ work[h][e].at > clock - HelperLease}
    BY DEF InLease, Transcribing
  <2> QED BY <2>1, SameCounts DEF L!HelpersOverlap
<1>1. IsFiniteSet(LeftBehind(e)) /\ Cardinality(LeftBehind(e)) \in Nat /\ late[e] \in Nat
      /\ Cardinality(LeftBehind(e)) <= late[e]
  BY LeftBehindFinite DEF LateAnswers, HelperTypes
<1>2. CASE \E g \in Transcribing(e) : Owns(g, e)
  <2>1. PICK g \in Transcribing(e) : Owns(g, e) BY <1>2
  <2>2. InLease(e) \subseteq LeftBehind(e) \cup {g}
    BY <2>1 DEF LeftBehind, InLease, Owns, ClaimsMatch
  <2>3. IsFiniteSet(LeftBehind(e) \cup {g})
        /\ Cardinality(LeftBehind(e) \cup {g}) <= Cardinality(LeftBehind(e)) + 1
    <3>1. IsFiniteSet(LeftBehind(e)) /\ Cardinality(LeftBehind(e)) \in Nat BY <1>1
    <3>2. IsFiniteSet(LeftBehind(e) \cup {g}) /\ Cardinality(LeftBehind(e) \cup {g}) =
           IF g \in LeftBehind(e) THEN Cardinality(LeftBehind(e)) ELSE Cardinality(LeftBehind(e)) + 1
      BY <3>1, FS_AddElement
    <3> QED BY <3>1, <3>2
  <2> QED BY <2>2, <2>3, <1>1, FS_Subset, FS_CardinalityType
<1>3. CASE ~\E g \in Transcribing(e) : Owns(g, e)
  <2>1. InLease(e) = LeftBehind(e) BY <1>3 DEF LeftBehind, InLease
  <2> QED BY <2>1, <1>1
<1> QED BY <1>2, <1>3

-----------------------------------------------------------------------------
(* TranscriptChecks. *)

InCheck(w) == tcWorker[w].pc \in {"fetch", "fetched", "store", "finish"}
CheckDays == 0..C!DayOf(CheckTicks)
CheckRow == [status : {"none", "started", "completed", "skipped", "failed"}, at : Nat,
             attempts : Nat, limit : 0..CheckReserve, limited : BOOLEAN]
Checker == [pc : {"rest", "batch", "fetch", "fetched", "store", "finish"}, video : Videos \cup {None},
            result : C!Result \cup {"ingest_failed", None}, requests : 0..CheckReserve]

CheckTypes ==
  /\ tcRow \in [Videos -> CheckRow] /\ tcWorker \in [Workers -> Checker]
  /\ tcSent \in [CheckDays -> SUBSET (Videos \X (1..CheckReserve))]
  /\ \A v \in Videos : tcRow[v].status = "none" => tcRow[v].attempts = 0

\* A claim is its worker's until the worker rests: the row is the one it made.
ClaimHeld(w) ==
  LET v == tcWorker[w].video IN
  IF InCheck(w)
  THEN /\ v \in Videos /\ tcRow[v].status = "started" /\ tcClock < tcRow[v].at + CheckDay
       /\ tcWorker[w].pc \in {"fetch", "fetched"} => tcRow[v].limit = CheckReserve
       /\ tcWorker[w].pc = "store" => tcWorker[w].result = "ok"
       /\ tcWorker[w].pc = "finish" /\ tcWorker[w].result = "ok" => v \in tcStored
       /\ tcWorker[w].pc = "fetch" => \A k \in 1..CheckReserve : <<v, k>> \notin tcSent[C!DayOf(tcRow[v].at)]
       /\ tcWorker[w].pc = "fetched" =>
            \A k \in 1..CheckReserve : <<v, k>> \in tcSent[C!DayOf(tcRow[v].at)] => k <= tcWorker[w].requests
  ELSE v = None

ClaimsHeld == \A w \in Workers : ClaimHeld(w)

SentInTime ==
  \A d \in CheckDays : \A q \in tcSent[d] : tcRow[q[1]].status # "none" /\ d <= C!DayOf(tcRow[q[1]].at)

\* The requests of a day's claims: those sent, and those a worker may yet send.
ToSend(d) ==
  {q \in Videos \X (1..CheckReserve) :
     C!DayOf(tcRow[q[1]].at) = d /\ \E w \in Workers : tcWorker[w].pc = "fetch" /\ tcWorker[w].video = q[1]}
Committed(d) == tcSent[d] \cup ToSend(d)

BudgetKept == \A d \in CheckDays : Cardinality(Committed(d)) <= CheckBudget
TodayReserved == Committed(C!DayOf(tcClock)) \subseteq C!Reserved

CheckInv ==
  /\ C!TypeOK /\ CheckTypes /\ ClaimsHeld /\ C!WorkersApart
  /\ SentInTime /\ BudgetKept /\ TodayReserved /\ C!CompletedIsStored

LEMMA CheckSizes ==
  ASSUME C!Assumptions
  PROVE  /\ CheckReserve \in Nat \ {0} /\ CheckBudget \in Nat \ {0} /\ CheckAttempts \in Nat \ {0}
         /\ CheckDay \in Nat \ {0} /\ CheckTicks \in Nat \ {0}
         /\ IsFiniteSet(Videos) /\ None \notin Videos
BY SameCounts DEF C!Assumptions

LEMMA DaysOf ==
  ASSUME C!Assumptions
  PROVE  /\ \A t \in 0..CheckTicks : C!DayOf(t) \in CheckDays
         /\ \A s \in Nat, t \in Nat : s <= t => C!DayOf(s) <= C!DayOf(t)
         /\ \A s \in Nat, t \in Nat : s <= t - CheckDay => C!DayOf(s) < C!DayOf(t)
         /\ \A t \in Nat : C!DayOf(t) \in Nat
<1> USE CheckSizes
<1>1. \A t \in Nat : C!DayOf(t) \in Nat BY DivBounds DEF C!DayOf
<1>2. \A s \in Nat, t \in Nat : s <= t => C!DayOf(s) <= C!DayOf(t) BY DivMono DEF C!DayOf
<1>3. \A s \in Nat, t \in Nat : s <= t - CheckDay => C!DayOf(s) < C!DayOf(t) BY DivLess DEF C!DayOf
<1>4. \A t \in 0..CheckTicks : C!DayOf(t) \in CheckDays BY <1>1, <1>2 DEF CheckDays
<1> QED BY <1>1, <1>2, <1>3, <1>4

LEMMA CommittedFinite ==
  ASSUME C!Assumptions, CheckTypes, NEW d \in CheckDays
  PROVE  /\ Committed(d) \subseteq Videos \X (1..CheckReserve)
         /\ IsFiniteSet(Videos \X (1..CheckReserve))
         /\ IsFiniteSet(Committed(d)) /\ Cardinality(Committed(d)) \in Nat
<1>1. IsFiniteSet(1..CheckReserve) BY CheckSizes, FS_Interval
<1>2. IsFiniteSet(Videos \X (1..CheckReserve)) BY <1>1, CheckSizes, FS_Product
<1>3. Committed(d) \subseteq Videos \X (1..CheckReserve) BY DEF Committed, ToSend, CheckTypes
<1> QED BY <1>2, <1>3, FS_Subset, FS_CardinalityType

LEMMA CheckStart == ASSUME C!Assumptions, C!Init PROVE CheckInv
<1> USE DEF C!Init, C!Resting
<1>1. CheckTypes BY CheckSizes DEF CheckTypes, CheckRow, Checker, CheckDays
<1>2. C!TypeOK
  <2>1. \A w \in Workers : tcWorker[w].pc \in {"rest", "batch", "fetch", "fetched", "store", "finish"}
    OBVIOUS
  <2>2. \A v \in Videos : tcRow[v] \in CheckRow BY <1>1 DEF CheckTypes
  <2>3. \A v \in Videos : tcRow[v].at \in 0..tcClock /\ tcRow[v].attempts \in 0..CheckAttempts BY CheckSizes
  <2>4. \A v \in Videos : tcRow[v].limit \in 0..CheckReserve /\ tcRow[v].limited \in BOOLEAN
                         /\ tcRow[v].status \in {"none", "started", "completed", "skipped", "failed"}
    BY <2>2 DEF CheckRow
  <2> QED BY <2>1, <2>3, <2>4, CheckSizes DEF C!TypeOK
<1>3. ClaimsHeld /\ C!WorkersApart /\ C!CompletedIsStored
  BY DEF ClaimsHeld, ClaimHeld, InCheck, C!WorkersApart, C!CompletedIsStored
<1>4. \A d \in CheckDays : tcSent[d] = {} BY DEF CheckDays
<1>5. SentInTime BY <1>4 DEF SentInTime
<1>6. \A d \in CheckDays : Committed(d) = {} BY <1>4 DEF Committed, ToSend
<1>7. BudgetKept
  <2> SUFFICES ASSUME NEW d \in CheckDays PROVE Cardinality(Committed(d)) <= CheckBudget BY DEF BudgetKept
  <2>1. Cardinality(Committed(d)) = 0 BY <1>6, FS_EmptySet
  <2> QED BY <2>1, CheckSizes
<1>8. TodayReserved
  <2>1. C!DayOf(tcClock) \in CheckDays BY DaysOf, CheckSizes
  <2> QED BY <2>1, <1>6 DEF TodayReserved
<1> QED BY <1>1, <1>2, <1>3, <1>5, <1>7, <1>8 DEF CheckInv

\* A claim is held on as long as nobody touches its row or sends for it.
LEMMA ClaimKept ==
  ASSUME NEW x \in Workers, ClaimHeld(x), tcWorker'[x] = tcWorker[x], tcClock' = tcClock,
         tcStored \subseteq tcStored',
         InCheck(x) => LET v == tcWorker[x].video IN
           /\ tcRow'[v] = tcRow[v]
           /\ \A k \in 1..CheckReserve : <<v, k>> \in tcSent'[C!DayOf(tcRow[v].at)]
                                    => <<v, k>> \in tcSent[C!DayOf(tcRow[v].at)]
  PROVE  ClaimHeld(x)'
<1>1. InCheck(x)' <=> InCheck(x) BY DEF InCheck
<1>2. CASE ~InCheck(x) BY <1>1, <1>2 DEF ClaimHeld
<1>3. CASE InCheck(x)
  <2> DEFINE v == tcWorker[x].video
  <2>1. tcRow'[v] = tcRow[v] /\ tcWorker'[x].video = v BY <1>3
  <2>2. \A t : C!DayOf(t)' = C!DayOf(t) BY DEF C!DayOf
  <2> QED BY <1>1, <1>3, <2>1, <2>2 DEF ClaimHeld, C!DayOf
<1> QED BY <1>2, <1>3

\* A budget that commits no more than before is kept.
LEMMA BudgetStep ==
  ASSUME C!Assumptions, CheckTypes, BudgetKept, NEW d \in CheckDays, Committed(d)' \subseteq Committed(d)
  PROVE  Cardinality(Committed(d)') <= CheckBudget
<1>1. IsFiniteSet(Committed(d)) /\ Cardinality(Committed(d)) \in Nat BY CommittedFinite
<1>2. Cardinality(Committed(d)') <= Cardinality(Committed(d)) /\ Cardinality(Committed(d)') \in Nat
  BY <1>1, FS_Subset, FS_CardinalityType
<1> QED BY <1>1, <1>2, CheckSizes DEF BudgetKept

\* StartBatch, EndBatch, WorkerDies: a worker holds no claim afterwards.
LEMMA RestsStep ==
  ASSUME C!Assumptions, CheckInv, NEW w \in Workers, NEW next \in {C!Resting, C!Between},
         tcWorker' = [tcWorker EXCEPT ![w] = next], UNCHANGED <<tcClock, tcRow, tcStored, tcSent>>
  PROVE  CheckInv'
<1> USE DEF CheckInv
<1>1. next \in Checker /\ next.video = None /\ next.pc \in {"rest", "batch"}
  BY CheckSizes DEF C!Resting, C!Between, Checker
<1>2. tcWorker'[w] = next /\ \A x \in Workers \ {w} : tcWorker'[x] = tcWorker[x] BY DEF CheckTypes
<1>3. CheckTypes' BY <1>1 DEF CheckTypes, CheckDays, C!DayOf
<1>4. C!TypeOK' BY <1>1, <1>2 DEF C!TypeOK
<1>5. ClaimHeld(w)' BY <1>1, <1>2 DEF ClaimHeld, InCheck
<1>6. \A x \in Workers \ {w} : ClaimHeld(x)' BY <1>2, ClaimKept DEF ClaimsHeld
<1>7. ClaimsHeld' BY <1>5, <1>6 DEF ClaimsHeld
<1>8. C!WorkersApart' BY <1>1, <1>2 DEF C!WorkersApart
<1>9. \A d \in CheckDays : Committed(d)' \subseteq Committed(d)
  BY <1>1, <1>2 DEF Committed, ToSend, C!DayOf
<1>10. CheckDays' = CheckDays BY DEF CheckDays, C!DayOf
<1>11. BudgetKept' BY <1>9, <1>10, BudgetStep DEF BudgetKept
<1>12. C!DayOf(tcClock) \in CheckDays /\ C!DayOf(tcClock)' = C!DayOf(tcClock)
  BY DaysOf DEF C!TypeOK, C!DayOf
<1>13. C!Reserved' = C!Reserved BY DEF C!Reserved, C!Today, C!DayOf
<1>14. TodayReserved' BY <1>9, <1>12, <1>13 DEF TodayReserved
<1>15. SentInTime' BY <1>10 DEF SentInTime, C!DayOf
<1>16. C!CompletedIsStored' BY DEF C!CompletedIsStored
<1> QED BY <1>3, <1>4, <1>7, <1>8, <1>11, <1>14, <1>15, <1>16

LEMMA ClaimCheckStep ==
  ASSUME C!Assumptions, CheckInv, NEW w \in Workers, NEW v \in Videos, C!ClaimCheck(w, v)
  PROVE  CheckInv'
<1> USE DEF CheckInv
<1> DEFINE thisDay == C!DayOf(tcClock)
<1>1. /\ CheckReserve \in Nat \ {0} /\ CheckBudget \in Nat \ {0} /\ CheckAttempts \in Nat \ {0}
      /\ CheckDay \in Nat \ {0} /\ CheckTicks \in Nat \ {0} /\ tcClock \in 0..CheckTicks /\ thisDay \in CheckDays
  BY CheckSizes, DaysOf DEF C!TypeOK
<1>2. /\ tcWorker[w].pc = "batch" /\ C!UsedToday + CheckReserve <= CheckBudget /\ C!Claimable(v)
      /\ UNCHANGED <<tcClock, tcStored, tcSent>>
      /\ tcRow' = [tcRow EXCEPT ![v] = [status |-> "started", at |-> tcClock, attempts |-> tcRow[v].attempts + 1,
                                    limit |-> CheckReserve, limited |-> FALSE]]
      /\ tcWorker' = [tcWorker EXCEPT ![w] = [tcWorker[w] EXCEPT !.pc = "fetch", !.video = v]]
  BY DEF C!ClaimCheck
<1>3. /\ tcWorker'[w] \in Checker /\ tcWorker'[w].pc = "fetch" /\ tcWorker'[w].video = v
      /\ \A x \in Workers \ {w} : tcWorker'[x] = tcWorker[x]
  BY <1>2 DEF CheckTypes, Checker
<1>4. tcRow[v].attempts \in 0..(CheckAttempts - 1)
  BY <1>2, <1>1 DEF C!Claimable, C!TypeOK, CheckTypes
<1>5. /\ tcRow'[v] \in CheckRow /\ tcRow'[v].status = "started" /\ tcRow'[v].at = tcClock
      /\ tcRow'[v].attempts = tcRow[v].attempts + 1 /\ tcRow'[v].limit = CheckReserve /\ tcRow'[v].limited = FALSE
      /\ \A u \in Videos \ {v} : tcRow'[u] = tcRow[u]
  BY <1>2, <1>4, <1>1 DEF CheckTypes, CheckRow
<1>6. CheckTypes'
  <2>1. tcRow' \in [Videos -> CheckRow] /\ tcWorker' \in [Workers -> Checker]
    BY <1>2, <1>3, <1>5 DEF CheckTypes
  <2>2. \A u \in Videos : tcRow'[u].status = "none" => tcRow'[u].attempts = 0
    BY <1>5 DEF CheckTypes
  <2> QED BY <1>2, <2>1, <2>2 DEF CheckTypes, CheckDays, C!DayOf, CheckRow, Checker
<1>7. C!TypeOK'
  <2>1. \A u \in Videos \ {v} : tcRow'[u] = tcRow[u] /\ tcRow[u].at \in 0..tcClock BY <1>5 DEF C!TypeOK
  <2>2. tcRow'[v].attempts \in 0..CheckAttempts /\ tcRow'[v].at \in 0..tcClock BY <1>5, <1>4, <1>1
  <2>3. \A x \in Workers : tcWorker'[x].pc \in {"rest", "batch", "fetch", "fetched", "store", "finish"}
    BY <1>6 DEF CheckTypes, Checker
  <2>4. ASSUME NEW u \in Videos
        PROVE /\ tcRow'[u].status \in {"none", "started", "completed", "skipped", "failed"}
              /\ tcRow'[u].at \in 0..tcClock /\ tcRow'[u].attempts \in 0..CheckAttempts
              /\ tcRow'[u].limit \in 0..CheckReserve /\ tcRow'[u].limited \in BOOLEAN
    <3>1. tcRow'[u] \in CheckRow BY <1>6 DEF CheckTypes, CheckRow
    <3>2. /\ tcRow'[u].limit \in 0..CheckReserve /\ tcRow'[u].limited \in BOOLEAN
          /\ tcRow'[u].status \in {"none", "started", "completed", "skipped", "failed"}
      BY <3>1 DEF CheckRow
    <3>3. CASE u = v BY <3>2, <3>3, <2>2
    <3>4. CASE u # v BY <3>2, <3>4, <2>1 DEF C!TypeOK
    <3> QED BY <3>3, <3>4
  <2> QED BY <1>2, <2>3, <2>4 DEF C!TypeOK
<1>8. \A x \in Workers : InCheck(x) => tcWorker[x].video # v
  <2> SUFFICES ASSUME NEW x \in Workers, InCheck(x), tcWorker[x].video = v PROVE FALSE OBVIOUS
  <2>1. tcRow[v].status = "started" /\ tcClock < tcRow[v].at + CheckDay BY DEF ClaimsHeld, ClaimHeld
  <2> QED BY <2>1, <1>2, <1>1 DEF C!Claimable, CheckTypes, CheckRow
<1>9. \A k \in 1..CheckReserve : <<v, k>> \notin tcSent[thisDay]
  <2> SUFFICES ASSUME NEW k \in 1..CheckReserve, <<v, k>> \in tcSent[thisDay] PROVE FALSE OBVIOUS
  <2>1. tcRow[v].status # "none" /\ thisDay <= C!DayOf(tcRow[v].at) BY <1>1 DEF SentInTime
  <2>2. tcRow[v].at <= tcClock - CheckDay /\ tcRow[v].at \in Nat /\ tcClock \in Nat
    BY <2>1, <1>2, <1>1 DEF C!Claimable, CheckTypes, CheckRow
  <2>3. C!DayOf(tcRow[v].at) < thisDay /\ C!DayOf(tcRow[v].at) \in Nat /\ thisDay \in Nat BY <2>2, DaysOf
  <2> QED BY <2>1, <2>3
<1>10. ClaimsHeld'
  <2>1. ClaimHeld(w)'
    <3>1. InCheck(w)' BY <1>3 DEF InCheck
    <3>2. tcClock' < tcRow'[v].at + CheckDay BY <1>2, <1>5, <1>1
    <3>3. C!DayOf(tcRow'[v].at) = thisDay BY <1>5
    <3> QED BY <3>1, <3>2, <3>3, <1>2, <1>3, <1>5, <1>9 DEF ClaimHeld, C!DayOf
  <2>2. ASSUME NEW x \in Workers \ {w} PROVE ClaimHeld(x)'
    <3>1. InCheck(x) => tcWorker[x].video \in Videos \ {v} BY <1>8 DEF ClaimsHeld, ClaimHeld
    <3> QED BY <3>1, <1>2, <1>3, <1>5, ClaimKept DEF ClaimsHeld
  <2> QED BY <2>1, <2>2 DEF ClaimsHeld
<1>11. C!WorkersApart'
  <2>1. \A x \in Workers \ {w} : tcWorker[x].video # v
    BY <1>8, CheckSizes DEF ClaimsHeld, ClaimHeld
  <2> QED BY <2>1, <1>3 DEF C!WorkersApart
<1>12. CheckDays' = CheckDays /\ thisDay' = thisDay BY <1>2 DEF CheckDays, C!DayOf
<1>13. SentInTime'
  <2> SUFFICES ASSUME NEW d \in CheckDays, NEW q \in tcSent[d]
               PROVE tcRow'[q[1]].status # "none" /\ d <= C!DayOf(tcRow'[q[1]].at)
    BY <1>2, <1>12 DEF SentInTime, C!DayOf
  <2>1. tcRow[q[1]].status # "none" /\ d <= C!DayOf(tcRow[q[1]].at) /\ q[1] \in Videos
    BY DEF SentInTime, CheckTypes
  <2>2. CASE q[1] # v BY <2>1, <2>2, <1>5
  <2>3. CASE q[1] = v
    <3>1. tcRow[v].at \in Nat /\ tcRow[v].at <= tcClock BY <1>1 DEF C!TypeOK
    <3>2. C!DayOf(tcRow[v].at) <= C!DayOf(tcClock) /\ C!DayOf(tcRow[v].at) \in Nat /\ C!DayOf(tcClock) \in Nat
      BY <3>1, <1>1, DaysOf
    <3> QED BY <3>2, <2>1, <2>3, <1>5 DEF CheckDays
  <2> QED BY <2>2, <2>3
<1>14. \A d \in CheckDays \ {thisDay} : Committed(d)' \subseteq Committed(d)
  <2> SUFFICES ASSUME NEW d \in CheckDays \ {thisDay}, NEW q \in ToSend(d)' PROVE q \in ToSend(d)
    BY <1>2 DEF Committed
  <2>1. q \in Videos \X (1..CheckReserve) /\ C!DayOf(tcRow'[q[1]].at) = d
        /\ \E x \in Workers : tcWorker'[x].pc = "fetch" /\ tcWorker'[x].video = q[1]
    BY DEF ToSend, C!DayOf
  <2>2. q[1] # v BY <2>1, <1>5
  <2> QED BY <2>1, <2>2, <1>3, <1>5 DEF ToSend
<1>15. Committed(thisDay)' \subseteq (C!Reserved \ ({v} \X (1..CheckReserve))) \cup ({v} \X (1..CheckReserve))
  <2> SUFFICES ASSUME NEW q \in Committed(thisDay)', q[1] # v PROVE q \in C!Reserved
    <3>1. Committed(thisDay)' \subseteq Videos \X (1..CheckReserve)
      BY <1>6, <1>1, <1>12, CommittedFinite DEF Committed, ToSend, CheckTypes
    <3> QED BY <3>1
  <2>1. q \in Committed(thisDay)
    BY <1>2, <1>3, <1>5, <1>12 DEF Committed, ToSend, C!DayOf
  <2> QED BY <2>1 DEF TodayReserved
<1>16. C!Reserved' = (C!Reserved \ ({v} \X (1..CheckReserve))) \cup ({v} \X (1..CheckReserve))
  BY <1>2, <1>5 DEF C!Reserved, C!Today, C!DayOf
<1>17. TodayReserved' BY <1>12, <1>15, <1>16 DEF TodayReserved
<1>18. Cardinality(Committed(thisDay)') <= CheckBudget
  <2>1. IsFiniteSet(C!Reserved) /\ C!UsedToday \in Nat
    <3>1. C!Reserved \subseteq Videos \X (1..CheckReserve) BY DEF C!Reserved, C!Today
    <3> QED BY <3>1, <1>1, CommittedFinite, FS_Subset, FS_CardinalityType, SameCounts DEF C!UsedToday
  <2>2. IsFiniteSet({v} \X (1..CheckReserve)) /\ Cardinality({v} \X (1..CheckReserve)) = CheckReserve
    <3>1. IsFiniteSet(1..CheckReserve) /\ Cardinality(1..CheckReserve) = CheckReserve BY <1>1, FS_Interval
    <3>2. IsFiniteSet({v}) /\ Cardinality({v}) = 1 BY FS_Singleton
    <3>3. Cardinality({v} \X (1..CheckReserve)) = 1 * CheckReserve /\ IsFiniteSet({v} \X (1..CheckReserve))
      BY ZenonT(30), <3>1, <3>2, FS_Product
    <3> QED BY <3>3, <1>1
  <2>3. /\ IsFiniteSet(C!Reserved \cup ({v} \X (1..CheckReserve)))
        /\ Cardinality(C!Reserved \cup ({v} \X (1..CheckReserve))) <= C!UsedToday + CheckReserve
    <3> DEFINE both == C!Reserved \cap ({v} \X (1..CheckReserve))
    <3>1. IsFiniteSet(both) /\ Cardinality(both) \in Nat BY <2>1, FS_Subset, FS_CardinalityType
    <3>2. IsFiniteSet(C!Reserved \cup ({v} \X (1..CheckReserve)))
          /\ Cardinality(C!Reserved \cup ({v} \X (1..CheckReserve)))
             = Cardinality(C!Reserved) + Cardinality({v} \X (1..CheckReserve)) - Cardinality(both)
      BY <2>1, <2>2, FS_Union
    <3> HIDE DEF both
    <3> QED BY <3>1, <3>2, <2>1, <2>2, <1>1, SameCounts DEF C!UsedToday
  <2>4. Committed(thisDay)' \subseteq C!Reserved \cup ({v} \X (1..CheckReserve)) BY <1>15
  <2>5. Cardinality(Committed(thisDay)') <= Cardinality(C!Reserved \cup ({v} \X (1..CheckReserve)))
        /\ Cardinality(Committed(thisDay)') \in Nat
        /\ Cardinality(C!Reserved \cup ({v} \X (1..CheckReserve))) \in Nat
    BY <2>3, <2>4, FS_Subset, FS_CardinalityType
  <2> QED BY <2>1, <2>3, <2>5, <1>2, <1>1
<1>19. BudgetKept'
  <2>1. \A d \in CheckDays \ {thisDay} : Cardinality(Committed(d)') <= CheckBudget BY <1>14, BudgetStep
  <2> QED BY <2>1, <1>18, <1>12 DEF BudgetKept
<1>20. C!CompletedIsStored' BY <1>2, <1>5 DEF C!CompletedIsStored
<1> QED BY <1>6, <1>7, <1>10, <1>11, <1>13, <1>17, <1>19, <1>20

\* A step of a worker that keeps its claim: only its pc, its result and the row's
\* reservation change.
LEMMA FetchStep ==
  ASSUME C!Assumptions, CheckInv, NEW w \in Workers, NEW n \in 1..CheckReserve, NEW result \in C!Result,
         C!Fetch(w, n, result)
  PROVE  CheckInv'
<1> USE DEF CheckInv
<1> DEFINE v == tcWorker[w].video  claimed == C!DayOf(tcRow[v].at)
<1>1. /\ CheckReserve \in Nat \ {0} /\ CheckBudget \in Nat \ {0} /\ CheckDay \in Nat \ {0}
      /\ CheckTicks \in Nat \ {0} /\ tcClock \in 0..CheckTicks
  BY CheckSizes DEF C!TypeOK
<1>2. /\ tcWorker[w].pc = "fetch" /\ UNCHANGED <<tcClock, tcRow, tcStored>>
      /\ tcSent' = [tcSent EXCEPT ![claimed] = tcSent[claimed] \cup ({v} \X (1..n))]
      /\ tcWorker' = [tcWorker EXCEPT ![w] = [tcWorker[w] EXCEPT !.pc = "fetched", !.result = result, !.requests = n]]
  BY DEF C!Fetch
<1>3. /\ tcWorker'[w] \in Checker /\ tcWorker'[w].pc = "fetched" /\ tcWorker'[w].video = v
      /\ tcWorker'[w].result = result /\ tcWorker'[w].requests = n
      /\ \A x \in Workers \ {w} : tcWorker'[x] = tcWorker[x]
  <2>1. tcWorker[w] \in Checker BY DEF CheckTypes
  <2>2. tcWorker'[w] = [tcWorker[w] EXCEPT !.pc = "fetched", !.result = result, !.requests = n]
        /\ \A x \in Workers \ {w} : tcWorker'[x] = tcWorker[x]
    BY <1>2 DEF CheckTypes
  <2>3. n \in 0..CheckReserve BY <1>1
  <2> QED BY <2>1, <2>2, <2>3 DEF Checker
<1>4. InCheck(w) /\ ClaimHeld(w) BY <1>2 DEF InCheck, ClaimsHeld
<1>5. /\ v \in Videos /\ tcRow[v].status = "started" /\ tcClock < tcRow[v].at + CheckDay /\ tcRow[v].limit = CheckReserve
      /\ \A k \in 1..CheckReserve : <<v, k>> \notin tcSent[claimed]
  BY <1>2, <1>4 DEF ClaimHeld
<1>6. claimed \in CheckDays BY <1>5, <1>1, DaysOf DEF C!TypeOK
<1>7. CheckDays' = CheckDays /\ C!DayOf(tcClock)' = C!DayOf(tcClock) /\ claimed' = claimed
  BY <1>2, <1>3 DEF CheckDays, C!DayOf
<1>8. /\ tcSent'[claimed] = tcSent[claimed] \cup ({v} \X (1..n))
      /\ \A d \in CheckDays \ {claimed} : tcSent'[d] = tcSent[d]
  BY <1>2, <1>6 DEF CheckTypes
<1>9. \A d \in CheckDays : tcSent'[d] \subseteq tcSent[d] \cup ({v} \X (1..n)) BY <1>8
<1>10. CheckTypes'
  <2>1. {v} \X (1..n) \subseteq Videos \X (1..CheckReserve) BY <1>5, <1>1
  <2>2. tcSent' \in [CheckDays -> SUBSET (Videos \X (1..CheckReserve))] BY <1>2, <2>1, <1>6 DEF CheckTypes
  <2>3. tcWorker' \in [Workers -> Checker] BY <1>2, <1>3 DEF CheckTypes
  <2> QED BY <1>2, <2>2, <2>3, <1>7 DEF CheckTypes, CheckRow, Checker, C!Result
<1>11. C!TypeOK'
  <2>1. \A x \in Workers : tcWorker'[x].pc \in {"rest", "batch", "fetch", "fetched", "store", "finish"}
    BY <1>10 DEF CheckTypes, Checker
  <2> QED BY <1>2, <2>1 DEF C!TypeOK
<1>12. ClaimsHeld'
  <2>1. ClaimHeld(w)'
    <3>1. \A k \in 1..CheckReserve : <<v, k>> \in tcSent'[claimed] => k <= n BY <1>5, <1>8
    <3> QED BY <3>1, <1>2, <1>3, <1>5, <1>7 DEF ClaimHeld, InCheck, C!DayOf
  <2>2. ASSUME NEW x \in Workers \ {w} PROVE ClaimHeld(x)'
    <3>1. InCheck(x) => tcWorker[x].video \in Videos \ {v}
      BY <1>5, CheckSizes DEF ClaimsHeld, ClaimHeld, C!WorkersApart
    <3>2. InCheck(x) => \A k \in 1..CheckReserve :
            <<tcWorker[x].video, k>> \in tcSent'[C!DayOf(tcRow[tcWorker[x].video].at)]
              => <<tcWorker[x].video, k>> \in tcSent[C!DayOf(tcRow[tcWorker[x].video].at)]
      <4>1. InCheck(x) => C!DayOf(tcRow[tcWorker[x].video].at) \in CheckDays
        BY <3>1, <1>1, DaysOf DEF C!TypeOK
      <4> QED BY <4>1, <3>1, <1>9
    <3> QED BY <3>2, <1>2, <1>3, ClaimKept DEF ClaimsHeld
  <2> QED BY <2>1, <2>2 DEF ClaimsHeld
<1>13. C!WorkersApart' BY <1>3 DEF C!WorkersApart
<1>14. SentInTime'
  <2> SUFFICES ASSUME NEW d \in CheckDays, NEW q \in tcSent'[d]
               PROVE tcRow[q[1]].status # "none" /\ d <= C!DayOf(tcRow[q[1]].at)
    BY <1>2, <1>7 DEF SentInTime, C!DayOf
  <2>1. CASE q \in tcSent[d] BY <2>1 DEF SentInTime
  <2>2. CASE q \notin tcSent[d]
    <3>1. d = claimed /\ q[1] = v BY <2>2, <1>8
    <3> QED BY <3>1, <1>5, <1>6 DEF CheckDays
  <2> QED BY <2>1, <2>2
<1>15. \A d \in CheckDays : Committed(d)' \subseteq Committed(d)
  <2> SUFFICES ASSUME NEW d \in CheckDays, NEW q \in Committed(d)' PROVE q \in Committed(d) OBVIOUS
  <2>1. CASE q \in ToSend(d)' BY ZenonT(30), <2>1, <1>2, <1>3 DEF Committed, ToSend, C!DayOf
  <2>2. CASE q \in tcSent[d] BY <2>2 DEF Committed
  <2>3. CASE q \in tcSent'[d] \ tcSent[d]
    <3>1. d = claimed /\ q \in {v} \X (1..n) BY <2>3, <1>8
    <3>2. q \in Videos \X (1..CheckReserve) /\ q[1] = v BY <3>1, <1>5, <1>1
    <3> QED BY <3>1, <3>2, <1>2 DEF Committed, ToSend
  <2> QED BY <2>1, <2>2, <2>3 DEF Committed
<1>16. BudgetKept' BY <1>15, <1>7, BudgetStep DEF BudgetKept
<1>17. TodayReserved'
  <2>1. C!DayOf(tcClock) \in CheckDays BY <1>1, DaysOf
  <2>2. C!Reserved' = C!Reserved BY <1>2 DEF C!Reserved, C!Today, C!DayOf
  <2> QED BY <2>1, <2>2, <1>15, <1>7 DEF TodayReserved
<1>18. C!CompletedIsStored' BY <1>2 DEF C!CompletedIsStored
<1> QED BY <1>10, <1>11, <1>12, <1>13, <1>14, <1>16, <1>17, <1>18

LEMMA GiveBackStep ==
  ASSUME C!Assumptions, CheckInv, NEW w \in Workers, C!GiveBack(w) PROVE CheckInv'
<1> USE DEF CheckInv
<1> DEFINE v == tcWorker[w].video
           next == [tcWorker[w] EXCEPT !.pc = IF tcWorker[w].result = "ok" THEN "store" ELSE "finish", !.requests = 0]
<1>1. /\ CheckReserve \in Nat \ {0} /\ CheckBudget \in Nat \ {0} /\ CheckDay \in Nat \ {0}
      /\ CheckTicks \in Nat \ {0} /\ tcClock \in 0..CheckTicks
  BY CheckSizes DEF C!TypeOK
<1>2. /\ tcWorker[w].pc = "fetched" /\ UNCHANGED <<tcClock, tcStored, tcSent>>
      /\ tcRow' = [tcRow EXCEPT ![v].limit = tcWorker[w].requests]
      /\ tcWorker' = [tcWorker EXCEPT ![w] = next]
  BY DEF C!GiveBack
<1>3. tcWorker[w] \in Checker /\ tcWorker[w].requests \in 0..CheckReserve BY DEF CheckTypes, Checker
<1>4. /\ tcWorker'[w] = next /\ next \in Checker /\ next.video = v /\ next.result = tcWorker[w].result
      /\ next.pc = IF tcWorker[w].result = "ok" THEN "store" ELSE "finish"
      /\ \A x \in Workers \ {w} : tcWorker'[x] = tcWorker[x]
  <2>1. tcWorker'[w] = next /\ \A x \in Workers \ {w} : tcWorker'[x] = tcWorker[x] BY <1>2 DEF CheckTypes
  <2>2. PICK pc \in {"store", "finish"} :
          /\ pc = IF tcWorker[w].result = "ok" THEN "store" ELSE "finish"
          /\ next = [tcWorker[w] EXCEPT !.pc = pc, !.requests = 0]
    OBVIOUS
  <2>3. 0 \in 0..CheckReserve BY <1>1
  <2> HIDE DEF next, v
  <2>4. /\ next \in Checker /\ next.video = tcWorker[w].video /\ next.result = tcWorker[w].result
        /\ next.pc = pc
    BY <2>2, <2>3, <1>3 DEF Checker
  <2> QED BY <2>1, <2>2, <2>4 DEF v
<1>5. InCheck(w) /\ ClaimHeld(w) BY <1>2 DEF InCheck, ClaimsHeld
<1>6. /\ v \in Videos /\ tcRow[v].status = "started" /\ tcClock < tcRow[v].at + CheckDay
      /\ \A k \in 1..CheckReserve : <<v, k>> \in tcSent[C!DayOf(tcRow[v].at)] => k <= tcWorker[w].requests
  BY <1>2, <1>5 DEF ClaimHeld
<1>7. /\ tcRow'[v] \in CheckRow /\ tcRow'[v].status = "started" /\ tcRow'[v].at = tcRow[v].at
      /\ tcRow'[v].attempts = tcRow[v].attempts /\ tcRow'[v].limit = tcWorker[w].requests
      /\ \A u \in Videos \ {v} : tcRow'[u] = tcRow[u]
  BY <1>2, <1>6, <1>3 DEF CheckTypes, CheckRow
<1>8. \A u \in Videos : tcRow'[u].at = tcRow[u].at /\ tcRow'[u].status = tcRow[u].status
                       /\ tcRow'[u].attempts = tcRow[u].attempts
  BY <1>6, <1>7
<1> HIDE DEF next
<1>9. CheckTypes'
  <2>1. tcRow' \in [Videos -> CheckRow] /\ tcWorker' \in [Workers -> Checker]
    BY <1>2, <1>4, <1>7 DEF CheckTypes
  <2> QED BY <1>2, <1>8, <2>1 DEF CheckTypes, CheckDays, C!DayOf, CheckRow, Checker, C!Result
<1>10. C!TypeOK'
  <2>1. \A x \in Workers : tcWorker'[x].pc \in {"rest", "batch", "fetch", "fetched", "store", "finish"}
    BY <1>9 DEF CheckTypes, Checker
  <2>2. \A u \in Videos : tcRow'[u].limit \in 0..CheckReserve /\ tcRow'[u].limited \in BOOLEAN
    BY <1>9 DEF CheckTypes, CheckRow
  <2> QED BY <1>2, <1>8, <2>1, <2>2 DEF C!TypeOK
<1>11. ClaimsHeld'
  <2>1. ClaimHeld(w)' BY SMTT(20), <1>2, <1>4, <1>6, <1>7 DEF ClaimHeld, InCheck
  <2>2. ASSUME NEW x \in Workers \ {w} PROVE ClaimHeld(x)'
    <3>1. InCheck(x) => tcWorker[x].video \in Videos \ {v}
      BY <1>6, CheckSizes DEF ClaimsHeld, ClaimHeld, C!WorkersApart
    <3> QED BY <3>1, <1>2, <1>4, <1>7, ClaimKept DEF ClaimsHeld
  <2> QED BY <2>1, <2>2 DEF ClaimsHeld
<1>12. C!WorkersApart' BY <1>4 DEF C!WorkersApart
<1>13. CheckDays' = CheckDays /\ C!DayOf(tcClock)' = C!DayOf(tcClock) BY <1>2 DEF CheckDays, C!DayOf
<1>14. SentInTime'
  <2>1. \A d \in CheckDays : \A q \in tcSent[d] : q[1] \in Videos BY DEF CheckTypes
  <2> QED BY <1>2, <1>8, <1>13, <2>1 DEF SentInTime, C!DayOf
<1>15. \A d \in CheckDays : Committed(d)' \subseteq Committed(d)
  BY <1>2, <1>4, <1>8 DEF Committed, ToSend, C!DayOf
<1>16. BudgetKept' BY <1>15, <1>13, BudgetStep DEF BudgetKept
<1>17. TodayReserved'
  <2>1. C!DayOf(tcClock) \in CheckDays BY <1>1, DaysOf
  <2> SUFFICES ASSUME NEW q \in Committed(C!DayOf(tcClock))' PROVE q \in C!Reserved'
    BY <1>13 DEF TodayReserved
  <2>2. q \in Committed(C!DayOf(tcClock)) BY <2>1, <1>13, <1>15 DEF Committed, ToSend, C!DayOf
  <2>3. q \in C!Reserved BY <2>2 DEF TodayReserved
  <2>4. C!Today' = C!Today BY <1>8, <1>13 DEF C!Today, C!DayOf
  <2>5. q \in C!Today \X (1..CheckReserve) /\ q[2] <= tcRow[q[1]].limit BY <2>3 DEF C!Reserved
  <2>6. CASE q[1] # v
    <3>1. tcRow'[q[1]] = tcRow[q[1]] BY <2>5, <2>6, <1>7 DEF C!Today
    <3> QED BY <3>1, <2>4, <2>5 DEF C!Reserved
  <2>7. CASE q[1] = v
    <3>1. q \notin ToSend(C!DayOf(tcClock))'
      BY <1>2, <1>4, <1>6, <2>7, CheckSizes DEF ToSend, C!WorkersApart
    <3>2. q \in tcSent[C!DayOf(tcClock)] BY <3>1, <1>2, <1>13 DEF Committed, C!DayOf
    <3>3. C!DayOf(tcRow[v].at) = C!DayOf(tcClock) BY <2>5, <2>7 DEF C!Today
    <3>4. q = <<v, q[2]>> /\ q[2] \in 1..CheckReserve BY <2>5, <2>7
    <3>5. q[2] <= tcWorker[w].requests BY <3>2, <3>3, <3>4, <1>6
    <3> QED BY <3>5, <2>4, <2>5, <2>7, <1>7 DEF C!Reserved
  <2> QED BY <2>6, <2>7
<1>18. C!CompletedIsStored' BY <1>2, <1>8 DEF C!CompletedIsStored
<1> QED BY <1>9, <1>10, <1>11, <1>12, <1>14, <1>16, <1>17, <1>18

LEMMA StoreStep ==
  ASSUME C!Assumptions, CheckInv, NEW w \in Workers, C!Store(w) PROVE CheckInv'
<1> USE DEF CheckInv
<1> DEFINE v == tcWorker[w].video
<1>1. /\ tcWorker[w].pc = "store" /\ UNCHANGED <<tcClock, tcRow, tcSent>>
      /\ \/ tcStored' = tcStored \cup {v} /\ tcWorker' = [tcWorker EXCEPT ![w].pc = "finish"]
         \/ /\ tcStored' = tcStored
            /\ tcWorker' = [tcWorker EXCEPT ![w] = [tcWorker[w] EXCEPT !.pc = "finish", !.result = "ingest_failed"]]
  BY DEF C!Store
<1>2. /\ tcWorker'[w] \in Checker /\ tcWorker'[w].pc = "finish" /\ tcWorker'[w].video = v
      /\ tcWorker' = [tcWorker EXCEPT ![w] = tcWorker'[w]]
      /\ tcWorker'[w].result = "ok" => v \in tcStored'
      /\ \A x \in Workers \ {w} : tcWorker'[x] = tcWorker[x]
  <2>1. tcWorker[w] \in Checker BY DEF CheckTypes
  <2>2. CASE tcStored' = tcStored \cup {v} /\ tcWorker' = [tcWorker EXCEPT ![w].pc = "finish"]
    BY <2>1, <2>2 DEF CheckTypes, Checker
  <2>3. CASE tcWorker' = [tcWorker EXCEPT ![w] = [tcWorker[w] EXCEPT !.pc = "finish", !.result = "ingest_failed"]]
    BY <2>1, <2>3 DEF CheckTypes, Checker
  <2> QED BY <1>1, <2>2, <2>3
<1>3. InCheck(w) /\ ClaimHeld(w) BY <1>1 DEF InCheck, ClaimsHeld
<1>4. v \in Videos /\ tcRow[v].status = "started" /\ tcClock < tcRow[v].at + CheckDay
  BY <1>3 DEF ClaimHeld
<1>5. tcStored \subseteq tcStored' /\ tcStored' \subseteq Videos BY <1>1, <1>4 DEF C!TypeOK
<1>6. CheckDays' = CheckDays /\ C!DayOf(tcClock)' = C!DayOf(tcClock) BY <1>1 DEF CheckDays, C!DayOf
<1>7. CheckTypes'
  <2>1. tcWorker' \in [Workers -> Checker] BY <1>2 DEF CheckTypes
  <2> QED BY <1>1, <1>6, <2>1 DEF CheckTypes, CheckRow, Checker, C!Result
<1>8. C!TypeOK'
  <2>1. \A x \in Workers : tcWorker'[x].pc \in {"rest", "batch", "fetch", "fetched", "store", "finish"}
    BY <1>7 DEF CheckTypes, Checker
  <2> QED BY <1>1, <1>5, <2>1 DEF C!TypeOK
<1>9. ClaimsHeld'
  <2>1. ClaimHeld(w)' BY <1>1, <1>2, <1>4 DEF ClaimHeld, InCheck
  <2>2. ASSUME NEW x \in Workers \ {w} PROVE ClaimHeld(x)'
    BY <1>1, <1>2, <1>5, ClaimKept DEF ClaimsHeld
  <2> QED BY <2>1, <2>2 DEF ClaimsHeld
<1>10. C!WorkersApart' BY <1>2 DEF C!WorkersApart
<1>11. SentInTime' BY <1>1, <1>6 DEF SentInTime, C!DayOf
<1>12. \A d \in CheckDays : Committed(d)' \subseteq Committed(d)
  BY <1>1, <1>2 DEF Committed, ToSend, C!DayOf
<1>13. BudgetKept' BY <1>12, <1>6, BudgetStep DEF BudgetKept
<1>14. TodayReserved'
  <2>1. C!DayOf(tcClock) \in CheckDays BY DaysOf DEF C!TypeOK
  <2>2. C!Reserved' = C!Reserved BY <1>1 DEF C!Reserved, C!Today, C!DayOf
  <2> QED BY <2>1, <2>2, <1>12, <1>6 DEF TodayReserved
<1>15. C!CompletedIsStored' BY <1>1, <1>5 DEF C!CompletedIsStored
<1> QED BY <1>7, <1>8, <1>9, <1>10, <1>11, <1>13, <1>14, <1>15

LEMMA FinishCheckStep ==
  ASSUME C!Assumptions, CheckInv, NEW w \in Workers, C!FinishCheck(w) PROVE CheckInv'
<1> USE DEF CheckInv
<1> DEFINE v == tcWorker[w].video  result == tcWorker[w].result
<1>1. /\ tcWorker[w].pc = "finish" /\ UNCHANGED <<tcClock, tcStored, tcSent>>
      /\ tcRow' = [tcRow EXCEPT ![v] = [tcRow[v] EXCEPT !.status = C!Status(result), !.limited = (result = "rate_limited")]]
      /\ tcWorker' = [tcWorker EXCEPT ![w] = IF result \in {"rate_limited", "ingest_failed"} THEN C!Resting ELSE C!Between]
  BY DEF C!FinishCheck
<1>2. /\ tcWorker'[w] \in {C!Resting, C!Between} /\ \A x \in Workers \ {w} : tcWorker'[x] = tcWorker[x]
      /\ tcWorker' = [tcWorker EXCEPT ![w] = tcWorker'[w]]
  BY <1>1 DEF CheckTypes
<1>3. /\ tcWorker'[w] \in Checker /\ tcWorker'[w].video = None /\ tcWorker'[w].pc \in {"rest", "batch"}
  BY <1>2, CheckSizes DEF C!Resting, C!Between, Checker
<1>4. InCheck(w) /\ ClaimHeld(w) BY <1>1 DEF InCheck, ClaimsHeld
<1>5. v \in Videos /\ tcRow[v].status = "started" /\ (result = "ok" => v \in tcStored)
  BY <1>1, <1>4 DEF ClaimHeld
<1>6. C!Status(result) \in {"completed", "skipped", "failed"} /\ (C!Status(result) = "completed" => v \in tcStored)
  BY <1>5 DEF C!Status
<1>7. /\ tcRow'[v] \in CheckRow /\ tcRow'[v].status = C!Status(result) /\ tcRow'[v].at = tcRow[v].at
      /\ tcRow'[v].attempts = tcRow[v].attempts /\ tcRow'[v].limit = tcRow[v].limit
      /\ \A u \in Videos \ {v} : tcRow'[u] = tcRow[u]
  <2>1. tcRow[v] \in CheckRow BY <1>5 DEF CheckTypes
  <2>2. tcRow'[v] = [tcRow[v] EXCEPT !.status = C!Status(result), !.limited = (result = "rate_limited")]
        /\ \A u \in Videos \ {v} : tcRow'[u] = tcRow[u]
    BY <1>1, <1>5 DEF CheckTypes
  <2>3. (result = "rate_limited") \in BOOLEAN OBVIOUS
  <2> HIDE DEF result
  <2> QED BY <2>1, <2>2, <2>3, <1>6 DEF CheckRow
<1>8. \A u \in Videos : /\ tcRow'[u].at = tcRow[u].at /\ tcRow'[u].attempts = tcRow[u].attempts
                        /\ tcRow'[u].limit = tcRow[u].limit
                        /\ tcRow'[u].status = "none" <=> tcRow[u].status = "none"
  BY <1>5, <1>6, <1>7
<1>9. CheckDays' = CheckDays /\ C!DayOf(tcClock)' = C!DayOf(tcClock) BY <1>1 DEF CheckDays, C!DayOf
<1>10. CheckTypes'
  <2>1. tcWorker' \in [Workers -> Checker] BY <1>2, <1>3 DEF CheckTypes
  <2>2. tcRow' \in [Videos -> CheckRow]
    <3>1. tcRow' = [tcRow EXCEPT ![v] = tcRow'[v]] BY <1>1, <1>5 DEF CheckTypes
    <3> QED BY <3>1, <1>7 DEF CheckTypes
  <2> QED BY <1>1, <1>8, <1>9, <2>1, <2>2 DEF CheckTypes, CheckRow, Checker, C!Result
<1>11. C!TypeOK'
  <2>1. \A x \in Workers : tcWorker'[x].pc \in {"rest", "batch", "fetch", "fetched", "store", "finish"}
    BY <1>10 DEF CheckTypes, Checker
  <2>2. \A u \in Videos : /\ tcRow'[u].limit \in 0..CheckReserve /\ tcRow'[u].limited \in BOOLEAN
                          /\ tcRow'[u].status \in {"none", "started", "completed", "skipped", "failed"}
    BY <1>10 DEF CheckTypes, CheckRow
  <2> QED BY <1>1, <1>8, <2>1, <2>2 DEF C!TypeOK
<1>12. ClaimsHeld'
  <2>1. ClaimHeld(w)' BY <1>3 DEF ClaimHeld, InCheck
  <2>2. ASSUME NEW x \in Workers \ {w} PROVE ClaimHeld(x)'
    <3>1. InCheck(x) => tcWorker[x].video \in Videos \ {v}
      BY <1>5, CheckSizes DEF ClaimsHeld, ClaimHeld, C!WorkersApart
    <3> QED BY <3>1, <1>1, <1>2, <1>7, ClaimKept DEF ClaimsHeld
  <2> QED BY <2>1, <2>2 DEF ClaimsHeld
<1>13. C!WorkersApart' BY <1>2, <1>3 DEF C!WorkersApart
<1>14. SentInTime'
  <2>1. \A d \in CheckDays : \A q \in tcSent[d] : q[1] \in Videos BY DEF CheckTypes
  <2> QED BY <1>1, <1>8, <1>9, <2>1 DEF SentInTime, C!DayOf
<1>15. \A d \in CheckDays : Committed(d)' \subseteq Committed(d)
  BY <1>1, <1>2, <1>3, <1>8 DEF Committed, ToSend, C!DayOf
<1>16. BudgetKept' BY <1>15, <1>9, BudgetStep DEF BudgetKept
<1>17. TodayReserved'
  <2>1. C!DayOf(tcClock) \in CheckDays BY DaysOf DEF C!TypeOK
  <2>2. C!Today' = C!Today BY <1>8, <1>9 DEF C!Today, C!DayOf
  <2>3. C!Reserved' = C!Reserved BY <2>2, <1>8 DEF C!Reserved, C!Today
  <2> QED BY <2>1, <2>3, <1>15, <1>9 DEF TodayReserved
<1>18. C!CompletedIsStored' BY <1>1, <1>5, <1>6, <1>7 DEF C!CompletedIsStored
<1> QED BY <1>10, <1>11, <1>12, <1>13, <1>14, <1>16, <1>17, <1>18

LEMMA CheckTickStep == ASSUME C!Assumptions, CheckInv, C!Tick PROVE CheckInv'
<1> USE DEF CheckInv
<1>1. CheckDay \in Nat \ {0} /\ CheckTicks \in Nat \ {0} /\ tcClock \in 0..CheckTicks /\ tcClock + 1 \in 0..CheckTicks
  BY CheckSizes DEF C!TypeOK, C!Tick
<1>2. /\ tcClock' = tcClock + 1 /\ UNCHANGED <<tcRow, tcWorker, tcStored, tcSent>>
      /\ \A w \in Workers : tcWorker[w].video # None => tcClock + 1 < tcRow[tcWorker[w].video].at + CheckDay
  BY DEF C!Tick
<1>3. CheckDays' = CheckDays /\ \A t : C!DayOf(t)' = C!DayOf(t)' BY <1>2 DEF CheckDays, C!DayOf
<1>4. CheckTypes' BY <1>2, <1>3 DEF CheckTypes, CheckRow, Checker, C!Result
<1>5. C!TypeOK' BY <1>2, <1>1 DEF C!TypeOK
<1>6. ClaimsHeld'
  <2> SUFFICES ASSUME NEW w \in Workers PROVE ClaimHeld(w)' BY DEF ClaimsHeld
  <2>1. ClaimHeld(w) BY DEF ClaimsHeld
  <2>2. InCheck(w) => tcWorker[w].video # None BY <2>1, CheckSizes DEF ClaimHeld
  <2> QED BY <1>2, <2>1, <2>2 DEF ClaimHeld, InCheck, C!DayOf
<1>7. C!WorkersApart' BY <1>2 DEF C!WorkersApart
<1>8. SentInTime' BY <1>2, <1>3 DEF SentInTime, C!DayOf
<1>9. \A d \in CheckDays : Committed(d)' = Committed(d) BY <1>2 DEF Committed, ToSend, C!DayOf
<1>10. BudgetKept' BY <1>9, <1>3 DEF BudgetKept
<1>11. TodayReserved'
  <2>1. C!DayOf(tcClock)' = C!DayOf(tcClock + 1) BY <1>2 DEF C!DayOf
  <2>2. C!DayOf(tcClock + 1) \in CheckDays /\ C!DayOf(tcClock) \in CheckDays BY <1>1, DaysOf
  <2>3. CASE C!DayOf(tcClock + 1) = C!DayOf(tcClock)
    <3>1. C!Reserved' = C!Reserved BY <2>1, <2>3, <1>2 DEF C!Reserved, C!Today, C!DayOf
    <3> QED BY <2>1, <2>2, <2>3, <3>1, <1>9 DEF TodayReserved
  <2>4. CASE C!DayOf(tcClock + 1) # C!DayOf(tcClock)
    <3>1. C!DayOf(tcClock) < C!DayOf(tcClock + 1) BY <2>2, <2>4, <1>1, DaysOf DEF CheckDays
    <3>2. \A v \in Videos : C!DayOf(tcRow[v].at) <= C!DayOf(tcClock) /\ C!DayOf(tcRow[v].at) \in Nat
      <4>1. \A v \in Videos : tcRow[v].at \in Nat /\ tcRow[v].at <= tcClock BY <1>1 DEF C!TypeOK
      <4> QED BY <4>1, <1>1, DaysOf
    <3>3. \A v \in Videos : C!DayOf(tcRow[v].at) < C!DayOf(tcClock + 1) BY <3>1, <3>2, <2>2 DEF CheckDays
    <3>4. ToSend(C!DayOf(tcClock + 1)) = {} BY <3>3, <3>2, <2>2 DEF ToSend, CheckDays
    <3>5. tcSent[C!DayOf(tcClock + 1)] = {}
      <4>1. \A q \in tcSent[C!DayOf(tcClock + 1)] : q[1] \in Videos /\ C!DayOf(tcClock + 1) <= C!DayOf(tcRow[q[1]].at)
        BY <2>2 DEF SentInTime, CheckTypes
      <4> QED BY <4>1, <3>3, <3>2, <2>2 DEF CheckDays
    <3>6. Committed(C!DayOf(tcClock + 1)) = {} BY <3>4, <3>5 DEF Committed
    <3> QED BY <3>6, <2>1, <2>2, <1>9 DEF TodayReserved
  <2> QED BY <2>3, <2>4
<1>12. C!CompletedIsStored' BY <1>2 DEF C!CompletedIsStored
<1> QED BY <1>4, <1>5, <1>6, <1>7, <1>8, <1>10, <1>11, <1>12

LEMMA CheckInvStep == ASSUME C!Assumptions, CheckInv, [C!Next]_C!vars PROVE CheckInv'
<1>1. ASSUME NEW w \in Workers, C!StartBatch(w) \/ C!EndBatch(w) \/ C!WorkerDies(w) PROVE CheckInv'
  <2>1. UNCHANGED <<tcClock, tcRow, tcStored, tcSent>> BY <1>1 DEF C!StartBatch, C!EndBatch, C!WorkerDies
  <2>2. tcWorker' = [tcWorker EXCEPT ![w] = C!Resting] \/ tcWorker' = [tcWorker EXCEPT ![w] = C!Between]
    BY <1>1 DEF C!StartBatch, C!EndBatch, C!WorkerDies
  <2> QED BY <2>1, <2>2, RestsStep
<1>2. ASSUME NEW w \in Workers, NEW v \in Videos, C!ClaimCheck(w, v) PROVE CheckInv'
  BY <1>2, ClaimCheckStep
<1>3. ASSUME NEW w \in Workers, NEW n \in 1..CheckReserve, NEW result \in C!Result, C!Fetch(w, n, result) PROVE CheckInv'
  BY <1>3, FetchStep
<1>4. ASSUME NEW w \in Workers, C!GiveBack(w) PROVE CheckInv' BY <1>4, GiveBackStep
<1>5. ASSUME NEW w \in Workers, C!Store(w) PROVE CheckInv' BY <1>5, StoreStep
<1>6. ASSUME NEW w \in Workers, C!FinishCheck(w) PROVE CheckInv' BY <1>6, FinishCheckStep
<1>7. CASE C!Tick BY <1>7, CheckTickStep
<1>8. CASE UNCHANGED C!vars
  <2> USE <1>8 DEF C!vars, CheckInv
  <2>1. CheckDays' = CheckDays /\ C!DayOf(tcClock)' = C!DayOf(tcClock) BY DEF CheckDays, C!DayOf
  <2>2. C!TypeOK' BY DEF C!TypeOK
  <2>3. CheckTypes' BY <2>1 DEF CheckTypes, CheckRow, Checker, C!Result
  <2>4. ClaimsHeld' /\ C!WorkersApart' /\ SentInTime' /\ C!CompletedIsStored'
    BY <2>1 DEF ClaimsHeld, ClaimHeld, InCheck, C!WorkersApart, SentInTime, C!CompletedIsStored, C!DayOf
  <2>5. \A d \in CheckDays : Committed(d)' = Committed(d) BY DEF Committed, ToSend, C!DayOf
  <2>6. C!DayOf(tcClock) \in CheckDays BY DaysOf DEF C!TypeOK
  <2>7. C!Reserved' = C!Reserved BY DEF C!Reserved, C!Today, C!DayOf
  <2>8. BudgetKept' /\ TodayReserved' BY <2>1, <2>5, <2>6, <2>7 DEF BudgetKept, TodayReserved
  <2> QED BY <2>2, <2>3, <2>4, <2>8
<1> QED BY <1>1, <1>2, <1>3, <1>4, <1>5, <1>6, <1>7, <1>8, Zenon DEF C!Next

\* What is sent of a day is among what is committed.
LEMMA CheckBudgetHolds == ASSUME C!Assumptions, CheckInv PROVE C!WithinDailyBudget
<1> SUFFICES ASSUME NEW d \in CheckDays PROVE Cardinality(tcSent[d]) <= CheckBudget
  BY SameCounts DEF C!WithinDailyBudget, CheckInv, CheckTypes
<1>1. IsFiniteSet(Committed(d)) /\ Cardinality(Committed(d)) \in Nat BY CommittedFinite DEF CheckInv
<1>2. Cardinality(tcSent[d]) <= Cardinality(Committed(d)) /\ Cardinality(tcSent[d]) \in Nat
  BY <1>1, FS_Subset, FS_CardinalityType DEF Committed
<1> QED BY <1>1, <1>2, CheckSizes DEF CheckInv, BudgetKept

-----------------------------------------------------------------------------
(* ProviderSync. *)

NotRunning == {"idle", "checked"}
CreatorRow == [state : S!State \cup {"none"}, operator : S!State \cup {None}, next : 0..(SyncHorizon + VisitInterval),
               trust : BOOLEAN]
Reserved == {"lookup", "visitReserved", "searchReserved"}     \* a request is reserved and not yet sent
Holding == {"resolving", "promoting", "persist"}              \* a row has been read to be written
Progress == [pc : S!Phase, creator : Creators \cup {None}, snap : CreatorRow \cup {None},
             day : S!Days \cup {None}]

SyncTypes ==
  /\ row \in [Creators -> CreatorRow] /\ sync \in [Workers -> Progress]
  /\ visits \in [Creators -> [count : Nat, last : Int]]
  /\ decided \in [Creators -> S!State \cup {None}]

\* A row's state is never weaker than what its provenance says the operator decided.
Agrees(r) == /\ r.operator = "excluded" => r.state = "excluded"
             /\ r.operator = "monitored" => r.state \in {"monitored", "excluded"}
             /\ r.operator = "candidate" => r.state # "none"

\* The row shows the decision d; a candidate is monitored only on a request.
Follows(r, d, wanted) == r.operator = d /\ (d = "candidate" /\ r.state = "monitored" => wanted)

\* A row a transaction has read is one the program may write back, and a sync
\* has a day exactly while it has a request to send.
SnapOk(p) ==
  /\ p.pc \in Holding =>
       /\ p.creator \in Creators /\ p.snap \in CreatorRow /\ Agrees(p.snap)
       /\ p.pc \in {"resolving", "promoting"} => p.snap.state \in {"none", "candidate"}
       /\ decided[p.creator] = None => p.snap.operator = None
  /\ IF p.pc \in Reserved THEN p.day \in S!Days ELSE p.day = None
SnapsOk == \A s \in Workers : SnapOk(sync[s])

RowsOk ==
  \A c \in Creators :
    /\ Agrees(row[c])
    /\ decided[c] = None => row[c].operator = None
    /\ c \notin raced /\ decided[c] # None => Follows(row[c], decided[c], c \in requested)

\* Whoever runs without the lease was outlived by one that took it.
WithoutLease == IF lease = 0 THEN S!Running ELSE S!Running \ {holder}
LeaseOk == IsFiniteSet(S!Running) /\ Cardinality(WithoutLease) <= outlived

BudgetOk ==
  \A d \in S!Days : sent[d] + Cardinality(S!Pending(d)) <= used[d] /\ used[d] <= SyncBudget

VisitsOk == \A c \in Creators : row[c].next >= visits[c].last + VisitInterval

SyncInv ==
  S!TypeOK /\ SyncTypes /\ SnapsOk /\ RowsOk /\ LeaseOk /\ BudgetOk /\ VisitsOk

LEMMA SyncSizes ==
  ASSUME S!Assumptions
  PROVE  /\ SyncBudget \in Nat \ {0} /\ SyncLease \in Nat \ {0} /\ VisitInterval \in Nat \ {0} /\ SyncDay \in Nat \ {0}
         /\ SyncHorizon \in Nat \ {0} /\ MaxActs \in Nat \ {0} /\ None \notin S!State /\ None \notin Nat
BY DEF S!Assumptions

\* One sync moves on to `next`; it is running afterwards only if it was before.
Moves(s, next) ==
  /\ next \in Progress /\ SnapOk(next) /\ sync' = [sync EXCEPT ![s] = next]
  /\ next.pc \in NotRunning \/ sync[s].pc \notin NotRunning

LEMMA MovesTypes ==
  ASSUME SyncTypes, SnapsOk, NEW s \in Workers, NEW next, next \in Progress, SnapOk(next),
         sync' = [sync EXCEPT ![s] = next],
         \A c \in Creators : decided'[c] = None => decided[c] = None
  PROVE  sync' \in [Workers -> Progress] /\ SnapsOk'
<1>1. sync'[s] = next /\ \A t \in Workers \ {s} : sync'[t] = sync[t] BY DEF SyncTypes
<1>2. sync' \in [Workers -> Progress] BY DEF SyncTypes
<1>3. ASSUME NEW t \in Workers PROVE SnapOk(sync[t])'
  <2>1. CASE t = s BY <1>1, <2>1 DEF SnapOk
  <2>2. CASE t # s BY <1>1, <2>2 DEF SnapOk, SnapsOk
  <2> QED BY <2>1, <2>2
<1> QED BY <1>2, <1>3 DEF SnapsOk

LEMMA FewerRun ==
  ASSUME LeaseOk, NEW R, R \subseteq WithoutLease, outlived \in Nat
  PROVE  IsFiniteSet(R) /\ Cardinality(R) <= outlived
<1>1. IsFiniteSet(WithoutLease) BY FS_Subset DEF LeaseOk, WithoutLease
<1>2. Cardinality(R) <= Cardinality(WithoutLease) /\ IsFiniteSet(R)
      /\ Cardinality(R) \in Nat /\ Cardinality(WithoutLease) \in Nat
  BY <1>1, FS_Subset, FS_CardinalityType
<1> QED BY <1>2 DEF LeaseOk

LEMMA MovesLease ==
  ASSUME SyncTypes, LeaseOk, outlived \in Nat, NEW s \in Workers, NEW next, Moves(s, next),
         UNCHANGED <<lease, holder, outlived>>
  PROVE  LeaseOk'
<1>1. sync'[s] = next /\ \A t \in Workers \ {s} : sync'[t] = sync[t] BY DEF SyncTypes, Moves
<1>2. S!Running' \subseteq S!Running BY <1>1 DEF S!Running, Moves, NotRunning
<1>3. IsFiniteSet(S!Running') BY <1>2, FS_Subset DEF LeaseOk
<1>4. WithoutLease' \subseteq WithoutLease BY <1>2 DEF WithoutLease
<1>5. Cardinality(WithoutLease') <= outlived BY <1>4, FewerRun
<1> QED BY <1>3, <1>5 DEF LeaseOk

LEMMA GotoMoves ==
  ASSUME SyncTypes, SnapsOk, NEW s \in Workers, sync[s].pc \notin Reserved,
         NEW pc \in S!Phase, pc \notin Reserved \cup Holding, S!Goto(s, pc)
  PROVE  \E next \in Progress : /\ SnapOk(next) /\ sync' = [sync EXCEPT ![s] = next] /\ next.pc = pc
                                /\ next.day = None
<1> DEFINE next == [sync[s] EXCEPT !.pc = pc]
<1>1. next \in Progress /\ next.pc = pc /\ next.day = sync[s].day BY DEF SyncTypes, Progress
<1>2. next.day = None BY <1>1 DEF SnapsOk, SnapOk
<1>3. SnapOk(next) BY <1>1, <1>2 DEF SnapOk
<1>4. sync' = [sync EXCEPT ![s] = next] BY DEF S!Goto
<1> QED BY <1>1, <1>2, <1>3, <1>4

\* Only a sync that runs has a request to send.
LEMMA PendingRuns ==
  ASSUME S!Assumptions, SyncTypes, SnapsOk, NEW d \in S!Days
  PROVE  S!Pending(d) \subseteq S!Running
<1>1. d # None BY SyncSizes DEF S!Days
<1> QED BY <1>1 DEF S!Pending, S!Running, SnapsOk, SnapOk, Reserved

\* A step that sends no request and has none reserved afterwards.
LEMMA MovesBudget ==
  ASSUME S!Assumptions, S!TypeOK, SyncTypes, SnapsOk, LeaseOk, BudgetOk,
         NEW s \in Workers, NEW next, next.day = None, sync' = [sync EXCEPT ![s] = next],
         UNCHANGED <<used, sent>>
  PROVE  BudgetOk'
<1> SUFFICES ASSUME NEW d \in S!Days
             PROVE sent[d] + Cardinality(S!Pending(d)') <= used[d] /\ used[d] <= SyncBudget
  BY DEF BudgetOk, S!Days
<1>1. sync'[s] = next /\ \A t \in Workers \ {s} : sync'[t] = sync[t] BY DEF SyncTypes
<1>2. d # None BY SyncSizes DEF S!Days
<1>3. S!Pending(d)' \subseteq S!Pending(d) BY <1>1, <1>2 DEF S!Pending
<1>4. IsFiniteSet(S!Pending(d)) BY PendingRuns, FS_Subset DEF LeaseOk
<1>5. /\ Cardinality(S!Pending(d)') <= Cardinality(S!Pending(d))
      /\ Cardinality(S!Pending(d)') \in Nat /\ Cardinality(S!Pending(d)) \in Nat
  BY <1>3, <1>4, FS_Subset, FS_CardinalityType
<1>6. sent[d] \in Nat /\ used[d] \in Nat BY DEF S!TypeOK
<1> QED BY <1>5, <1>6 DEF BudgetOk

LEMMA IdleAt ==
  /\ S!Idle \in Progress /\ SnapOk(S!Idle)
  /\ \A pc \in S!Phase \ (Reserved \cup Holding) :
       [S!Idle EXCEPT !.pc = pc] \in Progress /\ SnapOk([S!Idle EXCEPT !.pc = pc])
<1>1. "idle" \in S!Phase \ (Reserved \cup Holding) BY DEF S!Phase, Reserved, Holding
<1> QED BY <1>1 DEF S!Idle, Progress, SnapOk

\* Steps that only move a sync.
LEMMA OnlyMoves ==
  ASSUME S!Assumptions, SyncInv, NEW s \in Workers, NEW next, Moves(s, next), next.day = None,
         UNCHANGED <<now, paused, lease, used, row, acts, sent, holder, outlived, visits, decided, requested, raced>>
  PROVE  SyncInv'
<1> USE DEF SyncInv
<1>1. sync' \in [Workers -> Progress] /\ SnapsOk' BY MovesTypes DEF Moves
<1>2. SyncTypes' BY <1>1 DEF SyncTypes
<1>3. S!TypeOK'
  <2>1. \A t \in Workers : sync'[t].pc \in S!Phase
    BY <1>1 DEF Progress
  <2> QED BY <2>1 DEF S!TypeOK, S!Days
<1>4. LeaseOk' BY MovesLease DEF S!TypeOK
<1>5. RowsOk' /\ VisitsOk' BY DEF RowsOk, VisitsOk
<1>6. BudgetOk' BY MovesBudget DEF Moves
<1> QED BY <1>1, <1>2, <1>3, <1>4, <1>5, <1>6

LEMMA SyncStart == ASSUME S!Assumptions, S!Init PROVE SyncInv
<1> USE SyncSizes DEF S!Init, S!Idle
<1>1. \A d \in S!Days : d \in Nat /\ used[d] = 0 /\ sent[d] = 0 BY DEF S!Days
<1>2. SyncTypes
  <2>1. \A c \in Creators : row[c] \in CreatorRow /\ visits[c] \in [count : Nat, last : Int]
    BY DEF CreatorRow
  <2>2. \A s \in Workers : sync[s] \in Progress BY DEF Progress, S!Phase
  <2> QED BY <2>1, <2>2 DEF SyncTypes
<1>3. S!TypeOK
  <2>1. used \in [S!Days -> Nat] /\ sent \in [S!Days -> Nat] OBVIOUS
  <2>2. \A c \in Creators : /\ row[c].state \in S!State \cup {"none"} /\ row[c].operator \in S!State \cup {None}
                            /\ row[c].next \in 0..(SyncHorizon + VisitInterval) /\ row[c].trust \in BOOLEAN
                            /\ decided[c] = None => row[c].operator = None
    <3>1. \A c \in Creators : row[c].trust \in BOOLEAN BY <1>2 DEF SyncTypes, CreatorRow
    <3>2. \A c \in Creators : row[c].state = "none" /\ row[c].operator = None /\ row[c].next = 0 OBVIOUS
    <3>3. 0 \in 0..(SyncHorizon + VisitInterval) OBVIOUS
    <3> QED BY <3>1, <3>2, <3>3
  <2>3. \A s \in Workers : sync[s].pc \in S!Phase BY DEF S!Phase
  <2>4. /\ now \in 1..SyncHorizon /\ paused \in BOOLEAN /\ lease \in 0..(SyncHorizon + SyncLease)
        /\ outlived \in Nat /\ acts \in 0..MaxActs
    <3>1. now = 1 /\ paused = FALSE /\ lease = 0 /\ outlived = 0 /\ acts = 0 OBVIOUS
    <3>2. paused \in BOOLEAN BY <3>1
    <3>3. now \in 1..SyncHorizon /\ lease \in 0..(SyncHorizon + SyncLease) /\ acts \in 0..MaxActs
      BY <3>1, SyncSizes
    <3> QED BY <3>1, <3>2, <3>3
  <2> QED BY <2>1, <2>2, <2>3, <2>4, Zenon DEF S!TypeOK
<1>4. SnapsOk BY DEF SnapsOk, SnapOk, Holding, Reserved
<1>5. RowsOk BY DEF RowsOk, Agrees, S!State
<1>6. LeaseOk
  <2>1. S!Running = {} BY DEF S!Running
  <2>2. WithoutLease = {} BY <2>1 DEF WithoutLease
  <2>3. Cardinality(WithoutLease) = 0 /\ IsFiniteSet(S!Running) BY <2>1, <2>2, FS_EmptySet
  <2> QED BY <2>3 DEF LeaseOk
<1>7. BudgetOk
  <2>1. ASSUME NEW d \in S!Days PROVE S!Pending(d) = {} BY <1>1, <2>1 DEF S!Pending
  <2>2. \A d \in S!Days : Cardinality(S!Pending(d)) = 0 BY <2>1, FS_EmptySet
  <2>3. SyncBudget \in Nat BY SyncSizes
  <2>4. \A d \in S!Days : sent[d] + Cardinality(S!Pending(d)) <= used[d] /\ used[d] <= SyncBudget
    BY <1>1, <2>2, <2>3
  <2> QED BY <2>4 DEF BudgetOk
<1>8. VisitsOk BY DEF VisitsOk
<1> QED BY <1>2, <1>3, <1>4, <1>5, <1>6, <1>7, <1>8 DEF SyncInv

LEMMA TakeLeaseStep == ASSUME S!Assumptions, SyncInv, NEW s \in Workers, S!TakeLease(s) PROVE SyncInv'
<1> USE DEF SyncInv
<1>1. /\ sync[s].pc = "checked" /\ S!LeaseFree /\ lease' = now + SyncLease /\ holder' = s
      /\ outlived' = IF lease # 0 /\ lease < now /\ holder \in S!Running THEN outlived + 1 ELSE outlived
      /\ \E pc \in {"resolve", "topic"} : S!Goto(s, pc)
      /\ UNCHANGED <<now, paused, used, row, sent, visits, decided, requested, raced, acts>>
  BY DEF S!TakeLease
<1>2. PICK next \in Progress : /\ SnapOk(next) /\ sync' = [sync EXCEPT ![s] = next]
                               /\ next.pc \in {"resolve", "topic"} /\ next.day = None
  BY <1>1, GotoMoves DEF S!Phase, Reserved, Holding
<1>3. sync' \in [Workers -> Progress] /\ SnapsOk' BY <1>1, <1>2, MovesTypes
<1>4. SyncTypes' BY <1>1, <1>3 DEF SyncTypes
<1>5. now \in 1..SyncHorizon /\ outlived \in Nat /\ lease \in Nat /\ SyncLease \in Nat \ {0} /\ SyncHorizon \in Nat
  BY SyncSizes DEF S!TypeOK
<1>6. S!TypeOK'
  <2>1. \A t \in Workers : sync'[t].pc \in S!Phase
    BY <1>3 DEF Progress
  <2>2. lease' \in 0..(SyncHorizon + SyncLease) /\ outlived' \in Nat BY <1>1, <1>5
  <2> QED BY <1>1, <2>1, <2>2 DEF S!TypeOK, S!Days
<1>7. LeaseOk'
  <2>1. S!Running' \subseteq S!Running \cup {s} BY <1>2 DEF S!Running, SyncTypes
  <2>2. IsFiniteSet(S!Running') BY <2>1, FS_AddElement, FS_Subset DEF LeaseOk
  <2>3. WithoutLease' \subseteq S!Running BY <1>1, <2>1, <1>5 DEF WithoutLease
  <2>4. CASE lease = 0 \/ holder \notin S!Running
    <3>1. WithoutLease' \subseteq WithoutLease BY <2>3, <2>4 DEF WithoutLease
    <3>2. Cardinality(WithoutLease') <= outlived BY <3>1, <1>5, FewerRun
    <3> QED BY <3>2, <2>2, <2>4, <1>1, <1>5 DEF LeaseOk
  <2>5. CASE lease # 0 /\ holder \in S!Running
    <3>1. WithoutLease' \subseteq WithoutLease \cup {holder} BY <2>3, <2>5 DEF WithoutLease
    <3>2. IsFiniteSet(WithoutLease) /\ Cardinality(WithoutLease) \in Nat
      BY FS_Subset, FS_CardinalityType DEF WithoutLease, LeaseOk
    <3>3. IsFiniteSet(WithoutLease \cup {holder})
          /\ Cardinality(WithoutLease \cup {holder})
             = IF holder \in WithoutLease THEN Cardinality(WithoutLease) ELSE Cardinality(WithoutLease) + 1
      BY <3>2, FS_AddElement
    <3>4. Cardinality(WithoutLease') <= Cardinality(WithoutLease \cup {holder})
          /\ Cardinality(WithoutLease') \in Nat
      BY <3>1, <3>3, FS_Subset, FS_CardinalityType
    <3>5. outlived' = outlived + 1 BY <2>5, <1>1, <1>5 DEF S!LeaseFree
    <3>6. Cardinality(WithoutLease) <= outlived BY DEF LeaseOk
    <3>7. Cardinality(WithoutLease \cup {holder}) <= outlived + 1 BY <3>2, <3>3, <3>6, <1>5
    <3>8. Cardinality(WithoutLease \cup {holder}) \in Nat BY <3>3, FS_CardinalityType
    <3>9. Cardinality(WithoutLease') <= outlived' BY <3>4, <3>5, <3>7, <3>8, <1>5
    <3> QED BY <3>9, <2>2 DEF LeaseOk
  <2> QED BY <2>4, <2>5
<1>8. RowsOk' /\ VisitsOk' BY <1>1 DEF RowsOk, VisitsOk
<1>9. BudgetOk' BY <1>1, <1>2, MovesBudget
<1> QED BY <1>3, <1>4, <1>6, <1>7, <1>8, <1>9

LEMMA ReleaseLeaseStep == ASSUME S!Assumptions, SyncInv, NEW s \in Workers, S!ReleaseLease(s) PROVE SyncInv'
<1> USE DEF SyncInv
<1>1. /\ sync[s].pc = "release" /\ lease' = 0 /\ sync' = [sync EXCEPT ![s] = S!Idle]
      /\ UNCHANGED <<now, paused, used, row, sent, holder, outlived, visits, decided, requested, raced, acts>>
  BY DEF S!ReleaseLease
<1>2. S!Idle \in Progress /\ SnapOk(S!Idle) /\ S!Idle.pc = "idle" /\ S!Idle.day = None BY IdleAt DEF S!Idle
<1>3. sync' \in [Workers -> Progress] /\ SnapsOk' BY <1>1, <1>2, MovesTypes
<1>4. SyncTypes' BY <1>1, <1>3 DEF SyncTypes
<1>5. outlived \in Nat /\ SyncLease \in Nat \ {0} /\ SyncHorizon \in Nat BY SyncSizes DEF S!TypeOK
<1>6. S!TypeOK'
  <2>1. \A t \in Workers : sync'[t].pc \in S!Phase
    BY <1>3 DEF Progress
  <2>2. lease' \in 0..(SyncHorizon + SyncLease) BY <1>1, <1>5
  <2> QED BY <1>1, <2>1, <2>2 DEF S!TypeOK, S!Days
<1>7. LeaseOk'
  <2>1. S!Running' = S!Running \ {s} /\ s \in S!Running BY <1>1, <1>2 DEF S!Running, SyncTypes
  <2>2. IsFiniteSet(S!Running') BY <2>1, FS_Subset DEF LeaseOk
  <2>3. WithoutLease' = S!Running \ {s} BY <1>1, <2>1 DEF WithoutLease
  <2>4. CASE lease = 0 \/ holder \notin S!Running \/ holder = s
    <3>1. WithoutLease' \subseteq WithoutLease BY <2>3, <2>4 DEF WithoutLease
    <3>2. Cardinality(WithoutLease') <= outlived BY <3>1, <1>5, FewerRun
    <3> QED BY <3>2, <2>2, <1>1 DEF LeaseOk
  <2>5. CASE lease # 0 /\ holder \in S!Running /\ holder # s
    <3>1. WithoutLease = S!Running \ {holder} BY <2>5 DEF WithoutLease
    <3>2. IsFiniteSet(S!Running) /\ Cardinality(S!Running) \in Nat BY FS_CardinalityType DEF LeaseOk
    <3>3. Cardinality(S!Running \ {holder}) = Cardinality(S!Running) - 1
          /\ Cardinality(S!Running \ {s}) = Cardinality(S!Running) - 1
      BY <3>2, <2>1, <2>5, FS_RemoveElement
    <3>4. Cardinality(WithoutLease') <= outlived BY <3>1, <3>3, <2>3 DEF LeaseOk
    <3> QED BY <3>4, <2>2, <1>1 DEF LeaseOk
  <2> QED BY <2>4, <2>5
<1>8. RowsOk' /\ VisitsOk' BY <1>1 DEF RowsOk, VisitsOk
<1>9. BudgetOk' BY <1>1, <1>2, MovesBudget
<1> QED BY <1>3, <1>4, <1>6, <1>7, <1>8, <1>9

\* A transaction writes back the row it read.
Written(c, snap, state) ==
  /\ row' = [row EXCEPT ![c].state = state, ![c].operator = snap.operator]
  /\ raced' = S!Overwrites(c, snap)

LEMMA WriteStep ==
  ASSUME S!Assumptions, SyncInv, NEW s \in Workers, sync[s].pc \in Holding,
         NEW state \in S!State, NEW pc \in {"monitor", "release", "handles"},
         Written(sync[s].creator, sync[s].snap, state),
         sync[s].snap.operator = "excluded" => state = "excluded",
         sync[s].snap.operator = "monitored" => state \in {"monitored", "excluded"},
         requested \subseteq requested',
         sync[s].snap.operator = "candidate" /\ state = "monitored" => sync[s].creator \in requested',
         sync' = [sync EXCEPT ![s] = [S!Idle EXCEPT !.pc = pc]],
         UNCHANGED <<now, paused, lease, used, sent, holder, outlived, visits, decided, acts>>
  PROVE  SyncInv'
<1> USE DEF SyncInv
<1> DEFINE c == sync[s].creator  snap == sync[s].snap  next == [S!Idle EXCEPT !.pc = pc]
<1>1. next \in Progress /\ SnapOk(next) /\ next.pc = pc /\ next.day = None
  <2>1. pc \in S!Phase \ (Reserved \cup Holding) BY DEF S!Phase, Reserved, Holding
  <2>2. next.pc = pc /\ next.day = None BY DEF S!Idle
  <2> QED BY <2>1, <2>2, IdleAt
<1>2. Moves(s, next) BY <1>1 DEF Moves, NotRunning, Holding
<1>3. sync' \in [Workers -> Progress] /\ SnapsOk' BY <1>1, MovesTypes
<1>4. /\ c \in Creators /\ snap \in CreatorRow /\ Agrees(snap)
      /\ decided[c] = None => snap.operator = None
  BY DEF SnapsOk, SnapOk
<1> HIDE DEF next
<1>5. /\ row'[c] \in CreatorRow /\ row'[c].state = state /\ row'[c].operator = snap.operator
      /\ row'[c].next = row[c].next /\ row'[c].trust = row[c].trust
      /\ \A e \in Creators \ {c} : row'[e] = row[e]
      /\ row' \in [Creators -> CreatorRow]
  <2>1. row' = [row EXCEPT ![c].state = state, ![c].operator = snap.operator] BY DEF Written
  <2>2. snap.operator \in S!State \cup {None} BY <1>4 DEF CreatorRow
  <2>3. row[c] \in CreatorRow BY <1>4 DEF SyncTypes
  <2> HIDE DEF c, snap
  <2>4. row'[c] = [row[c] EXCEPT !.state = state, !.operator = snap.operator]
        /\ \A e \in Creators \ {c} : row'[e] = row[e]
    BY <2>1, <1>4 DEF SyncTypes
  <2>5. row'[c] \in CreatorRow /\ row'[c].state = state /\ row'[c].operator = snap.operator
        /\ row'[c].next = row[c].next /\ row'[c].trust = row[c].trust
    BY <2>2, <2>3, <2>4 DEF CreatorRow
  <2>6. row' \in [Creators -> CreatorRow] BY <2>1, <2>4, <2>5 DEF SyncTypes
  <2> QED BY <2>4, <2>5, <2>6
<1>6. raced' = IF row[c].operator # snap.operator THEN raced \cup {c} ELSE raced
  BY DEF Written, S!Overwrites
<1> HIDE DEF c, snap
<1>7. RowsOk'
  <2> SUFFICES ASSUME NEW e \in Creators
               PROVE /\ Agrees(row'[e])
                     /\ decided[e] = None => row'[e].operator = None
                     /\ e \notin raced' /\ decided[e] # None => Follows(row'[e], decided[e], e \in requested')
    BY DEF RowsOk, Agrees, Follows
  <2>1. CASE e # c BY <2>1, <1>5, <1>6 DEF RowsOk, Follows
  <2>2. CASE e = c
    <3>1. Agrees(row'[c]) BY <1>5 DEF Agrees, snap, S!State
    <3>2. c \notin raced' => c \notin raced /\ row[c].operator = snap.operator BY <1>6
    <3>3. snap.operator = "candidate" /\ state = "monitored" => c \in requested' BY DEF c, snap
    <3>4. c \notin raced' /\ decided[c] # None => Follows(row'[c], decided[c], c \in requested')
      BY <3>2, <3>3, <1>4, <1>5 DEF RowsOk, Follows
    <3> QED BY <2>2, <3>1, <3>4, <1>4, <1>5
  <2> QED BY <2>1, <2>2
<1>8. SyncTypes' BY <1>3, <1>5 DEF SyncTypes
<1>9. S!TypeOK'
  <2>1. \A t \in Workers : sync'[t].pc \in S!Phase
    BY <1>3 DEF Progress
  <2>2. \A e \in Creators : /\ row'[e].state \in S!State \cup {"none"}
                            /\ row'[e].operator \in S!State \cup {None}
                            /\ row'[e].next \in 0..(SyncHorizon + VisitInterval) /\ row'[e].trust \in BOOLEAN
    BY <1>5 DEF CreatorRow
  <2>3. \A e \in Creators : decided[e] = None => row'[e].operator = None BY <1>7 DEF RowsOk
  <2> QED BY <2>1, <2>2, <2>3 DEF S!TypeOK, S!Days
<1>10. LeaseOk' BY <1>2, MovesLease DEF S!TypeOK
<1>11. VisitsOk'
  <2>1. \A e \in Creators : row'[e].next = row[e].next BY <1>5
  <2> QED BY <2>1 DEF VisitsOk
<1>12. BudgetOk' BY <1>1, MovesBudget DEF next
<1> QED BY <1>3, <1>7, <1>8, <1>9, <1>10, <1>11, <1>12

\* A row that was no decision against it is monitored on a request.
LEMMA MonitorStep ==
  ASSUME S!Assumptions, SyncInv, NEW s \in Workers, sync[s].pc \in {"resolving", "promoting"},
         NEW pc \in {"monitor", "handles"}, S!Monitor(sync[s].creator, sync[s].snap),
         sync' = [sync EXCEPT ![s] = [S!Idle EXCEPT !.pc = pc]],
         UNCHANGED <<now, paused, lease, used, sent, holder, outlived, visits, decided, acts>>
  PROVE  SyncInv'
<1>1. /\ Written(sync[s].creator, sync[s].snap, "monitored")
      /\ requested \subseteq requested' /\ sync[s].creator \in requested'
  BY DEF S!Monitor, Written
<1>2. sync[s].pc \in Holding BY DEF Holding
<1>3. Agrees(sync[s].snap) /\ sync[s].snap.state \in {"none", "candidate"} BY <1>2 DEF SyncInv, SnapsOk, SnapOk
<1>4. sync[s].snap.operator \notin {"excluded", "monitored"} BY <1>3 DEF Agrees
<1>5. "monitored" \in S!State BY DEF S!State
<1> QED BY <1>1, <1>2, <1>4, <1>5, WriteStep

LEMMA PromoteWriteStep == ASSUME S!Assumptions, SyncInv, NEW s \in Workers, S!PromoteWrite(s) PROVE SyncInv'
BY MonitorStep DEF S!PromoteWrite

\* A write that meets a row inserted meanwhile is undone: the sync only moves.
LEMMA ConflictStep ==
  ASSUME S!Assumptions, SyncInv, NEW s \in Workers, sync[s].pc \in Holding,
         NEW pc \in {"resolve", "release"}, sync' = [sync EXCEPT ![s] = [S!Idle EXCEPT !.pc = pc]],
         UNCHANGED <<now, paused, lease, used, row, acts, sent, holder, outlived, visits, decided, requested, raced>>
  PROVE  SyncInv'
<1> DEFINE next == [S!Idle EXCEPT !.pc = pc]
<1>1. pc \in S!Phase \ (Reserved \cup Holding) BY DEF S!Phase, Reserved, Holding
<1>2. next \in Progress /\ SnapOk(next) /\ next.day = None BY <1>1, IdleAt DEF S!Idle
<1>3. Moves(s, next) BY <1>2 DEF Moves, NotRunning, Holding
<1> HIDE DEF next
<1> QED BY <1>2, <1>3, OnlyMoves

LEMMA ResolveWriteStep == ASSUME S!Assumptions, SyncInv, NEW s \in Workers, S!ResolveWrite(s) PROVE SyncInv'
<1>1. CASE S!Conflict(s) BY <1>1, ConflictStep DEF S!ResolveWrite, Holding
<1>2. CASE ~S!Conflict(s) BY <1>2, MonitorStep DEF S!ResolveWrite
<1> QED BY <1>1, <1>2

LEMMA PersistWriteStep == ASSUME S!Assumptions, SyncInv, NEW s \in Workers, S!PersistWrite(s) PROVE SyncInv'
<1>1. /\ sync[s].pc = "persist" /\ sync' = [sync EXCEPT ![s] = [S!Idle EXCEPT !.pc = "release"]]
      /\ UNCHANGED <<now, paused, lease, used, sent, holder, outlived, visits, decided, requested, acts>>
  BY DEF S!PersistWrite
<1>2. CASE S!Conflict(s)
  <2>1. UNCHANGED <<row, raced>> BY <1>2 DEF S!PersistWrite
  <2> QED BY <1>1, <2>1, ConflictStep DEF Holding
<1>3. CASE ~S!Conflict(s)
  <2>1. PICK relevance \in {"candidate", "monitored"} :
          Written(sync[s].creator, sync[s].snap, S!NextState(sync[s].snap, relevance))
    BY <1>3 DEF S!PersistWrite, Written
  <2>2. sync[s].snap \in CreatorRow /\ Agrees(sync[s].snap) BY <1>1 DEF SyncInv, SnapsOk, SnapOk, Holding
  <2> DEFINE next == S!NextState(sync[s].snap, relevance)
  <2>3. /\ next \in S!State
        /\ sync[s].snap.operator = "excluded" => next = "excluded"
        /\ sync[s].snap.operator = "monitored" => next \in {"monitored", "excluded"}
        /\ ~ (sync[s].snap.operator = "candidate" /\ next = "monitored")
    BY <2>2, SyncSizes DEF S!NextState, Agrees, CreatorRow, S!State
  <2> HIDE DEF next
  <2>4. sync[s].pc \in Holding /\ requested \subseteq requested' BY <1>1 DEF Holding
  <2>5. Written(sync[s].creator, sync[s].snap, next) BY <2>1 DEF next
  <2> QED BY <1>1, <2>3, <2>4, <2>5, WriteStep
<1> QED BY <1>2, <1>3

\* ClaimVisit, ExcludeUntrusted, Decide and Distrust change one row in place.
LEMMA RowStep ==
  ASSUME S!Assumptions, SyncInv, NEW c \in Creators, NEW r \in CreatorRow, row' = [row EXCEPT ![c] = r],
         Agrees(r), raced' \subseteq raced, raced \subseteq raced' \cup {c},
         decided' \in [Creators -> S!State \cup {None}], \A e \in Creators \ {c} : decided'[e] = decided[e],
         decided'[c] = None => decided[c] = None /\ r.operator = None,
         c \notin raced' /\ decided'[c] # None => Follows(r, decided'[c], c \in requested'),
         \A e \in Creators \ {c} : e \in requested => e \in requested',
         visits' \in [Creators -> [count : Nat, last : Int]],
         \A e \in Creators \ {c} : visits'[e] = visits[e], r.next >= visits'[c].last + VisitInterval,
         sync' \in [Workers -> Progress], SnapsOk', LeaseOk', BudgetOk', acts' \in 0..MaxActs,
         UNCHANGED <<now, paused, lease, used, sent, outlived>>
  PROVE  SyncInv'
<1> USE DEF SyncInv
<1>1. row' \in [Creators -> CreatorRow] /\ row'[c] = r /\ \A e \in Creators \ {c} : row'[e] = row[e]
  BY DEF SyncTypes
<1>2. SyncTypes' BY <1>1 DEF SyncTypes
<1>3. RowsOk'
  <2> SUFFICES ASSUME NEW e \in Creators
               PROVE /\ Agrees(row'[e])
                     /\ decided'[e] = None => row'[e].operator = None
                     /\ e \notin raced' /\ decided'[e] # None
                          => Follows(row'[e], decided'[e], e \in requested')
    BY DEF RowsOk, Agrees, Follows
  <2>1. CASE e = c BY <2>1, <1>1
  <2>2. CASE e # c BY <2>2, <1>1 DEF RowsOk, Follows
  <2> QED BY <2>1, <2>2
<1>4. S!TypeOK'
  <2>1. \A t \in Workers : sync'[t].pc \in S!Phase
    BY DEF Progress
  <2>2. \A e \in Creators : /\ row'[e].state \in S!State \cup {"none"}
                            /\ row'[e].operator \in S!State \cup {None}
                            /\ row'[e].next \in 0..(SyncHorizon + VisitInterval) /\ row'[e].trust \in BOOLEAN
    BY <1>1 DEF CreatorRow
  <2>3. \A e \in Creators : decided'[e] = None => row'[e].operator = None BY <1>3 DEF RowsOk
  <2> QED BY <2>1, <2>2, <2>3 DEF S!TypeOK, S!Days
<1>5. VisitsOk'
  <2> SUFFICES ASSUME NEW e \in Creators PROVE row'[e].next >= visits'[e].last + VisitInterval
    BY DEF VisitsOk
  <2>1. CASE e = c BY <2>1, <1>1
  <2>2. CASE e # c BY <2>2, <1>1 DEF VisitsOk
  <2> QED BY <2>1, <2>2
<1> QED BY <1>2, <1>3, <1>4, <1>5

LEMMA ClaimVisitStep ==
  ASSUME S!Assumptions, SyncInv, NEW s \in Workers, NEW c \in Creators, S!ClaimVisit(s, c) PROVE SyncInv'
<1> USE DEF SyncInv
<1>1. /\ sync[s].pc = "monitor" /\ row' = [row EXCEPT ![c].next = now + VisitInterval]
      /\ visits' = [visits EXCEPT ![c] = [count |-> visits[c].count + 1, last |-> now]]
      /\ sync' = [sync EXCEPT ![s] = [S!Idle EXCEPT !.pc = "visit", !.creator = c]]
      /\ UNCHANGED <<now, paused, lease, used, sent, holder, outlived, decided, requested, raced, acts>>
  BY DEF S!ClaimVisit, S!NextVisit
<1>2. now \in 1..SyncHorizon /\ outlived \in Nat /\ acts \in 0..MaxActs /\ VisitInterval \in Nat /\ SyncHorizon \in Nat
  BY SyncSizes DEF S!TypeOK
<1> DEFINE next == [S!Idle EXCEPT !.pc = "visit", !.creator = c]
<1>3. next \in Progress /\ SnapOk(next) /\ next.pc = "visit" /\ next.day = None
  BY DEF S!Idle, Progress, SnapOk, S!Phase, Reserved, Holding
<1>4. Moves(s, next) BY <1>1, <1>3 DEF Moves, NotRunning
<1>5. sync' \in [Workers -> Progress] /\ SnapsOk' /\ LeaseOk' /\ BudgetOk'
  <2>1. sync' = [sync EXCEPT ![s] = next] BY <1>1
  <2> HIDE DEF next
  <2> QED BY <1>1, <1>3, <1>4, <1>2, <2>1, MovesTypes, MovesLease, MovesBudget
<1> DEFINE r == [row[c] EXCEPT !.next = now + VisitInterval]
<1>6. r \in CreatorRow /\ r.state = row[c].state /\ r.operator = row[c].operator /\ r.next = now + VisitInterval
  <2>1. row[c] \in CreatorRow /\ now + VisitInterval \in 0..(SyncHorizon + VisitInterval)
    BY <1>2 DEF SyncTypes
  <2> QED BY <2>1 DEF CreatorRow
<1>7. row' = [row EXCEPT ![c] = r] BY <1>1
<1>8. /\ visits' \in [Creators -> [count : Nat, last : Int]] /\ visits'[c].last = now
      /\ \A e \in Creators \ {c} : visits'[e] = visits[e]
  <2>1. [count |-> visits[c].count + 1, last |-> now] \in [count : Nat, last : Int] BY <1>2 DEF SyncTypes
  <2> QED BY <1>1, <2>1 DEF SyncTypes
<1> HIDE DEF r, next
<1>9. Agrees(r) BY <1>6 DEF RowsOk, Agrees
<1>10. /\ decided' \in [Creators -> S!State \cup {None}] /\ \A e \in Creators \ {c} : decided'[e] = decided[e]
       /\ decided'[c] = None => decided[c] = None /\ r.operator = None
       /\ c \notin raced' /\ decided'[c] # None => Follows(r, decided'[c], c \in requested')
       /\ raced' \subseteq raced /\ raced \subseteq raced' \cup {c}
       /\ \A e \in Creators \ {c} : e \in requested => e \in requested'
  BY <1>1, <1>6 DEF RowsOk, SyncTypes, Follows
<1>11. r.next >= visits'[c].last + VisitInterval BY <1>6, <1>8, <1>2
<1>12. acts' \in 0..MaxActs /\ UNCHANGED <<now, paused, lease, used, sent, outlived>> BY <1>1, <1>2
<1> QED BY <1>5, <1>6, <1>7, <1>8, <1>9, <1>10, <1>11, <1>12, RowStep

LEMMA ExcludeUntrustedStep ==
  ASSUME S!Assumptions, SyncInv, NEW s \in Workers, NEW c \in Creators, S!ExcludeUntrusted(s, c) PROVE SyncInv'
<1> USE DEF SyncInv
<1>1. /\ sync[s].pc = "monitor" /\ row' = [row EXCEPT ![c].state = "excluded"] /\ S!Goto(s, "topic")
      /\ UNCHANGED <<now, paused, lease, used, sent, holder, outlived, visits, decided, requested, raced, acts>>
  BY DEF S!ExcludeUntrusted
<1>2. outlived \in Nat /\ acts \in 0..MaxActs BY DEF S!TypeOK
<1>3. PICK next \in Progress : /\ SnapOk(next) /\ sync' = [sync EXCEPT ![s] = next]
                               /\ next.pc = "topic" /\ next.day = None
  BY <1>1, GotoMoves DEF S!Phase, Reserved, Holding
<1>4. Moves(s, next) BY <1>1, <1>3 DEF Moves, NotRunning
<1>5. sync' \in [Workers -> Progress] /\ SnapsOk' /\ LeaseOk' /\ BudgetOk'
  BY <1>1, <1>3, <1>4, <1>2, MovesTypes, MovesLease, MovesBudget
<1> DEFINE r == [row[c] EXCEPT !.state = "excluded"]
<1>6. r \in CreatorRow /\ r.state = "excluded" /\ r.operator = row[c].operator /\ r.next = row[c].next
  BY DEF SyncTypes, CreatorRow, S!State
<1>7. row' = [row EXCEPT ![c] = r] BY <1>1
<1> HIDE DEF r
<1>8. Agrees(r) BY <1>6 DEF Agrees
<1>9. /\ decided' \in [Creators -> S!State \cup {None}] /\ \A e \in Creators \ {c} : decided'[e] = decided[e]
      /\ decided'[c] = None => decided[c] = None /\ r.operator = None
      /\ c \notin raced' /\ decided'[c] # None => Follows(r, decided'[c], c \in requested')
      /\ raced' \subseteq raced /\ raced \subseteq raced' \cup {c}
      /\ \A e \in Creators \ {c} : e \in requested => e \in requested'
      /\ visits' \in [Creators -> [count : Nat, last : Int]]
      /\ \A e \in Creators \ {c} : visits'[e] = visits[e]
  BY <1>1, <1>6 DEF RowsOk, SyncTypes, Follows
<1>10. r.next >= visits'[c].last + VisitInterval BY <1>1, <1>6 DEF VisitsOk
<1>11. acts' \in 0..MaxActs /\ UNCHANGED <<now, paused, lease, used, sent, outlived>> BY <1>1, <1>2
<1> QED BY <1>5, <1>6, <1>7, <1>8, <1>9, <1>10, <1>11, RowStep

\* The operator's steps leave every sync where it is.
LEMMA SyncsStay ==
  ASSUME SyncInv, UNCHANGED <<sync, used, sent, lease, holder, outlived>>,
         \A c \in Creators : decided'[c] = None => decided[c] = None
  PROVE  sync' \in [Workers -> Progress] /\ SnapsOk' /\ LeaseOk' /\ BudgetOk'
<1> USE DEF SyncInv
<1>1. SnapsOk' BY DEF SnapsOk, SnapOk
<1>2. S!Running' = S!Running /\ WithoutLease' = WithoutLease BY DEF S!Running, WithoutLease
<1>3. LeaseOk' BY <1>2 DEF LeaseOk
<1>4. sync' \in [Workers -> Progress] BY DEF SyncTypes
<1>5. BudgetOk'
  <2>1. \A d \in S!Days : S!Pending(d)' = S!Pending(d) BY DEF S!Pending
  <2> QED BY <2>1 DEF BudgetOk, S!Days
<1> QED BY <1>1, <1>3, <1>4, <1>5

LEMMA DecideStep ==
  ASSUME S!Assumptions, SyncInv, NEW c \in Creators, NEW state \in S!State, S!Decide(c, state) PROVE SyncInv'
<1> USE DEF SyncInv
<1>1. /\ acts < MaxActs /\ acts' = acts + 1
      /\ row' = [row EXCEPT ![c].state = state, ![c].operator = state]
      /\ decided' = [decided EXCEPT ![c] = state]
      /\ requested' = requested \ {c} /\ raced' = raced \ {c}
      /\ UNCHANGED <<now, paused, lease, used, sync, sent, holder, outlived, visits>>
  BY DEF S!Decide
<1>2. acts' \in 0..MaxActs BY <1>1, SyncSizes DEF S!TypeOK
<1>3. /\ decided' \in [Creators -> S!State \cup {None}] /\ \A e \in Creators \ {c} : decided'[e] = decided[e]
      /\ decided'[c] = state /\ state # None
  BY <1>1, SyncSizes DEF SyncTypes
<1>4. sync' \in [Workers -> Progress] /\ SnapsOk' /\ LeaseOk' /\ BudgetOk' BY <1>1, <1>3, SyncsStay
<1> DEFINE r == [row[c] EXCEPT !.state = state, !.operator = state]
<1>5. r \in CreatorRow /\ r.state = state /\ r.operator = state /\ r.next = row[c].next
  BY DEF SyncTypes, CreatorRow
<1>6. row' = [row EXCEPT ![c] = r] BY <1>1
<1> HIDE DEF r
<1>7. Agrees(r) BY <1>5 DEF Agrees
<1>8. /\ Follows(r, decided'[c], c \in requested')
      /\ \A e \in Creators \ {c} : e \in requested => e \in requested'
  BY <1>1, <1>3, <1>5 DEF Follows
<1>9. raced' \subseteq raced /\ raced \subseteq raced' \cup {c}
      /\ visits' \in [Creators -> [count : Nat, last : Int]]
      /\ \A e \in Creators \ {c} : visits'[e] = visits[e]
  BY <1>1 DEF SyncTypes
<1>10. r.next >= visits'[c].last + VisitInterval BY <1>1, <1>5 DEF VisitsOk
<1>11. UNCHANGED <<now, paused, lease, used, sent, outlived>> BY <1>1
<1> QED BY <1>2, <1>3, <1>4, <1>5, <1>6, <1>7, <1>8, <1>9, <1>10, <1>11, RowStep

LEMMA DistrustStep == ASSUME S!Assumptions, SyncInv, NEW c \in Creators, S!Distrust(c) PROVE SyncInv'
<1> USE DEF SyncInv
<1>1. /\ acts < MaxActs /\ acts' = acts + 1 /\ row' = [row EXCEPT ![c].trust = FALSE]
      /\ UNCHANGED <<now, paused, lease, used, sync, sent, holder, outlived, visits, decided, requested, raced>>
  BY DEF S!Distrust
<1>2. acts' \in 0..MaxActs BY <1>1, SyncSizes DEF S!TypeOK
<1>3. sync' \in [Workers -> Progress] /\ SnapsOk' /\ LeaseOk' /\ BudgetOk' BY <1>1, SyncsStay
<1> DEFINE r == [row[c] EXCEPT !.trust = FALSE]
<1>4. r \in CreatorRow /\ r.state = row[c].state /\ r.operator = row[c].operator /\ r.next = row[c].next
  BY DEF SyncTypes, CreatorRow
<1>5. row' = [row EXCEPT ![c] = r] BY <1>1
<1> HIDE DEF r
<1>6. Agrees(r) BY <1>4 DEF RowsOk, Agrees
<1>7. /\ decided' \in [Creators -> S!State \cup {None}] /\ \A e \in Creators \ {c} : decided'[e] = decided[e]
      /\ decided'[c] = None => decided[c] = None /\ r.operator = None
      /\ c \notin raced' /\ decided'[c] # None => Follows(r, decided'[c], c \in requested')
      /\ raced' \subseteq raced /\ raced \subseteq raced' \cup {c}
      /\ \A e \in Creators \ {c} : e \in requested => e \in requested'
      /\ visits' \in [Creators -> [count : Nat, last : Int]]
      /\ \A e \in Creators \ {c} : visits'[e] = visits[e]
  BY <1>1, <1>4 DEF RowsOk, SyncTypes, Follows
<1>8. r.next >= visits'[c].last + VisitInterval BY <1>1, <1>4 DEF VisitsOk
<1>9. UNCHANGED <<now, paused, lease, used, sent, outlived>> BY <1>1
<1> QED BY <1>2, <1>3, <1>4, <1>5, <1>6, <1>7, <1>8, <1>9, RowStep

LEMMA TodayIs == ASSUME S!Assumptions, SyncInv PROVE S!Today \in S!Days
<1>1. now \in Nat /\ SyncHorizon \in Nat /\ now <= SyncHorizon /\ SyncDay \in Nat \ {0}
  BY SyncSizes DEF SyncInv, S!TypeOK
<1>2. now \div SyncDay \in Nat /\ SyncHorizon \div SyncDay \in Nat
      /\ now \div SyncDay <= SyncHorizon \div SyncDay
  BY <1>1, DivBounds, DivMono
<1> QED BY <1>2 DEF S!Today, S!Days

\* A reservation takes one of the day's budget and makes one request pending.
LEMMA ReserveStep ==
  ASSUME S!Assumptions, SyncInv, NEW s \in Workers,
         S!LookupReserve(s) \/ S!VisitReserve(s) \/ S!SearchReserve(s)
  PROVE  SyncInv'
<1> USE DEF SyncInv
<1>1. PICK pc \in Reserved, denied \in {"resolve", "topic", "release"} :
        /\ sync[s].pc \in {"handles", "visit", "visited", "search", "found"}
        /\ IF S!WithinBudget
           THEN /\ used' = [used EXCEPT ![S!Today] = @ + 1]
                /\ sync' = [sync EXCEPT ![s].pc = pc, ![s].day = S!Today]
           ELSE S!Goto(s, denied) /\ UNCHANGED used
        /\ UNCHANGED <<now, paused, lease, row, sent, holder, outlived, visits, decided, requested, raced, acts>>
  BY DEF S!LookupReserve, S!VisitReserve, S!SearchReserve, S!Reserve, Reserved
<1>2. sync[s].pc \notin Reserved /\ sync[s].pc \notin NotRunning BY <1>1 DEF Reserved, NotRunning
<1>3. CASE ~S!WithinBudget
  <2>1. denied \in S!Phase /\ denied \notin Reserved \cup Holding BY DEF S!Phase, Reserved, Holding
  <2>2. PICK next \in Progress : /\ SnapOk(next) /\ sync' = [sync EXCEPT ![s] = next] /\ next.pc = denied
                                 /\ next.day = None
    BY <1>1, <1>2, <1>3, <2>1, GotoMoves
  <2>3. Moves(s, next) BY <1>2, <2>2 DEF Moves
  <2> QED BY <1>1, <1>3, <2>2, <2>3, OnlyMoves
<1>4. CASE S!WithinBudget
  <2> DEFINE next == [sync[s] EXCEPT !.pc = pc, !.day = S!Today]  d0 == S!Today
  <2>1. d0 \in S!Days BY TodayIs
  <2>2. next \in Progress /\ SnapOk(next) /\ next.pc = pc /\ next.day = d0
    <3>1. pc \in S!Phase /\ pc \notin Holding BY DEF S!Phase, Reserved, Holding
    <3>2. sync[s] \in Progress BY DEF SyncTypes
    <3> HIDE DEF d0
    <3>3. next \in Progress /\ next.pc = pc /\ next.day = d0 BY <2>1, <3>1, <3>2 DEF Progress, d0
    <3> QED BY <2>1, <3>1, <3>3 DEF SnapOk
  <2>3. sync' = [sync EXCEPT ![s] = next] /\ used' = [used EXCEPT ![d0] = @ + 1] BY <1>1, <1>4
  <2>4. used[d0] < SyncBudget BY <1>4 DEF S!WithinBudget
  <2> HIDE DEF next, d0
  <2>5. Moves(s, next) BY <1>2, <2>2, <2>3 DEF Moves
  <2>6. sync' \in [Workers -> Progress] /\ SnapsOk' BY <1>1, <2>2, <2>3, MovesTypes
  <2>7. LeaseOk' BY <1>1, <2>5, MovesLease DEF S!TypeOK
  <2>8. SyncTypes' BY <1>1, <2>6 DEF SyncTypes
  <2>9. used \in [S!Days -> Nat] /\ sent \in [S!Days -> Nat] /\ SyncBudget \in Nat BY SyncSizes DEF S!TypeOK
  <2>10. used' \in [S!Days -> Nat] BY <2>1, <2>3, <2>9
  <2>11. BudgetOk'
    <3> SUFFICES ASSUME NEW d \in S!Days
                 PROVE sent[d] + Cardinality(S!Pending(d)') <= used'[d] /\ used'[d] <= SyncBudget
      BY <1>1 DEF BudgetOk, S!Days
    <3>1. sync'[s] = next /\ \A w \in Workers \ {s} : sync'[w] = sync[w] BY <2>3 DEF SyncTypes
    <3>2. IsFiniteSet(S!Pending(d)) /\ Cardinality(S!Pending(d)) \in Nat
      BY PendingRuns, FS_Subset, FS_CardinalityType DEF LeaseOk
    <3>3. /\ sent[d] \in Nat /\ used[d] \in Nat /\ used'[d] = IF d = d0 THEN used[d] + 1 ELSE used[d]
          /\ sent[d] + Cardinality(S!Pending(d)) <= used[d] /\ used[d] <= SyncBudget
      BY <2>3, <2>9 DEF BudgetOk
    <3>4. CASE d = d0
      <4>1. S!Pending(d)' \subseteq S!Pending(d) \cup {s} BY <3>1 DEF S!Pending
      <4>a. /\ IsFiniteSet(S!Pending(d) \cup {s})
            /\ Cardinality(S!Pending(d) \cup {s})
               = IF s \in S!Pending(d) THEN Cardinality(S!Pending(d)) ELSE Cardinality(S!Pending(d)) + 1
        BY <3>2, FS_AddElement
      <4>2. /\ IsFiniteSet(S!Pending(d) \cup {s})
            /\ Cardinality(S!Pending(d) \cup {s}) \in Nat
            /\ Cardinality(S!Pending(d) \cup {s}) <= Cardinality(S!Pending(d)) + 1
        BY <4>a, <3>2
      <4>3. Cardinality(S!Pending(d)') <= Cardinality(S!Pending(d) \cup {s})
            /\ Cardinality(S!Pending(d)') \in Nat
        BY <4>1, <4>2, FS_Subset, FS_CardinalityType
      <4> QED BY <3>2, <3>3, <3>4, <4>2, <4>3, <2>4, <2>9
    <3>5. CASE d # d0
      <4>1. S!Pending(d)' \subseteq S!Pending(d) BY <3>1, <3>5, <2>2 DEF S!Pending
      <4>2. Cardinality(S!Pending(d)') <= Cardinality(S!Pending(d)) /\ Cardinality(S!Pending(d)') \in Nat
        BY <4>1, <3>2, FS_Subset, FS_CardinalityType
      <4> QED BY <3>2, <3>3, <3>5, <4>2
    <3> QED BY <3>4, <3>5
  <2>12. S!TypeOK'
    <3>1. \A t \in Workers : sync'[t].pc \in S!Phase
      BY <2>6 DEF Progress
    <3> QED BY <1>1, <2>10, <3>1 DEF S!TypeOK, S!Days
  <2>13. RowsOk' /\ VisitsOk' BY <1>1 DEF RowsOk, VisitsOk
  <2> QED BY <2>6, <2>7, <2>8, <2>11, <2>12, <2>13
<1> QED BY <1>3, <1>4

\* What is sent is no longer pending.
LEMMA SendStep ==
  ASSUME S!Assumptions, SyncInv, NEW s \in Workers,
         S!LookupSend(s) \/ S!VisitSend(s) \/ S!SearchSend(s)
  PROVE  SyncInv'
<1> USE DEF SyncInv
<1>1. PICK pc \in {"lookedUp", "visited", "found"} :
        /\ sync[s].pc \in Reserved
        /\ sent' = [sent EXCEPT ![sync[s].day] = @ + 1]
        /\ sync' = [sync EXCEPT ![s].pc = pc, ![s].day = None]
        /\ UNCHANGED <<now, paused, lease, used, row, holder, outlived, visits, decided, requested, raced, acts>>
  BY DEF S!LookupSend, S!VisitSend, S!SearchSend, S!Send, Reserved
<1> DEFINE next == [sync[s] EXCEPT !.pc = pc, !.day = None]  d0 == sync[s].day
<1>2. d0 \in S!Days BY <1>1 DEF SnapsOk, SnapOk
<1>3. next \in Progress /\ SnapOk(next) /\ next.pc = pc /\ next.day = None
  <2>1. pc \in S!Phase /\ pc \notin Reserved \cup Holding BY DEF S!Phase, Reserved, Holding
  <2>2. sync[s] \in Progress BY DEF SyncTypes
  <2>3. next \in Progress /\ next.pc = pc /\ next.day = None BY <2>1, <2>2 DEF Progress
  <2> QED BY <2>1, <2>3 DEF SnapOk
<1>4. sync' = [sync EXCEPT ![s] = next] BY <1>1
<1>5. sent' = [sent EXCEPT ![d0] = @ + 1] /\ s \in S!Pending(d0) BY <1>1 DEF S!Pending
<1> HIDE DEF next, d0
<1>6. Moves(s, next) BY <1>1, <1>3, <1>4 DEF Moves, Reserved, NotRunning
<1>7. sync' \in [Workers -> Progress] /\ SnapsOk' BY <1>1, <1>3, <1>4, MovesTypes
<1>8. LeaseOk' BY <1>1, <1>6, MovesLease DEF S!TypeOK
<1>9. SyncTypes' BY <1>1, <1>7 DEF SyncTypes
<1>10. used \in [S!Days -> Nat] /\ sent \in [S!Days -> Nat] BY DEF S!TypeOK
<1>11. sent' \in [S!Days -> Nat] BY <1>2, <1>5, <1>10
<1>12. BudgetOk'
  <2> SUFFICES ASSUME NEW d \in S!Days
               PROVE sent'[d] + Cardinality(S!Pending(d)') <= used[d] /\ used[d] <= SyncBudget
    BY <1>1 DEF BudgetOk, S!Days
  <2>1. sync'[s] = next /\ \A w \in Workers \ {s} : sync'[w] = sync[w] BY <1>4 DEF SyncTypes
  <2>2. IsFiniteSet(S!Pending(d)) /\ Cardinality(S!Pending(d)) \in Nat
    BY PendingRuns, FS_Subset, FS_CardinalityType DEF LeaseOk
  <2>3. /\ sent[d] \in Nat /\ used[d] \in Nat /\ sent'[d] = IF d = d0 THEN sent[d] + 1 ELSE sent[d]
        /\ sent[d] + Cardinality(S!Pending(d)) <= used[d] /\ used[d] <= SyncBudget
    BY <1>5, <1>10 DEF BudgetOk
  <2>4. d # None BY SyncSizes DEF S!Days
  <2>5. S!Pending(d)' \subseteq S!Pending(d) \ {s} BY <1>3, <2>1, <2>4 DEF S!Pending
  <2>6. /\ IsFiniteSet(S!Pending(d) \ {s})
        /\ Cardinality(S!Pending(d) \ {s}) \in Nat
        /\ Cardinality(S!Pending(d) \ {s})
           = IF s \in S!Pending(d) THEN Cardinality(S!Pending(d)) - 1 ELSE Cardinality(S!Pending(d))
    BY <2>2, FS_RemoveElement, FS_CardinalityType
  <2>7. Cardinality(S!Pending(d)') <= Cardinality(S!Pending(d) \ {s}) /\ Cardinality(S!Pending(d)') \in Nat
    BY <2>5, <2>6, FS_Subset, FS_CardinalityType
  <2>8. CASE d = d0 BY <2>2, <2>3, <2>6, <2>7, <2>8, <1>5
  <2>9. CASE d # d0 BY <2>2, <2>3, <2>6, <2>7, <2>9
  <2> QED BY <2>8, <2>9
<1>13. S!TypeOK'
  <2>1. \A t \in Workers : sync'[t].pc \in S!Phase
    BY <1>7 DEF Progress
  <2> QED BY <1>1, <1>11, <2>1 DEF S!TypeOK, S!Days
<1>14. RowsOk' /\ VisitsOk' BY <1>1 DEF RowsOk, VisitsOk
<1> QED BY <1>7, <1>8, <1>9, <1>12, <1>13, <1>14

\* The steps that read, decide or give up: they change no row, lease or budget.
Looks(s) ==
  \/ S!Begin(s) \/ S!Overlap(s) \/ S!ListHandles(s) \/ S!LookupIdle(s) \/ S!ListDone(s)
  \/ S!NothingToPromote(s) \/ S!NoVisit(s) \/ S!StartDiscovery(s) \/ S!SearchFails(s)
Leaves(s) == S!Visited(s) \/ S!Dies(s)
Reads(s) == \E c \in Creators : S!ResolveRead(s, c) \/ S!PromoteRead(s, c) \/ S!PersistRead(s, c)

LEMMA QuietStep == ASSUME S!Assumptions, SyncInv, NEW s \in Workers, Looks(s) \/ Leaves(s) \/ Reads(s) PROVE SyncInv'
<1> USE DEF SyncInv
<1>1. UNCHANGED <<now, paused, lease, used, row, acts, sent, holder, outlived, visits, decided, requested, raced>>
  <2>1. CASE Looks(s)
    BY <2>1, Zenon DEF Looks, S!Begin, S!Overlap, S!ListHandles, S!LookupIdle, S!ListDone,
                       S!NothingToPromote, S!NoVisit, S!StartDiscovery, S!SearchFails
  <2>2. CASE Leaves(s) BY <2>2, Zenon DEF Leaves, S!Visited, S!Dies
  <2>3. CASE Reads(s) BY <2>3, Zenon DEF Reads, S!ResolveRead, S!PromoteRead, S!PersistRead
  <2> QED BY <2>1, <2>2, <2>3
<1>2. SUFFICES \E next : Moves(s, next) /\ next.day = None BY <1>1, OnlyMoves
<1>3. CASE Looks(s)
  <2>1. PICK pc \in {"idle", "checked", "resolve", "handles", "promote", "monitor", "topic", "release", "search"} :
          S!Goto(s, pc) /\ (pc \in NotRunning \/ sync[s].pc \notin NotRunning) /\ sync[s].pc \notin Reserved
    BY <1>3
      DEF Looks, S!Begin, S!Overlap, S!ListHandles, S!LookupIdle, S!ListDone, S!NothingToPromote, S!NoVisit,
          S!StartDiscovery, S!SearchFails, NotRunning, Reserved
  <2>2. pc \in S!Phase /\ pc \notin Reserved \cup Holding BY DEF S!Phase, Reserved, Holding
  <2> QED BY <2>1, <2>2, GotoMoves DEF Moves
<1>4. CASE Leaves(s)
  <2>1. "topic" \in S!Phase \ (Reserved \cup Holding) BY DEF S!Phase, Reserved, Holding
  <2>2. /\ S!Idle \in Progress /\ SnapOk(S!Idle) /\ S!Idle.pc \in NotRunning /\ S!Idle.day = None
        /\ [S!Idle EXCEPT !.pc = "topic"] \in Progress /\ SnapOk([S!Idle EXCEPT !.pc = "topic"])
        /\ [S!Idle EXCEPT !.pc = "topic"].day = None
    BY <2>1, IdleAt DEF S!Idle, NotRunning
  <2>3. CASE S!Visited(s)
    <3>1. sync[s].pc \notin NotRunning /\ sync' = [sync EXCEPT ![s] = [S!Idle EXCEPT !.pc = "topic"]]
      BY <2>3 DEF S!Visited, NotRunning
    <3> QED BY <2>2, <3>1, Zenon DEF Moves
  <2>4. CASE S!Dies(s) BY <2>2, <2>4 DEF Moves, S!Dies
  <2> QED BY <1>4, <2>3, <2>4 DEF Leaves
<1>5. CASE Reads(s)
  <2>1. PICK c \in Creators : S!ResolveRead(s, c) \/ S!PromoteRead(s, c) \/ S!PersistRead(s, c) BY <1>5 DEF Reads
  <2> DEFINE next(pc) == [pc |-> pc, creator |-> c, snap |-> row[c], day |-> None]
  <2>2. PICK pc \in Holding :
          /\ sync' = [sync EXCEPT ![s] = next(pc)] /\ sync[s].pc \notin NotRunning
          /\ pc \in {"resolving", "promoting"} => row[c].state \in {"none", "candidate"}
    BY <2>1 DEF S!ResolveRead, S!PromoteRead, S!PersistRead, NotRunning, Holding, S!Idle
  <2>3. next(pc) \in Progress BY DEF Progress, SyncTypes, S!Phase, Holding
  <2>4. SnapOk(next(pc)) BY <2>2 DEF SnapOk, RowsOk, SyncTypes, Holding, Reserved
  <2>5. Moves(s, next(pc)) BY <2>2, <2>3, <2>4 DEF Moves
  <2>6. next(pc).day = None OBVIOUS
  <2> QED BY <2>5, <2>6
<1> QED BY <1>3, <1>4, <1>5

Requests(s) ==
  \/ S!LookupReserve(s) \/ S!VisitReserve(s) \/ S!SearchReserve(s)
  \/ S!LookupSend(s) \/ S!VisitSend(s) \/ S!SearchSend(s)
Writes(s) == S!ResolveWrite(s) \/ S!PromoteWrite(s) \/ S!PersistWrite(s)
Leases(s) == S!TakeLease(s) \/ S!ReleaseLease(s)
Operates == \E c \in Creators : S!Distrust(c) \/ \E state \in S!State : S!Decide(c, state)
Passes == S!Tick \/ (\E p \in BOOLEAN : S!Pause(p)) \/ UNCHANGED S!vars

LEMMA SyncSteps ==
  ASSUME [S!Next]_S!vars
  PROVE  \/ \E s \in Workers :
              \/ Looks(s) \/ Leaves(s) \/ Reads(s) \/ Requests(s) \/ Writes(s) \/ Leases(s)
              \/ \E c \in Creators : S!ClaimVisit(s, c) \/ S!ExcludeUntrusted(s, c)
         \/ Operates \/ Passes
BY Zenon DEF S!Next, Looks, Leaves, Reads, Requests, Writes, Leases, Operates, Passes

LEMMA SyncInvStep == ASSUME S!Assumptions, SyncInv, [S!Next]_S!vars PROVE SyncInv'
<1>1. ASSUME NEW s \in Workers, Looks(s) \/ Leaves(s) \/ Reads(s) PROVE SyncInv' BY <1>1, QuietStep
<1>2. ASSUME NEW s \in Workers, Requests(s) PROVE SyncInv' BY <1>2, ReserveStep, SendStep DEF Requests
<1>3. ASSUME NEW s \in Workers, Writes(s) PROVE SyncInv'
  BY <1>3, ResolveWriteStep, PromoteWriteStep, PersistWriteStep DEF Writes
<1>4. ASSUME NEW s \in Workers, Leases(s) PROVE SyncInv' BY <1>4, TakeLeaseStep, ReleaseLeaseStep DEF Leases
<1>5. ASSUME NEW s \in Workers, NEW c \in Creators, S!ClaimVisit(s, c) \/ S!ExcludeUntrusted(s, c) PROVE SyncInv'
  BY <1>5, ClaimVisitStep, ExcludeUntrustedStep
<1>6. CASE Operates BY <1>6, DecideStep, DistrustStep DEF Operates
<1>7. CASE Passes
  <2> USE DEF SyncInv
  <2>1. /\ UNCHANGED <<lease, used, row, sync, sent, holder, outlived, visits, decided, requested, raced>>
        /\ now' \in 1..SyncHorizon /\ paused' \in BOOLEAN /\ acts' \in 0..MaxActs
    BY <1>7, SyncSizes DEF Passes, S!Tick, S!Pause, S!vars, S!TypeOK
  <2>2. sync' \in [Workers -> Progress] /\ SnapsOk' /\ LeaseOk' /\ BudgetOk' BY <2>1, SyncsStay
  <2>3. SyncTypes' /\ RowsOk' /\ VisitsOk' BY <2>1 DEF SyncTypes, RowsOk, VisitsOk
  <2>4. S!TypeOK' BY <2>1 DEF S!TypeOK, S!Days
  <2> QED BY <2>2, <2>3, <2>4
<1> QED BY <1>1, <1>2, <1>3, <1>4, <1>5, <1>6, <1>7, SyncSteps, Zenon

LEMMA SyncBudgetHolds == ASSUME SyncInv PROVE S!WithinDailyBudget
BY SameCounts DEF SyncInv, BudgetOk, S!WithinDailyBudget

LEMMA SyncsOverlapHolds == ASSUME SyncInv PROVE S!SyncsOverlap
<1>1. /\ IsFiniteSet(S!Running) /\ Cardinality(S!Running) \in Nat /\ outlived \in Nat
      /\ Cardinality(WithoutLease) <= outlived
  BY FS_CardinalityType DEF SyncInv, LeaseOk, S!TypeOK
<1>2. Cardinality(S!Running \ {holder}) = IF holder \in S!Running THEN Cardinality(S!Running) - 1
                                        ELSE Cardinality(S!Running)
  BY <1>1, FS_RemoveElement
<1> QED BY <1>1, <1>2, SameCounts DEF S!SyncsOverlap, WithoutLease

LEMMA DecisionStandsHolds == ASSUME SyncInv PROVE S!DecisionStands
BY DEF SyncInv, RowsOk, Agrees, Follows, SyncTypes, CreatorRow, S!State, S!DecisionStands

\* Only a claim of the visit counts one, and it finds the interval over.
LEMMA VisitWaitedStep == ASSUME S!Assumptions, SyncInv, [S!Next]_S!vars PROVE S!VisitWaited
<1> USE DEF SyncInv
<1>1. ASSUME NEW s \in Workers, NEW c \in Creators, S!ClaimVisit(s, c) PROVE S!VisitWaited
  <2>1. row[c].next <= now /\ visits' = [visits EXCEPT ![c] = [count |-> @.count + 1, last |-> now]]
    BY <1>1 DEF S!ClaimVisit, S!Due
  <2>2. row[c].next >= visits[c].last + VisitInterval /\ row[c].next \in Int /\ now \in Int
        /\ visits[c].last \in Int /\ VisitInterval \in Nat
    BY SyncSizes DEF VisitsOk, S!TypeOK, SyncTypes
  <2>3. now >= visits[c].last + VisitInterval BY <2>1, <2>2
  <2>4. \A d \in Creators \ {c} : visits'[d] = visits[d] /\ visits[d].count \in Nat BY <2>1 DEF SyncTypes
  <2> QED BY <2>3, <2>4 DEF S!VisitWaited
<1>2. ASSUME visits' = visits PROVE S!VisitWaited
  <2>1. \A c \in Creators : visits[c].count \in Nat BY DEF SyncTypes
  <2> QED BY <1>2, <2>1 DEF S!VisitWaited
<1>3. ASSUME NEW s \in Workers, Looks(s) PROVE visits' = visits
  BY <1>3, Zenon DEF Looks, S!Begin, S!Overlap, S!ListHandles, S!LookupIdle, S!ListDone,
                     S!NothingToPromote, S!NoVisit, S!StartDiscovery, S!SearchFails
<1>4. ASSUME NEW s \in Workers, Leaves(s) \/ Reads(s) PROVE visits' = visits
  BY <1>4, Zenon DEF Leaves, S!Visited, S!Dies, Reads, S!ResolveRead, S!PromoteRead, S!PersistRead
<1>5. ASSUME NEW s \in Workers, Requests(s) PROVE visits' = visits
  BY <1>5, Zenon DEF Requests, S!LookupReserve, S!VisitReserve, S!SearchReserve, S!Reserve,
                     S!LookupSend, S!VisitSend, S!SearchSend, S!Send
<1>6. ASSUME NEW s \in Workers, Writes(s) \/ Leases(s) PROVE visits' = visits
  BY <1>6, Zenon DEF Writes, S!ResolveWrite, S!PromoteWrite, S!PersistWrite, Leases, S!TakeLease, S!ReleaseLease
<1>7. ASSUME NEW s \in Workers, NEW c \in Creators, S!ExcludeUntrusted(s, c) PROVE visits' = visits
  BY <1>7 DEF S!ExcludeUntrusted
<1>8. CASE Operates \/ Passes
  BY <1>8, <1>2 DEF Operates, Passes, S!Distrust, S!Decide, S!Pause, S!Tick, S!vars
<1> QED BY <1>1, <1>2, <1>3, <1>4, <1>5, <1>6, <1>7, <1>8, SyncSteps, Zenon

-----------------------------------------------------------------------------
(* TikTokListing.  A video is accounted for when it is stored or was passed    *)
(* over.  Every claim starts, and every completed one ends, where all videos    *)
(* below are accounted for; a helper that answers holds what is missing below   *)
(* the newest video of its answer.                                             *)

Accounted == ttStored \cup ttGiven
ProfileClaim == [status : {"started", "completed", "failed"}, at : Nat, since : Nat, newest : Nat]
Listing == [pc : {"idle", "list", "answer", "store", "fail"}, since : Nat, videos : SUBSET Nat, claim : Nat,
            newest : Nat]

ListingTypes == profileClaims \in Seq(ProfileClaim) /\ ttWork \in [Workers -> Listing]

ClaimOk(i) ==
  /\ profileClaims[i].since \in 0..posted /\ 1..profileClaims[i].since \subseteq Accounted
  /\ profileClaims[i].status = "completed" => 1..profileClaims[i].newest \subseteq Accounted

ListingOk(h) ==
  /\ ttWork[h].pc = "list" => ttWork[h].since \in 0..posted /\ 1..ttWork[h].since \subseteq Accounted
  /\ ttWork[h].pc = "answer" => \A u \in ttWork[h].videos : 1..u \subseteq Accounted \cup ttWork[h].videos
  /\ ttWork[h].pc = "store" =>
       /\ ttWork[h].claim # 0 /\ ttWork[h].newest \in 0..posted
       /\ 1..ttWork[h].newest \subseteq Accounted \cup ttWork[h].videos
  /\ ttWork[h].pc = "fail" => ttWork[h].claim # 0

ClaimsOk == \A i \in 1..Len(profileClaims) : ClaimOk(i)
ListingsOk == \A h \in Workers : ListingOk(h)

ListingInv == T!TypeOK /\ ListingTypes /\ ClaimsOk /\ ListingsOk

LEMMA ListingSizes ==
  ASSUME T!Assumptions
  PROVE  /\ ListInterval \in Nat \ {0} /\ MaxListed \in Nat \ {0} /\ MaxListings \in Nat \ {0}
         /\ MaxVideo \in Nat \ {0} /\ ListTicks \in Nat \ {0}
BY DEF T!Assumptions

LEMMA LargestIs ==
  ASSUME NEW R, R \subseteq Nat, R # {}, NEW m \in Nat, \A x \in R : x <= m
  PROVE  T!Max(R) \in R /\ \A y \in R : T!Max(R) >= y
BY HasLargest DEF T!Max

LEMMA ListingStart == ASSUME T!Assumptions, T!Init PROVE ListingInv
<1> USE ListingSizes DEF T!Init, T!NoWork
<1>1. ListingTypes BY DEF ListingTypes, Listing
<1>2. Len(profileClaims) = 0 /\ 1..Len(profileClaims) = {} OBVIOUS
<1>3. T!TypeOK BY <1>2 DEF T!TypeOK
<1>4. ClaimsOk /\ ListingsOk BY <1>2 DEF ClaimsOk, ListingsOk, ListingOk
<1> QED BY <1>1, <1>3, <1>4 DEF ListingInv

LEMMA SinceStands ==
  ASSUME T!TypeOK, ListingTypes, ClaimsOk
  PROVE  T!Since \in 0..posted /\ 1..T!Since \subseteq Accounted
<1> DEFINE done == {j \in 1..Len(profileClaims) : profileClaims[j].status = "completed"}
           ends == {0} \cup {profileClaims[i].newest : i \in done}
<1>1. posted \in Nat /\ \A i \in 1..Len(profileClaims) : profileClaims[i].newest \in 0..posted
  BY DEF T!TypeOK
<1>2. ends \subseteq Nat /\ ends # {} /\ \A x \in ends : x <= posted BY <1>1
<1>3. T!Max(ends) \in ends BY <1>1, <1>2, LargestIs
<1>4. T!Since = T!Max(ends) BY DEF T!Since
<1>5. CASE T!Since = 0 BY <1>5, <1>1
<1>6. CASE T!Since # 0
  <2>1. PICK i \in done : T!Since = profileClaims[i].newest BY <1>3, <1>4, <1>6
  <2> QED BY <2>1, <1>1 DEF ClaimsOk, ClaimOk
<1> QED BY <1>5, <1>6

\* What a step that only accounts for more, or posts more, leaves of a helper
\* it does not move, and of a claim it does not write.
LEMMA ListingKept ==
  ASSUME NEW h \in Workers, ListingOk(h), ttWork'[h] = ttWork[h], posted \in Nat, posted' \in Nat, posted <= posted',
         Accounted \subseteq Accounted'
  PROVE  ListingOk(h)'
BY DEF ListingOk

LEMMA ClaimStays ==
  ASSUME NEW i, ClaimOk(i), profileClaims'[i] = profileClaims[i], posted \in Nat, posted' \in Nat, posted <= posted',
         Accounted \subseteq Accounted'
  PROVE  ClaimOk(i)'
BY DEF ClaimOk

\* A step of one helper that writes no claim.
LEMMA HelperMoves ==
  ASSUME ListingInv, NEW h \in Workers, NEW next \in Listing, ttWork' = [ttWork EXCEPT ![h] = next],
         UNCHANGED <<ttClock, followed, posted, profileClaims>>,
         Accounted \subseteq Accounted', Accounted' \subseteq 1..posted,
         next.claim \in 0..Len(profileClaims), next.videos \subseteq 1..posted, ListingOk(h)'
  PROVE  ListingInv'
<1> USE DEF ListingInv
<1>1. ttWork'[h] = next /\ \A g \in Workers \ {h} : ttWork'[g] = ttWork[g] BY DEF ListingTypes
<1>2. ListingTypes' BY DEF ListingTypes
<1>3. T!TypeOK'
  <2>1. \A g \in Workers : /\ ttWork'[g].pc \in {"idle", "list", "answer", "store", "fail"}
                           /\ ttWork'[g].claim \in 0..Len(profileClaims) /\ ttWork'[g].videos \subseteq 1..posted
    BY <1>1 DEF T!TypeOK, Listing
  <2> QED BY <2>1 DEF T!TypeOK, Accounted
<1>4. posted \in Nat BY DEF T!TypeOK
<1>5. ClaimsOk' BY <1>4, ClaimStays DEF ClaimsOk
<1>6. ListingsOk'
  <2>1. \A g \in Workers \ {h} : ListingOk(g)' BY <1>1, <1>4, ListingKept DEF ListingsOk
  <2> QED BY <2>1 DEF ListingsOk
<1> QED BY <1>2, <1>3, <1>5, <1>6

LEMMA ClaimProfileStep ==
  ASSUME T!Assumptions, ListingInv, NEW h \in Workers, T!ClaimProfile(h)
  PROVE  ListingInv'
<1> USE DEF ListingInv
<1> DEFINE new == [status |-> "started", at |-> ttClock, since |-> T!Since, newest |-> 0]
           next == [T!NoWork EXCEPT !.pc = "list", !.since = T!Since]
<1>1. /\ profileClaims' = Append(profileClaims, new) /\ ttWork' = [ttWork EXCEPT ![h] = next]
      /\ UNCHANGED <<ttClock, followed, posted, ttStored, ttGiven>>
  BY DEF T!ClaimProfile
<1>2. /\ T!Since \in 0..posted /\ 1..T!Since \subseteq Accounted /\ posted \in Nat /\ ttClock \in Nat
      /\ posted \in 1..MaxVideo
  BY SinceStands, ListingSizes DEF T!TypeOK
<1>3. T!Since \in Nat BY <1>2
<1>4. new \in ProfileClaim /\ new.status = "started" /\ new.at = ttClock /\ new.since = T!Since /\ new.newest = 0
  BY <1>2, <1>3 DEF ProfileClaim
<1>5. /\ next \in Listing /\ next.pc = "list" /\ next.since = T!Since /\ next.claim = 0 /\ next.videos = {}
  BY <1>3 DEF Listing, T!NoWork
<1> HIDE DEF new, next
<1>6. /\ profileClaims' \in Seq(ProfileClaim) /\ Len(profileClaims') = Len(profileClaims) + 1 /\ profileClaims'[Len(profileClaims) + 1] = new
      /\ \A i \in 1..Len(profileClaims) : profileClaims'[i] = profileClaims[i]
  BY <1>1, <1>4 DEF ListingTypes
<1>7. ttWork'[h] = next /\ \A g \in Workers \ {h} : ttWork'[g] = ttWork[g] BY <1>1 DEF ListingTypes
<1>8. ListingTypes' BY <1>1, <1>5, <1>6 DEF ListingTypes
<1>9. Len(profileClaims) \in Nat BY DEF ListingTypes
<1>10. Accounted' = Accounted BY <1>1 DEF Accounted
<1>11. ClaimsOk'
  <2> SUFFICES ASSUME NEW i \in 1..Len(profileClaims) + 1 PROVE ClaimOk(i)' BY <1>6 DEF ClaimsOk
  <2>1. CASE i = Len(profileClaims) + 1 BY <2>1, <1>1, <1>2, <1>4, <1>6, <1>10 DEF ClaimOk
  <2>2. CASE i # Len(profileClaims) + 1
    <3>1. i \in 1..Len(profileClaims) BY <2>2, <1>9
    <3> QED BY <3>1, <1>1, <1>2, <1>6, <1>10, ClaimStays DEF ClaimsOk
  <2> QED BY <2>1, <2>2
<1>12. ListingsOk'
  <2>1. ListingOk(h)' BY <1>1, <1>2, <1>5, <1>7, <1>10 DEF ListingOk
  <2>2. \A g \in Workers \ {h} : ListingOk(g)' BY <1>1, <1>2, <1>7, <1>10, ListingKept DEF ListingsOk
  <2> QED BY <2>1, <2>2 DEF ListingsOk
<1>13. T!TypeOK'
  <2>1. \A i \in 1..Len(profileClaims') : /\ profileClaims'[i].status \in {"started", "completed", "failed"}
                                          /\ profileClaims'[i].at \in 0..ttClock /\ profileClaims'[i].newest \in 0..posted
    <3> SUFFICES ASSUME NEW i \in 1..Len(profileClaims) + 1
                 PROVE  /\ profileClaims'[i].status \in {"started", "completed", "failed"}
                        /\ profileClaims'[i].at \in 0..ttClock /\ profileClaims'[i].newest \in 0..posted
      BY <1>6
    <3>1. CASE i = Len(profileClaims) + 1 BY <3>1, <1>2, <1>4, <1>6
    <3>2. CASE i # Len(profileClaims) + 1
      <4>1. i \in 1..Len(profileClaims) BY <3>2, <1>9
      <4> QED BY <4>1, <1>6 DEF T!TypeOK
    <3> QED BY <3>1, <3>2
  <2>2. \A g \in Workers : /\ ttWork'[g].pc \in {"idle", "list", "answer", "store", "fail"}
                           /\ ttWork'[g].claim \in 0..Len(profileClaims') /\ ttWork'[g].videos \subseteq 1..posted
    BY <1>9, <1>5, <1>6, <1>7 DEF T!TypeOK
  <2> QED BY <1>1, <2>1, <2>2 DEF T!TypeOK
<1> QED BY <1>8, <1>11, <1>12, <1>13

LEMMA ListProfileStep ==
  ASSUME T!Assumptions, ListingInv, NEW h \in Workers, T!ListProfile(h)
  PROVE  ListingInv'
<1> USE DEF ListingInv
<1> DEFINE new == ttWork[h].since + 1 .. posted
           top == {v \in new : v > posted - MaxListed}
           next == [ttWork[h] EXCEPT !.pc = "answer", !.videos = top]
<1>1. /\ ttWork[h].pc = "list" /\ ttWork' = [ttWork EXCEPT ![h] = next] /\ ttGiven' = ttGiven \cup (new \ top)
      /\ UNCHANGED <<ttClock, followed, posted, profileClaims, ttStored>>
  BY DEF T!ListProfile
<1>2. /\ ttWork[h] \in Listing /\ posted \in Nat /\ ttWork[h].since \in 0..posted
      /\ 1..ttWork[h].since \subseteq Accounted /\ ttWork[h].claim \in 0..Len(profileClaims)
  BY <1>1 DEF ListingTypes, T!TypeOK, ListingsOk, ListingOk
<1>3. new \subseteq 1..posted /\ top \subseteq 1..posted /\ 1..posted \subseteq Nat BY <1>2 DEF Listing
<1>4. next \in Listing /\ next.pc = "answer" /\ next.videos = top /\ next.claim = ttWork[h].claim
  BY <1>2, <1>3 DEF Listing
<1>5. Accounted' = Accounted \cup (new \ top) BY <1>1 DEF Accounted
<1>6. 1..posted \subseteq Accounted' \cup top
  <2>1. 1..posted \subseteq 1..ttWork[h].since \cup new BY <1>2
  <2> QED BY <2>1, <1>2, <1>5
<1>7. \A u \in top : 1..u \subseteq Accounted' \cup top
  <2> SUFFICES ASSUME NEW u \in top PROVE 1..u \subseteq Accounted' \cup top OBVIOUS
  <2>1. u \in 1..posted BY <1>3
  <2>2. 1..u \subseteq 1..posted BY <2>1, <1>2
  <2> QED BY <2>2, <1>6
<1>8. Accounted' \subseteq 1..posted BY <1>3, <1>5 DEF T!TypeOK, Accounted
<1> HIDE DEF new, top, next
<1>9. ttWork'[h] = next BY <1>1 DEF ListingTypes
<1>10. ListingOk(h)' BY <1>4, <1>7, <1>9 DEF ListingOk
<1> QED BY <1>1, <1>2, <1>3, <1>4, <1>5, <1>8, <1>10, HelperMoves

LEMMA SubmitStep ==
  ASSUME T!Assumptions, ListingInv, NEW h \in Workers, T!Submit(h)
  PROVE  ListingInv'
<1> USE DEF ListingInv
<1> DEFINE open == {i \in 1..Len(profileClaims) : T!Open(i)}
           o == T!Max(open)
           s == profileClaims[o].since
           missing == {v \in ttWork[h].videos : v > s}
           newest == T!Max(missing \cup {s})
           found == [ttWork[h] EXCEPT !.pc = "store", !.videos = missing, !.claim = o, !.newest = newest]
<1>1. /\ ttWork[h].pc = "answer" /\ ttWork' = [ttWork EXCEPT ![h] = IF open = {} THEN T!NoWork ELSE found]
      /\ UNCHANGED <<ttClock, followed, posted, profileClaims, ttStored, ttGiven>>
  BY DEF T!Submit
<1>2. /\ ttWork[h] \in Listing /\ posted \in Nat /\ ttWork[h].videos \subseteq 1..posted /\ Len(profileClaims) \in Nat
      /\ \A u \in ttWork[h].videos : 1..u \subseteq Accounted \cup ttWork[h].videos
  BY <1>1 DEF ListingTypes, T!TypeOK, ListingsOk, ListingOk
<1>3. Accounted' = Accounted /\ Accounted \subseteq 1..posted BY <1>1 DEF Accounted, T!TypeOK
<1>4. CASE open = {}
  <2>1. T!NoWork \in Listing /\ T!NoWork.claim = 0 /\ T!NoWork.videos = {} /\ T!NoWork.pc = "idle"
    BY DEF Listing, T!NoWork
  <2>2. ttWork' = [ttWork EXCEPT ![h] = T!NoWork] BY <1>1, <1>4
  <2>3. ttWork'[h] = T!NoWork BY <2>2 DEF ListingTypes
  <2>4. ListingOk(h)' BY <2>1, <2>3 DEF ListingOk
  <2>5. 0 \in 0..Len(profileClaims) /\ {} \subseteq 1..posted BY <1>2
  <2> QED BY <1>1, <1>3, <2>1, <2>2, <2>4, <2>5, HelperMoves
<1>5. CASE open # {}
  <2>1. o \in 1..Len(profileClaims)
    <3>1. open \subseteq Nat /\ \A i \in open : i <= Len(profileClaims) BY <1>2
    <3> QED BY <3>1, <1>2, <1>5, LargestIs
  <2> HIDE DEF o
  <2>2. s \in 0..posted /\ 1..s \subseteq Accounted BY <2>1 DEF ClaimsOk, ClaimOk
  <2> HIDE DEF s
  <2>3. newest \in missing \cup {s}
    <3>1. /\ missing \cup {s} \subseteq Nat /\ missing \cup {s} # {} /\ \A x \in missing \cup {s} : x <= posted
      BY <1>2, <2>2
    <3> QED BY <3>1, <1>2, LargestIs
  <2> HIDE DEF newest
  <2>4. newest \in 0..posted BY <2>2, <2>3, <1>2
  <2>5. 1..newest \subseteq Accounted \cup missing
    <3>1. CASE newest = s BY <3>1, <2>2
    <3>2. CASE newest # s
      <4>1. newest \in ttWork[h].videos BY <3>2, <2>3
      <4>2. 1..newest \subseteq Accounted \cup ttWork[h].videos BY <4>1, <1>2
      <4>3. \A v \in 1..newest : v > s \/ v \in 1..s BY <2>2, <2>4
      <4> QED BY <4>2, <4>3, <2>2
    <3> QED BY <3>1, <3>2
  <2>6. missing \subseteq 1..posted /\ missing \in SUBSET Nat BY <1>2
  <2>7. newest \in Nat /\ o \in Nat BY <2>1, <2>4, <1>2
  <2> HIDE DEF missing
  <2>8. /\ found \in Listing /\ found.pc = "store" /\ found.videos = missing /\ found.claim = o
        /\ found.newest = newest
    BY <1>2, <2>7, <2>6 DEF Listing
  <2>9. ttWork' = [ttWork EXCEPT ![h] = found] BY <1>1, <1>5
  <2> HIDE DEF found
  <2>10. ttWork'[h] = found BY <2>9 DEF ListingTypes
  <2>11. ListingOk(h)' BY <1>1, <1>3, <2>1, <2>4, <2>5, <2>8, <2>10 DEF ListingOk
  <2>12. found.claim \in 0..Len(profileClaims) /\ found.videos \subseteq 1..posted BY <2>1, <2>6, <2>8
  <2> QED BY <1>1, <1>3, <2>8, <2>9, <2>11, <2>12, HelperMoves
<1> QED BY <1>4, <1>5

LEMMA VideoStep ==
  ASSUME T!Assumptions, ListingInv, NEW h \in Workers, NEW v \in 1..MaxVideo,
         T!StoreVideo(h, v) \/ T!SkipVideo(h, v)
  PROVE  ListingInv'
<1> USE DEF ListingInv
<1> DEFINE next == [ttWork[h] EXCEPT !.videos = @ \ {v}]
<1>1. /\ ttWork[h].pc = "store" /\ v \in ttWork[h].videos /\ ttWork' = [ttWork EXCEPT ![h] = next]
      /\ UNCHANGED <<ttClock, followed, posted, profileClaims>> /\ Accounted' = Accounted \cup {v}
  BY DEF T!StoreVideo, T!SkipVideo, Accounted
<1>2. /\ ttWork[h] \in Listing /\ ttWork[h].videos \subseteq 1..posted /\ ttWork[h].claim \in 0..Len(profileClaims)
      /\ ttWork[h].claim # 0 /\ ttWork[h].newest \in 0..posted
      /\ 1..ttWork[h].newest \subseteq Accounted \cup ttWork[h].videos
  BY <1>1 DEF ListingTypes, T!TypeOK, ListingsOk, ListingOk
<1>3. /\ next \in Listing /\ next.pc = "store" /\ next.videos = ttWork[h].videos \ {v}
      /\ next.claim = ttWork[h].claim /\ next.newest = ttWork[h].newest
  BY <1>1, <1>2 DEF Listing
<1> HIDE DEF next
<1>4. ttWork'[h] = next BY <1>1 DEF ListingTypes
<1>5. ListingOk(h)' BY <1>1, <1>2, <1>3, <1>4 DEF ListingOk
<1>6. Accounted' \subseteq 1..posted BY <1>1, <1>2 DEF T!TypeOK, Accounted
<1>7. next.videos \subseteq 1..posted BY <1>2, <1>3
<1> QED BY <1>1, <1>2, <1>3, <1>5, <1>6, <1>7, HelperMoves

\* A helper that rests and a claim that is written, if any.
LEMMA AnsweredStep ==
  ASSUME T!Assumptions, ListingInv, NEW h \in Workers, ttWork' = [ttWork EXCEPT ![h] = T!NoWork],
         UNCHANGED <<ttClock, followed, posted, ttStored, ttGiven>>,
         NEW i, NEW c, profileClaims' = IF i \in 1..Len(profileClaims) THEN [profileClaims EXCEPT ![i] = c] ELSE profileClaims,
         i \in 1..Len(profileClaims) =>
           /\ c \in ProfileClaim /\ c.since = profileClaims[i].since /\ c.at = profileClaims[i].at /\ c.newest \in 0..posted
           /\ c.status = "completed" => 1..c.newest \subseteq Accounted
  PROVE  ListingInv'
<1> USE DEF ListingInv
<1>1. /\ T!NoWork \in Listing /\ T!NoWork.claim = 0 /\ T!NoWork.videos = {} /\ T!NoWork.pc = "idle"
  BY DEF Listing, T!NoWork
<1>2. ttWork'[h] = T!NoWork /\ \A g \in Workers \ {h} : ttWork'[g] = ttWork[g] BY DEF ListingTypes
<1>3. /\ profileClaims' \in Seq(ProfileClaim) /\ Len(profileClaims') = Len(profileClaims) /\ Len(profileClaims) \in Nat
      /\ \A j \in 1..Len(profileClaims) : profileClaims'[j] = IF j = i THEN c ELSE profileClaims[j]
  BY DEF ListingTypes
<1>4. ListingTypes' BY <1>1, <1>3 DEF ListingTypes
<1>5. Accounted' = Accounted /\ posted \in Nat BY DEF Accounted, T!TypeOK
<1>6. ClaimsOk'
  <2> SUFFICES ASSUME NEW j \in 1..Len(profileClaims) PROVE ClaimOk(j)' BY <1>3 DEF ClaimsOk
  <2>1. CASE j = i BY <2>1, <1>3, <1>5 DEF ClaimOk, ClaimsOk
  <2>2. CASE j # i BY <2>2, <1>3, <1>5, ClaimStays DEF ClaimsOk
  <2> QED BY <2>1, <2>2
<1>7. ListingsOk'
  <2>1. ListingOk(h)' BY <1>1, <1>2 DEF ListingOk
  <2>2. \A g \in Workers \ {h} : ListingOk(g)' BY <1>2, <1>5, ListingKept DEF ListingsOk
  <2> QED BY <2>1, <2>2 DEF ListingsOk
<1>8. T!TypeOK'
  <2>1. \A j \in 1..Len(profileClaims') : /\ profileClaims'[j].status \in {"started", "completed", "failed"}
                                          /\ profileClaims'[j].at \in 0..ttClock /\ profileClaims'[j].newest \in 0..posted
    BY SMTT(20), <1>3 DEF T!TypeOK, ProfileClaim
  <2>2. \A g \in Workers : /\ ttWork'[g].pc \in {"idle", "list", "answer", "store", "fail"}
                           /\ ttWork'[g].claim \in 0..Len(profileClaims') /\ ttWork'[g].videos \subseteq 1..posted
    BY <1>1, <1>2, <1>3 DEF T!TypeOK
  <2> QED BY <2>1, <2>2 DEF T!TypeOK
<1> QED BY <1>4, <1>6, <1>7, <1>8

LEMMA FinishListingStep ==
  ASSUME T!Assumptions, ListingInv, NEW h \in Workers, T!FinishListing(h)
  PROVE  ListingInv'
<1> USE DEF ListingInv
<1> DEFINE i == ttWork[h].claim
           c == [profileClaims[i] EXCEPT !.status = "completed", !.newest = ttWork[h].newest]
<1>1. /\ ttWork[h].pc = "store" /\ ttWork[h].videos = {} /\ profileClaims' = [profileClaims EXCEPT ![i] = c]
      /\ ttWork' = [ttWork EXCEPT ![h] = T!NoWork] /\ UNCHANGED <<ttClock, followed, posted, ttStored, ttGiven>>
  BY DEF T!FinishListing
<1>2. /\ i \in 1..Len(profileClaims) /\ ttWork[h].newest \in 0..posted /\ 1..ttWork[h].newest \subseteq Accounted
      /\ posted \in Nat
  BY <1>1 DEF T!TypeOK, ListingsOk, ListingOk
<1>3. profileClaims[i] \in ProfileClaim BY <1>2 DEF ListingTypes
<1>4. ttWork[h].newest \in Nat BY <1>2
<1>5. /\ c \in ProfileClaim /\ c.since = profileClaims[i].since /\ c.at = profileClaims[i].at
      /\ c.newest = ttWork[h].newest
  BY <1>4, <1>3 DEF ProfileClaim
<1> HIDE DEF i, c
<1> QED BY <1>1, <1>2, <1>5, AnsweredStep

LEMMA SubmitErrorStep ==
  ASSUME T!Assumptions, ListingInv, NEW h \in Workers, T!SubmitError(h)
  PROVE  ListingInv'
<1> USE DEF ListingInv
<1> DEFINE open == {j \in 1..Len(profileClaims) : T!Open(j)}
           i == T!Max(open)
           failing == [T!NoWork EXCEPT !.pc = "fail", !.claim = i]
<1>1. /\ ttWork' = [ttWork EXCEPT ![h] = IF open = {} THEN T!NoWork ELSE failing]
      /\ UNCHANGED <<ttClock, followed, posted, profileClaims, ttStored, ttGiven>>
  BY DEF T!SubmitError
<1>2. Len(profileClaims) \in Nat BY DEF ListingTypes
<1>3. Accounted' = Accounted /\ Accounted \subseteq 1..posted BY <1>1 DEF Accounted, T!TypeOK
<1>4. CASE open = {}
  <2>1. 0 \notin 1..Len(profileClaims) /\ profileClaims' = profileClaims BY <1>1, <1>2
  <2>2. ttWork' = [ttWork EXCEPT ![h] = T!NoWork] BY <1>1, <1>4
  <2> HIDE DEF open, i, failing
  <2> QED BY <1>1, <2>1, <2>2, AnsweredStep
<1>5. CASE open # {}
  <2>1. i \in 1..Len(profileClaims)
    <3>1. open \subseteq Nat /\ \A j \in open : j <= Len(profileClaims) BY <1>2
    <3> QED BY <3>1, <1>2, <1>5, LargestIs
  <2> HIDE DEF i
  <2>a. i \in Nat BY <1>2, <2>1
  <2>2. /\ failing \in Listing /\ failing.claim = i /\ failing.videos = {} /\ failing.pc = "fail"
    BY <2>a DEF Listing, T!NoWork
  <2>3. ttWork' = [ttWork EXCEPT ![h] = failing] BY <1>1, <1>5
  <2> HIDE DEF failing
  <2>4. ttWork'[h] = failing BY <2>3 DEF ListingTypes
  <2>5. i # 0 /\ i \in 0..Len(profileClaims) BY <2>1, <1>2
  <2>6. ListingOk(h)' BY <2>2, <2>4, <2>5 DEF ListingOk
  <2>7. failing.claim \in 0..Len(profileClaims) /\ failing.videos \subseteq 1..posted BY <2>2, <2>5
  <2> QED BY <1>1, <1>3, <2>2, <2>3, <2>6, <2>7, HelperMoves
<1> QED BY <1>4, <1>5

LEMMA FailListingStep ==
  ASSUME T!Assumptions, ListingInv, NEW h \in Workers, T!FailListing(h)
  PROVE  ListingInv'
<1> USE DEF ListingInv
<1> DEFINE i == ttWork[h].claim
           c == [profileClaims[i] EXCEPT !.status = "failed", !.newest = 0]
<1>1. /\ ttWork[h].pc = "fail" /\ profileClaims' = [profileClaims EXCEPT ![i] = c]
      /\ ttWork' = [ttWork EXCEPT ![h] = T!NoWork] /\ UNCHANGED <<ttClock, followed, posted, ttStored, ttGiven>>
  BY DEF T!FailListing
<1>2. i \in 1..Len(profileClaims) /\ posted \in Nat
  BY <1>1 DEF T!TypeOK, ListingsOk, ListingOk
<1>3. profileClaims[i] \in ProfileClaim BY <1>2 DEF ListingTypes
<1>4. /\ c \in ProfileClaim /\ c.since = profileClaims[i].since /\ c.at = profileClaims[i].at
      /\ c.newest = 0 /\ c.status = "failed"
  BY <1>3 DEF ProfileClaim
<1> HIDE DEF i, c
<1>5. 0 \in 0..posted BY <1>2
<1> QED BY <1>1, <1>2, <1>4, <1>5, AnsweredStep

LEMMA HelperStopsStep ==
  ASSUME T!Assumptions, ListingInv, NEW h \in Workers, T!HelperStops(h)
  PROVE  ListingInv'
<1>1. /\ profileClaims' = profileClaims /\ ttWork' = [ttWork EXCEPT ![h] = T!NoWork]
      /\ UNCHANGED <<ttClock, followed, posted, ttStored, ttGiven>>
  BY DEF T!HelperStops
<1>2. 0 \notin 1..Len(profileClaims) BY DEF ListingInv, ListingTypes
<1> QED BY <1>1, <1>2, AnsweredStep

LEMMA ProfileStep ==
  ASSUME T!Assumptions, ListingInv, (\E f \in BOOLEAN : T!Follow(f)) \/ T!PostVideo \/ T!Tick \/ UNCHANGED T!vars
  PROVE  ListingInv'
<1> USE DEF ListingInv
<1>1. /\ UNCHANGED <<profileClaims, ttWork, ttStored, ttGiven>> /\ posted' \in {posted, posted + 1} /\ posted' <= MaxVideo
      /\ ttClock' \in {ttClock, ttClock + 1} /\ ttClock' <= ListTicks /\ followed' \in BOOLEAN
  BY ListingSizes DEF T!Follow, T!PostVideo, T!Tick, T!vars, T!TypeOK
<1>2. /\ posted \in Nat /\ posted >= 1 /\ ttClock \in Nat /\ Accounted' = Accounted
      /\ posted' \in 1..MaxVideo /\ ttClock' \in 0..ListTicks /\ posted <= posted' /\ ttClock <= ttClock'
      /\ posted' \in Nat /\ ttClock' \in Nat
  BY <1>1, ListingSizes DEF T!TypeOK, Accounted
<1>3. ListingTypes' BY <1>1 DEF ListingTypes
<1>4. ClaimsOk' BY <1>1, <1>2, ClaimStays DEF ClaimsOk
<1>5. ListingsOk' BY <1>1, <1>2, ListingKept DEF ListingsOk
<1>6. T!TypeOK'
  <2>1. \A i \in 1..Len(profileClaims) : /\ profileClaims[i].status \in {"started", "completed", "failed"}
                                         /\ profileClaims[i].at \in 0..ttClock' /\ profileClaims[i].newest \in 0..posted'
    BY <1>2 DEF T!TypeOK
  <2>2. \A g \in Workers : /\ ttWork[g].pc \in {"idle", "list", "answer", "store", "fail"}
                           /\ ttWork[g].claim \in 0..Len(profileClaims) /\ ttWork[g].videos \subseteq 1..posted'
    BY <1>2 DEF T!TypeOK
  <2>3. ttStored \cup ttGiven \subseteq 1..posted' BY <1>2 DEF T!TypeOK
  <2> QED BY <1>1, <1>2, <2>1, <2>2, <2>3 DEF T!TypeOK
<1> QED BY <1>3, <1>4, <1>5, <1>6

LEMMA ListingInvStep == ASSUME T!Assumptions, ListingInv, [T!Next]_T!vars PROVE ListingInv'
BY ClaimProfileStep, ListProfileStep, SubmitStep, VideoStep, FinishListingStep, SubmitErrorStep,
   FailListingStep, HelperStopsStep, ProfileStep, Zenon DEF T!Next

\* What a listing starts above is accounted for.
LEMMA VideosAreAccountedFor == ASSUME ListingInv PROVE T!VideosAccountedFor
BY SinceStands DEF ListingInv, T!VideosAccountedFor, Accounted

-----------------------------------------------------------------------------
(* One module moves: its behaviours are those of its own specification.       *)

LEMMA LocalPart == Spec => L!Spec \/ [](part # "local")
<1>1. Init => (part = "local" /\ L!Init) \/ part # "local"
  BY DEF Init
<1>2. part = "local" /\ [Next]_sourceVars => (part = "local")' /\ [L!Next]_L!vars
  BY Zenon
    DEF Next, sourceVars, localVars, L!Next, L!vars, Only, OnlySync, OnlyFeed, OnlyYoutube, OnlyLocal, OnlyPrices, OnlyChecks, OnlyTiktok
<1>3. part # "local" /\ [Next]_sourceVars => (part # "local")'
  BY Zenon
    DEF Next, sourceVars, Only, OnlySync, OnlyFeed, OnlyYoutube, OnlyLocal, OnlyPrices, OnlyChecks, OnlyTiktok
<1> QED
  BY <1>1, <1>2, <1>3, PTL DEF Spec, L!Spec

LEMMA ChecksPart == Spec => C!Spec \/ [](part # "checks")
<1>1. Init => (part = "checks" /\ C!Init) \/ part # "checks"
  BY DEF Init
<1>2. part = "checks" /\ [Next]_sourceVars => (part = "checks")' /\ [C!Next]_C!vars
  BY Zenon
    DEF Next, sourceVars, checkVars, C!Next, C!vars, Only, OnlySync, OnlyFeed, OnlyYoutube, OnlyLocal, OnlyPrices, OnlyChecks, OnlyTiktok
<1>3. part # "checks" /\ [Next]_sourceVars => (part # "checks")'
  BY Zenon
    DEF Next, sourceVars, Only, OnlySync, OnlyFeed, OnlyYoutube, OnlyLocal, OnlyPrices, OnlyChecks, OnlyTiktok
<1> QED
  BY <1>1, <1>2, <1>3, PTL DEF Spec, C!Spec

LEMMA SyncPart == Spec => S!Spec \/ [](part # "sync")
<1>1. Init => (part = "sync" /\ S!Init) \/ part # "sync"
  BY DEF Init
<1>2. part = "sync" /\ [Next]_sourceVars => (part = "sync")' /\ [S!Next]_S!vars
  BY Zenon
    DEF Next, sourceVars, syncVars, S!Next, S!vars, Only, OnlySync, OnlyFeed, OnlyYoutube, OnlyLocal, OnlyPrices, OnlyChecks, OnlyTiktok
<1>3. part # "sync" /\ [Next]_sourceVars => (part # "sync")'
  BY Zenon
    DEF Next, sourceVars, Only, OnlySync, OnlyFeed, OnlyYoutube, OnlyLocal, OnlyPrices, OnlyChecks, OnlyTiktok
<1> QED
  BY <1>1, <1>2, <1>3, PTL DEF Spec, S!Spec

LEMMA TiktokPart == Spec => T!Spec \/ [](part # "tiktok")
<1>1. Init => (part = "tiktok" /\ T!Init) \/ part # "tiktok"
  BY DEF Init
<1>2. part = "tiktok" /\ [Next]_sourceVars => (part = "tiktok")' /\ [T!Next]_T!vars
  BY Zenon
    DEF Next, sourceVars, tiktokVars, T!Next, T!vars, Only, OnlySync, OnlyFeed, OnlyYoutube, OnlyLocal, OnlyPrices, OnlyChecks, OnlyTiktok
<1>3. part # "tiktok" /\ [Next]_sourceVars => (part # "tiktok")'
  BY Zenon
    DEF Next, sourceVars, Only, OnlySync, OnlyFeed, OnlyYoutube, OnlyLocal, OnlyPrices, OnlyChecks, OnlyTiktok
<1> QED
  BY <1>1, <1>2, <1>3, PTL DEF Spec, T!Spec

LEMMA HelpersKeepClaims == L!Spec => []HelperInv
<1>1. L!Init => HelperInv
  BY SourceAssumptions, HelperStart
<1>2. HelperInv /\ [L!Next]_L!vars => HelperInv'
  BY SourceAssumptions, HelperInvStep
<1> QED
  BY <1>1, <1>2, PTL DEF L!Spec

LEMMA ChecksKeepBudget == C!Spec => []CheckInv
<1>1. C!Init => CheckInv
  BY SourceAssumptions, CheckStart
<1>2. CheckInv /\ [C!Next]_C!vars => CheckInv'
  BY SourceAssumptions, CheckInvStep
<1> QED
  BY <1>1, <1>2, PTL DEF C!Spec

LEMMA SyncsKeepDecisions == S!Spec => []SyncInv
<1>1. S!Init => SyncInv
  BY SourceAssumptions, SyncStart
<1>2. SyncInv /\ [S!Next]_S!vars => SyncInv'
  BY SourceAssumptions, SyncInvStep
<1> QED
  BY <1>1, <1>2, PTL DEF S!Spec

LEMMA ListingsKeepAccount == T!Spec => []ListingInv
<1>1. T!Init => ListingInv
  BY SourceAssumptions, ListingStart
<1>2. ListingInv /\ [T!Next]_T!vars => ListingInv'
  BY SourceAssumptions, ListingInvStep
<1> QED
  BY <1>1, <1>2, PTL DEF T!Spec

-----------------------------------------------------------------------------
(* The properties of the run. *)

\* What the three leases allow, whatever number of processes competes: a provider
\* is synced by one process more than were outlived (withProviderLease), an episode
\* is transcribed by one helper more than answered late
\* (claimLocalTranscriptJobs), and no two workers check a transcript
\* (claimTranscriptCheck).
THEOREM ClaimsOverlapBoundedly == Spec => []ClaimsOverlap
<1>1. S!Assumptions /\ L!Assumptions
  BY SourceAssumptions
<1>2. SyncInv => S!SyncsOverlap
  BY <1>1, SyncsOverlapHolds
<1>3. HelperInv => L!HelpersOverlap
  BY <1>1, HelpersOverlapHolds
<1>4. CheckInv => C!WorkersApart
  BY DEF CheckInv
<1>5. /\ S!SyncsOverlap \/ part # "sync"
      /\ L!HelpersOverlap \/ part # "local"
      /\ C!WorkersApart \/ part # "checks"
      => ClaimsOverlap
  BY DEF ClaimsOverlap
<1> QED
  BY <1>2, <1>3, <1>4, <1>5, SyncPart, LocalPart, ChecksPart, SyncsKeepDecisions, HelpersKeepClaims,
     ChecksKeepBudget, PTL

\* A job that says completed has its transcript: the local helper's, through any
\* number of crashes and late answers, and the transcript check's.  It is stored
\* again only after claimLocalTranscriptJobs' upsert wrote over an answer that came
\* after its SELECT, once per such claim.
THEOREM CompletedHasTranscript == Spec => []TranscriptStands
<1>1. HelperInv => L!TranscriptStands
  BY DEF HelperInv
<1>2. CheckInv => C!CompletedIsStored
  BY DEF CheckInv
<1>3. /\ L!TranscriptStands \/ part # "local"
      /\ C!CompletedIsStored \/ part # "checks"
      => TranscriptStands
  BY DEF TranscriptStands
<1> QED
  BY <1>1, <1>2, <1>3, LocalPart, ChecksPart, HelpersKeepClaims, ChecksKeepBudget, PTL

\* What an operator decided of a creator stands, however the transactions of any
\* number of syncs interleave with the decision, but for a transaction that read the
\* row before it (ensureRequestedCreatorMonitored, promoteFollowedCreators,
\* persistDiscoveryFromRecords), and for a creator made a candidate that is followed
\* or on the seed list, which those monitor again.
THEOREM OperatorDecisionStands == Spec => []DecisionStands
<1>1. SyncInv => S!DecisionStands
  BY DecisionStandsHolds
<1>2. S!DecisionStands \/ part # "sync" => DecisionStands
  BY DEF DecisionStands
<1> QED
  BY <1>1, <1>2, SyncPart, SyncsKeepDecisions, PTL

\* runCreatorMonitoring: no interleaving of syncs, with or without the lease, visits
\* a creator before its interval has passed.
THEOREM VisitsWait == Spec => MonitoredHourly
<1>1. S!Assumptions
  BY SourceAssumptions
<1>2. SyncInv /\ [S!Next]_S!vars => [part = "sync" => S!VisitWaited]_syncVars
  BY <1>1, VisitWaitedStep DEF S!vars, syncVars
<1>3. part # "sync" => [part = "sync" => S!VisitWaited]_syncVars
  OBVIOUS
<1> QED
  BY <1>2, <1>3, SyncPart, SyncsKeepDecisions, PTL DEF MonitoredHourly, S!Spec

=============================================================================
