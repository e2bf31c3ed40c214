-------------------------------- MODULE MCSources --------------------------------
(***************************************************************************)
(* The modules that collect data from providers side by side.  They share no *)
(* variable, so one run checks them as a disjoint union: `part` says which of *)
(* them moves, and the variables of the others hold nothing.                 *)
(***************************************************************************)
EXTENDS Naturals, FiniteSets, TLC

CONSTANTS None,
          Helpers, Workers,   \* the helpers and syncs that run at once; workers and batches
          Creators, Episodes, Videos,
          SyncBudget, SyncLease, VisitInterval, SyncDay, SyncHorizon, MaxActs,
          HelperLease, HelperAttempts, MaxReleases, HelperTicks,
          CheckReserve, CheckBudget, CheckAttempts, CheckDay, CheckTicks,
          Sites, Podcasts, FeedReserve, FeedBudget, SiteBudget, FeedInterval, SitemapInterval,
          FeedDay, MaxPost, FeedRuns, FeedTicks,
          Channels, BackfillBudget, MaxPages, PageWindow, PageVideos, ClaimTime, BackfillDay,
          BackfillRuns, BackfillTicks,
          ListInterval, MaxListed, MaxListings, MaxVideo, ListTicks,
          Printings, ChartPrintings, PriceCalls, DoubtfulDays, StartBefore, StartAfter, CloseBefore, MaxDays,
          BatchSize, MaxPoints, ChartDays, RefreshDays, ChartOverlap, LastDay,
          printing1, printing2

VARIABLES part,
          now, paused, lease, used, row, sync, acts, sent, holder, outlived, visits, decided,
          requested, raced,
          feedClock, listed, stored, runs, worker, given,
          ytClock, allowed, ytRuns, batch, ytStored, extra,
          clock, job, eligible, work, selected, claims, releases, transcripts, late, reopened,
          today, calls, offered, prices, taken, check, run, asked, owed, refused,
          tcClock, tcRow, tcWorker, tcStored, tcSent,
          ttClock, followed, posted, profileClaims, ttWork, ttStored, ttGiven

syncVars == <<now, paused, lease, used, row, sync, acts, sent, holder, outlived, visits,
              decided, requested, raced>>
feedVars == <<feedClock, listed, stored, runs, worker, given>>
youtubeVars == <<ytClock, allowed, ytRuns, batch, ytStored, extra>>
localVars == <<clock, job, eligible, work, selected, claims, releases, transcripts, late,
               reopened>>
priceVars == <<today, calls, offered, prices, taken, check, run, asked, owed, refused>>
checkVars == <<tcClock, tcRow, tcWorker, tcStored, tcSent>>
tiktokVars == <<ttClock, followed, posted, profileClaims, ttWork, ttStored, ttGiven>>

S == INSTANCE ProviderSync WITH
       Sync <- Workers, Creator <- Creators, Budget <- SyncBudget, Lease <- SyncLease,
       Interval <- VisitInterval, Day <- SyncDay, Horizon <- SyncHorizon
F == INSTANCE FeedReading WITH
       Worker <- Workers, Site <- Sites, Podcast <- Podcasts, Reserve <- FeedReserve,
       Budget <- FeedBudget, PerSite <- SiteBudget, CheckInterval <- FeedInterval,
       BackfillInterval <- SitemapInterval, Day <- FeedDay, MaxRuns <- FeedRuns,
       LastTick <- FeedTicks, Null <- None, clock <- feedClock
Y == INSTANCE YoutubeBackfill WITH
       Batch <- Workers, Channel <- Channels, Budget <- BackfillBudget, Window <- PageWindow,
       Videos <- PageVideos, Day <- BackfillDay, MaxRuns <- BackfillRuns,
       LastTick <- BackfillTicks, Null <- None, clock <- ytClock, runs <- ytRuns,
       stored <- ytStored
L == INSTANCE LocalTranscripts WITH
       Helper <- Helpers, Episode <- Episodes, Lease <- HelperLease,
       MaxAttempts <- HelperAttempts, LastTick <- HelperTicks
P == INSTANCE PriceHistory WITH
       Printing <- Printings, Chart <- ChartPrintings, Calls <- PriceCalls,
       Doubtful <- DoubtfulDays,
       Overlap <- ChartOverlap, stored <- prices
C == INSTANCE TranscriptChecks WITH
       Worker <- Workers, Video <- Videos, Reserve <- CheckReserve, Budget <- CheckBudget,
       MaxAttempts <- CheckAttempts, Day <- CheckDay, LastTick <- CheckTicks, Null <- None,
       clock <- tcClock, row <- tcRow, worker <- tcWorker, stored <- tcStored, sent <- tcSent
T == INSTANCE TikTokListing WITH
       Helper <- Workers, Interval <- ListInterval, MaxRuns <- MaxListings,
       LastTick <- ListTicks, clock <- ttClock, claims <- profileClaims, work <- ttWork,
       stored <- ttStored, given <- ttGiven

ASSUME SourceAssumptions ==
  S!Assumptions /\ F!Assumptions /\ Y!Assumptions /\ L!Assumptions /\ P!Assumptions
  /\ C!Assumptions /\ T!Assumptions

\* A call of each printing, a day apart, which end on the same day.
TwoCalls == {[printing |-> printing1, day |-> 1, horizon |-> 3],
             [printing |-> printing2, day |-> 2, horizon |-> 2]}

\* The market ingest may refuse what both printings cost on the second day.
SecondDay == {<<printing1, 2>>, <<printing2, 2>>}

Interchangeable == Permutations(Workers) \cup Permutations(Channels)

NoSync ==
  /\ now = None /\ paused = None /\ lease = None /\ used = None /\ row = None /\ sync = None
  /\ acts = None /\ sent = None /\ holder = None /\ outlived = None /\ visits = None
  /\ decided = None /\ requested = None /\ raced = None
NoFeed ==
  /\ feedClock = None /\ listed = None /\ stored = None /\ runs = None /\ worker = None
  /\ given = None
NoYoutube ==
  /\ ytClock = None /\ allowed = None /\ ytRuns = None /\ batch = None /\ ytStored = None
  /\ extra = None
NoLocal ==
  /\ clock = None /\ job = None /\ eligible = None /\ work = None /\ claims = None
  /\ releases = None /\ transcripts = None /\ late = None /\ selected = None /\ reopened = None
NoPrices ==
  /\ today = None /\ calls = None /\ offered = None /\ prices = None /\ taken = None
  /\ check = None /\ run = None /\ asked = None /\ owed = None /\ refused = None
NoChecks ==
  /\ tcClock = None /\ tcRow = None /\ tcWorker = None /\ tcStored = None /\ tcSent = None
NoTiktok ==
  /\ ttClock = None /\ followed = None /\ posted = None /\ profileClaims = None
  /\ ttWork = None /\ ttStored = None /\ ttGiven = None

Init ==
  \/ part = "sync" /\ S!Init /\ NoFeed /\ NoYoutube /\ NoLocal /\ NoPrices /\ NoChecks /\ NoTiktok
  \/ part = "feed" /\ F!Init /\ NoSync /\ NoYoutube /\ NoLocal /\ NoPrices /\ NoChecks /\ NoTiktok
  \/ part = "youtube" /\ Y!Init /\ NoSync /\ NoFeed /\ NoLocal /\ NoPrices /\ NoChecks /\ NoTiktok
  \/ part = "local" /\ L!Init /\ NoSync /\ NoFeed /\ NoYoutube /\ NoPrices /\ NoChecks /\ NoTiktok
  \/ part = "prices" /\ P!Init /\ NoSync /\ NoFeed /\ NoYoutube /\ NoLocal /\ NoChecks /\ NoTiktok
  \/ part = "checks" /\ C!Init /\ NoSync /\ NoFeed /\ NoYoutube /\ NoLocal /\ NoPrices /\ NoTiktok
  \/ part = "tiktok" /\ T!Init /\ NoSync /\ NoFeed /\ NoYoutube /\ NoLocal /\ NoPrices /\ NoChecks

Only(p) == part = p /\ UNCHANGED part
OnlySync == Only("sync") /\ UNCHANGED <<feedVars, youtubeVars, localVars, priceVars, checkVars, tiktokVars>>
OnlyFeed == Only("feed") /\ UNCHANGED <<syncVars, youtubeVars, localVars, priceVars, checkVars, tiktokVars>>
OnlyYoutube == Only("youtube") /\ UNCHANGED <<syncVars, feedVars, localVars, priceVars, checkVars, tiktokVars>>
OnlyLocal == Only("local") /\ UNCHANGED <<syncVars, feedVars, youtubeVars, priceVars, checkVars, tiktokVars>>
OnlyPrices == Only("prices") /\ UNCHANGED <<syncVars, feedVars, youtubeVars, localVars, checkVars, tiktokVars>>
OnlyChecks == Only("checks") /\ UNCHANGED <<syncVars, feedVars, youtubeVars, localVars, priceVars, tiktokVars>>
OnlyTiktok == Only("tiktok") /\ UNCHANGED <<syncVars, feedVars, youtubeVars, localVars, priceVars, checkVars>>

Next ==
  \/ \E s \in Workers : OnlySync /\ S!Begin(s)
  \/ \E s \in Workers : OnlySync /\ S!TakeLease(s)
  \/ \E s \in Workers : OnlySync /\ S!Overlap(s)
  \/ \E s \in Workers : OnlySync /\ S!ReleaseLease(s)
  \/ \E s \in Workers : OnlySync /\ S!ListHandles(s)
  \/ \E s \in Workers : OnlySync /\ S!LookupReserve(s)
  \/ \E s \in Workers : OnlySync /\ S!LookupSend(s)
  \/ \E s \in Workers : OnlySync /\ S!LookupIdle(s)
  \/ \E s \in Workers, c \in Creators : OnlySync /\ S!ResolveRead(s, c)
  \/ \E s \in Workers : OnlySync /\ S!ResolveWrite(s)
  \/ \E s \in Workers : OnlySync /\ S!ListDone(s)
  \/ \E s \in Workers, c \in Creators : OnlySync /\ S!PromoteRead(s, c)
  \/ \E s \in Workers : OnlySync /\ S!PromoteWrite(s)
  \/ \E s \in Workers : OnlySync /\ S!NothingToPromote(s)
  \/ \E s \in Workers, c \in Creators : OnlySync /\ S!ClaimVisit(s, c)
  \/ \E s \in Workers, c \in Creators : OnlySync /\ S!ExcludeUntrusted(s, c)
  \/ \E s \in Workers : OnlySync /\ S!NoVisit(s)
  \/ \E s \in Workers : OnlySync /\ S!VisitReserve(s)
  \/ \E s \in Workers : OnlySync /\ S!VisitSend(s)
  \/ \E s \in Workers : OnlySync /\ S!Visited(s)
  \/ \E s \in Workers : OnlySync /\ S!StartDiscovery(s)
  \/ \E s \in Workers : OnlySync /\ S!SearchReserve(s)
  \/ \E s \in Workers : OnlySync /\ S!SearchSend(s)
  \/ \E s \in Workers : OnlySync /\ S!SearchFails(s)
  \/ \E s \in Workers, c \in Creators : OnlySync /\ S!PersistRead(s, c)
  \/ \E s \in Workers : OnlySync /\ S!PersistWrite(s)
  \/ \E c \in Creators, state \in S!State : OnlySync /\ S!Decide(c, state)
  \/ \E c \in Creators : OnlySync /\ S!Distrust(c)
  \/ \E p \in BOOLEAN : OnlySync /\ S!Pause(p)
  \/ \E s \in Workers : OnlySync /\ S!Dies(s)
  \/ OnlySync /\ S!Tick
  \/ \E w \in Workers, a \in Sites \cup Podcasts : OnlyFeed /\ F!SelectCheck(w, a)
  \/ \E w \in Workers : OnlyFeed /\ F!ClaimSiteCheck(w)
  \/ \E w \in Workers : OnlyFeed /\ F!ClaimFeedCheck(w)
  \/ \E w \in Workers, n \in 1..FeedReserve : OnlyFeed /\ F!ReadFeed(w, n)
  \/ \E w \in Workers, n \in 1..FeedReserve : OnlyFeed /\ F!NotRead(w, n)
  \/ \E w \in Workers, p \in 1..MaxPost : OnlyFeed /\ F!IngestPost(w, p)
  \/ \E w \in Workers, p \in 1..MaxPost : OnlyFeed /\ F!IngestEpisode(w, p)
  \/ \E w \in Workers, p \in 1..MaxPost : OnlyFeed /\ F!IngestFails(w, p)
  \/ \E w \in Workers : OnlyFeed /\ F!SaveCheck(w)
  \/ \E w \in Workers, a \in Sites : OnlyFeed /\ F!SelectBackfill(w, a)
  \/ \E w \in Workers : OnlyFeed /\ F!ClaimBackfill(w)
  \/ \E w \in Workers : OnlyFeed /\ F!StopRun(w)
  \/ \E w \in Workers, answer \in {"allows", "unreachable"} : OnlyFeed /\ F!ReadRobots(w, answer)
  \/ \E w \in Workers : OnlyFeed /\ F!ReadSitemaps(w)
  \/ \E w \in Workers, n \in 0..1 : OnlyFeed /\ F!SkipSitemaps(w, n)
  \/ \E w \in Workers, p \in 1..MaxPost : OnlyFeed /\ F!FetchPost(w, p)
  \/ \E w \in Workers, p \in 1..MaxPost : OnlyFeed /\ F!RateLimited(w, p)
  \/ \E w \in Workers, p \in 1..MaxPost : OnlyFeed /\ F!GiveUpPost(w, p)
  \/ \E w \in Workers, p \in 1..MaxPost : OnlyFeed /\ F!BackfillFails(w, p)
  \/ \E w \in Workers : OnlyFeed /\ F!KnownPosts(w)
  \/ \E w \in Workers : OnlyFeed /\ F!QueueEmpty(w)
  \/ \E a \in Sites \cup Podcasts : OnlyFeed /\ F!Publish(a)
  \/ \E w \in Workers : OnlyFeed /\ F!WorkerDies(w)
  \/ OnlyFeed /\ F!Tick
  \/ \E b \in Workers, c \in Channels : OnlyYoutube /\ Y!SelectChannel(b, c)
  \/ \E b \in Workers : OnlyYoutube /\ Y!ClaimChannelRun(b)
  \/ \E b \in Workers : OnlyYoutube /\ Y!FindUploads(b)
  \/ \E b \in Workers : OnlyYoutube /\ Y!ReadPage(b)
  \/ \E b \in Workers : OnlyYoutube /\ Y!ReadDetails(b)
  \/ \E b \in Workers, v \in (1..PageWindow) \X PageVideos : OnlyYoutube /\ Y!StoreVideo(b, v)
  \/ \E b \in Workers : OnlyYoutube /\ Y!SavePage(b)
  \/ \E b \in Workers : OnlyYoutube /\ Y!EndRun(b)
  \/ \E b \in Workers : OnlyYoutube /\ Y!RequestRefused(b)
  \/ \E b \in Workers : OnlyYoutube /\ Y!RequestFails(b)
  \/ \E b \in Workers : OnlyYoutube /\ Y!StoreFails(b)
  \/ \E b \in Workers : OnlyYoutube /\ Y!BatchDies(b)
  \/ \E c \in Channels : OnlyYoutube /\ Y!Forbid(c)
  \/ OnlyYoutube /\ Y!Tick
  \/ \E h \in Helpers, e \in Episodes : OnlyLocal /\ L!SelectEpisode(h, e)
  \/ OnlyLocal /\ L!ClaimEpisode
  \/ OnlyLocal /\ L!ClaimDies
  \/ \E h \in Helpers, e \in Episodes : OnlyLocal /\ L!Transcribed(h, e)
  \/ \E h \in Helpers, e \in Episodes : OnlyLocal /\ L!Unavailable(h, e)
  \/ \E h \in Helpers, e \in Episodes : OnlyLocal /\ L!Failed(h, e)
  \/ \E h \in Helpers, e \in Episodes : OnlyLocal /\ L!Released(h, e)
  \/ \E h \in Helpers, e \in Episodes : OnlyLocal /\ L!NotClaimed(h, e)
  \/ \E h \in Helpers, e \in Episodes : OnlyLocal /\ L!HelperStops(h, e)
  \/ \E e \in Episodes : OnlyLocal /\ L!Exclude(e)
  \/ OnlyLocal /\ L!Tick
  \/ OnlyPrices /\ P!StartRun
  \/ \E p \in Printings : OnlyPrices /\ P!PlanTarget(p)
  \/ OnlyPrices /\ P!Request
  \/ OnlyPrices /\ P!HistoryOk
  \/ OnlyPrices /\ P!HistoryDeferred
  \/ \E status \in {"pending", "failed"} : OnlyPrices /\ P!HistoryNotOk(status)
  \/ OnlyPrices /\ P!EndRun
  \/ OnlyPrices /\ P!RunDies
  \/ \E c \in PriceCalls : OnlyPrices /\ P!CallFound(c)
  \/ \E p \in Printings : OnlyPrices /\ P!SourceFills(p)
  \/ OnlyPrices /\ P!NextDay
  \/ \E w \in Workers : OnlyChecks /\ C!StartBatch(w)
  \/ \E w \in Workers, v \in Videos : OnlyChecks /\ C!ClaimCheck(w, v)
  \/ \E w \in Workers : OnlyChecks /\ C!EndBatch(w)
  \/ \E w \in Workers, n \in 1..CheckReserve, result \in C!Result : OnlyChecks /\ C!Fetch(w, n, result)
  \/ \E w \in Workers : OnlyChecks /\ C!GiveBack(w)
  \/ \E w \in Workers : OnlyChecks /\ C!Store(w)
  \/ \E w \in Workers : OnlyChecks /\ C!FinishCheck(w)
  \/ \E w \in Workers : OnlyChecks /\ C!WorkerDies(w)
  \/ OnlyChecks /\ C!Tick
  \/ \E h \in Workers : OnlyTiktok /\ T!ClaimProfile(h)
  \/ \E h \in Workers : OnlyTiktok /\ T!ListProfile(h)
  \/ \E h \in Workers : OnlyTiktok /\ T!Submit(h)
  \/ \E h \in Workers, v \in 1..MaxVideo : OnlyTiktok /\ T!StoreVideo(h, v)
  \/ \E h \in Workers, v \in 1..MaxVideo : OnlyTiktok /\ T!SkipVideo(h, v)
  \/ \E h \in Workers : OnlyTiktok /\ T!FinishListing(h)
  \/ \E h \in Workers : OnlyTiktok /\ T!SubmitError(h)
  \/ \E h \in Workers : OnlyTiktok /\ T!FailListing(h)
  \/ \E h \in Workers : OnlyTiktok /\ T!HelperStops(h)
  \/ \E f \in BOOLEAN : OnlyTiktok /\ T!Follow(f)
  \/ OnlyTiktok /\ T!PostVideo
  \/ OnlyTiktok /\ T!Tick

sourceVars ==
  <<part, syncVars, feedVars, youtubeVars, localVars, priceVars, checkVars, tiktokVars>>

Spec == Init /\ [][Next]_sourceVars

\* The properties of the seven modules, each explained where it is defined.
\* Every variable of the module that runs holds a value of its kind.
TypesOK ==
  CASE part = "sync" -> S!TypeOK
    [] part = "feed" -> F!TypeOK
    [] part = "youtube" -> Y!TypeOK
    [] part = "local" -> L!TypeOK
    [] part = "prices" -> P!TypeOK
    [] part = "checks" -> C!TypeOK
    [] part = "tiktok" -> T!TypeOK
\* The daily budgets: of a discovery provider, of sites and podcasts, of the
\* YouTube backfill and of the transcripts.
WithinDailyBudget ==
  CASE part = "sync" -> S!WithinDailyBudget
    [] part = "feed" -> F!WithinDailyBudget
    [] part = "youtube" -> Y!WithinDailyBudget
    [] part = "checks" -> C!WithinDailyBudget
    [] OTHER -> TRUE
\* The claims with an expiry: the provider's lease, a helper's claim and a
\* transcript check.
ClaimsOverlap ==
  CASE part = "sync" -> S!SyncsOverlap
    [] part = "local" -> L!HelpersOverlap
    [] part = "checks" -> C!WorkersApart
    [] OTHER -> TRUE
\* ProviderSync: a creator is visited once an hour at most (runCreatorMonitoring).
MonitoredHourly == [][part = "sync" => S!VisitWaited]_syncVars
\* ProviderSync: what an operator decided of a creator stands, but for a transaction
\* that read the row before, and for a candidate that is followed or on the seed list.
DecisionStands == part = "sync" => S!DecisionStands
\* What sites, podcasts and TikTok profiles publish.
PostsAccountedFor ==
  CASE part = "feed" -> F!PostsAccountedFor
    [] part = "tiktok" -> T!VideosAccountedFor
    [] OTHER -> TRUE
\* YoutubeBackfill: a page the channel's state is past has all its videos stored.
VideosStored == part = "youtube" => Y!VideosStored
\* LocalTranscripts and TranscriptChecks: a completed job has its transcript, and
\* only a claim that raced with an answer has it stored again.
TranscriptStands ==
  CASE part = "local" -> L!TranscriptStands
    [] part = "checks" -> C!CompletedIsStored
    [] OTHER -> TRUE
\* PriceHistory: what a check calls fetched was asked for, and is stored or was
\* refused by the market ingest.
FetchedIsStored == part = "prices" => P!FetchedIsStored

=============================================================================
