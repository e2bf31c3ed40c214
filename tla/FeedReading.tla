------------------------------- MODULE FeedReading -------------------------------
(***************************************************************************)
(* Websites and podcasts as sources.  Three batches read them: the website   *)
(* feed check, the website's sitemap backfill and the podcast feed check.    *)
(* Every read of a site is a provider_sync_run row that reserves its worst   *)
(* case of requests (limit_count) before the first one and is corrected when *)
(* it is done; its checkpoint carries the feed's validators or the backfill's *)
(* queue to the next run.  Batches overlap: the lease of the two checks      *)
(* expires, and the backfill has none.  Here a worker reads one site at a    *)
(* time, on what its batch selected any time before.                         *)
(***************************************************************************)
EXTENDS Integers, FiniteSets, Sequences, FiniteSetsExt

CONSTANTS Worker,
          Site, Podcast,     \* registered accounts
          Reserve,           \* requests of one run (client.maxRequests)
          Budget,            \* requests per day, for sites and for podcasts
          PerSite,           \* backfill requests per site and day
          CheckInterval, BackfillInterval, Day,   \* in ticks
          MaxPost, MaxRuns, LastTick,             \* bounds
          Null               \* SQL null

Assumptions ==
  /\ {Reserve, Budget, PerSite, CheckInterval, BackfillInterval, Day,
      MaxPost, MaxRuns, LastTick} \subseteq Nat \ {0}
  /\ Site \cap Podcast = {}

VARIABLES
  clock,
  listed,      \* account -> posts 1..listed are on the site and in its feed
  stored,      \* account -> posts whose source_ingest is processed
  runs,        \* the provider_sync_run rows, by started_at
  worker,      \* worker -> the run it executes: see Resting
  given        \* ghost: account -> posts given up: a failed ingest, or a page
               \* the backfill may not or need not read

vars == <<clock, listed, stored, runs, worker, given>>

\* Sites and podcasts share no row, so a behaviour has one kind of account.
Account == DOMAIN listed
Trigger == {"web_feed", "web_backfill", "podcast_feed"}
Resting == [pc |-> "rest", account |-> Null, trigger |-> Null, prev |-> 0, state |-> Null,
            run |-> 0, todo |-> {}, robots |-> "unknown"]
FirstState == [phase |-> "discover", urls |-> {}, seen |-> {}]

Init ==
  /\ clock = 0 /\ runs = <<>>
  /\ worker = [w \in Worker |-> Resting]
  /\ \E accounts \in {Site, Podcast} :
       /\ listed = [a \in accounts |-> 1]
       /\ stored = [a \in accounts |-> {}]
       /\ given = [a \in accounts |-> {}]

RunIds(triggers, a) == {i \in 1..Len(runs) : runs[i].trigger \in triggers /\ runs[i].account = a}
Latest(t, a) == IF RunIds({t}, a) = {} THEN 0 ELSE Max(RunIds({t}, a))
Within(i, interval) == runs[i].at > clock - interval

\* The runs of a day, what such rows reserve, and what they sent, a member per
\* request.
Today == clock \div Day
RunsOn(triggers, d) ==
  {i \in 1..Len(runs) : runs[i].trigger \in triggers /\ runs[i].at \div Day = d}
BackfillsOn(a, d) == {i \in RunsOn({"web_backfill"}, d) : runs[i].account = a}
Limits(ids) == Cardinality({q \in ids \X (1..Reserve) : q[2] <= runs[q[1]].limit})
Requests(ids) == Cardinality({q \in ids \X (1..Reserve) : q[2] <= runs[q[1]].sent})

\* Mutant: a check sums the checks only.
FeedPoolOfChecks == {"web_feed"}

\* claimSiteCheck: feed checks and backfill runs share the day's budget.
FeedPool == {"web_feed", "web_backfill"}

Start(w, rows, pc) ==
  /\ Len(runs) < MaxRuns
  /\ runs' = Append(rows, [trigger |-> worker[w].trigger, account |-> worker[w].account,
                           at |-> clock, limit |-> Reserve, etag |-> 0,
                           state |-> worker[w].state, sent |-> 0])
  /\ worker' = [worker EXCEPT ![w].pc = pc, ![w].run = Len(runs) + 1]

Sent(w) == runs[worker[w].run].sent
Capped(w) == Sent(w) >= Reserve

\* WebFeedClient.send, n times.
Send(w, n) == runs' = [runs EXCEPT ![worker[w].run].sent = @ + n]

Rest(w) == worker' = [worker EXCEPT ![w] = Resting]

\* The end of a run, n requests later: what it used, and what it leaves.  The
\* last step of a run and this update are one action: nothing else can tell.
Finish(w, n, etag, state) ==
  LET r == worker[w].run used == runs[r].sent + n IN
  /\ runs' = [runs EXCEPT ![r] = [@ EXCEPT !.sent = used, !.limit = used, !.etag = etag,
                                          !.state = state]]
  /\ Rest(w)

-----------------------------------------------------------------------------
(* The two feed checks *)

TriggerOf(a) == IF a \in Site THEN "web_feed" ELSE "podcast_feed"

\* Due accounts are selected with the checkpoint of their latest run.
SelectCheck(w, a) ==
  LET last == Latest(TriggerOf(a), a) IN
  /\ worker[w].pc = "rest" /\ a \in Account
  /\ last # 0 => ~Within(last, CheckInterval)
  /\ worker' = [worker EXCEPT ![w] =
       [Resting EXCEPT !.pc = "selected", !.account = a, !.trigger = TriggerOf(a),
                       !.prev = IF last = 0 THEN 0 ELSE runs[last].etag]]
  /\ UNCHANGED <<clock, listed, stored, runs, given>>

Affordable(pool) == Limits(RunsOn(pool, Today)) + Reserve <= Budget
CheckedRecently(w) ==
  \E i \in RunIds({worker[w].trigger}, worker[w].account) : Within(i, CheckInterval)

\* claimSiteCheck and claimFeedCheck, each under its advisory lock.
ClaimSiteCheck(w) ==
  /\ worker[w].pc = "selected" /\ worker[w].trigger = "web_feed"
  /\ IF Affordable(FeedPool) /\ ~CheckedRecently(w)
     THEN Start(w, runs, "read")
     ELSE Rest(w) /\ UNCHANGED runs
  /\ UNCHANGED <<clock, listed, stored, given>>

ClaimFeedCheck(w) ==
  /\ worker[w].pc = "selected" /\ worker[w].trigger = "podcast_feed"
  /\ IF Affordable({"podcast_feed"}) /\ ~CheckedRecently(w)
     THEN Start(w, runs, "read")
     ELSE Rest(w) /\ UNCHANGED runs
  /\ UNCHANGED <<clock, listed, stored, given>>

\* readWebFeed: not modified when the validators are those of what is listed,
\* otherwise everything listed.
ReadFeed(w, n) ==
  LET a == worker[w].account IN
  /\ worker[w].pc = "read" /\ n <= Reserve /\ worker[w].prev # listed[a]
  /\ Send(w, n)
  /\ worker' = [worker EXCEPT ![w].pc = "posts", ![w].todo = 1..listed[a], ![w].prev = listed[a]]
  /\ UNCHANGED <<clock, listed, stored, given>>

\* Nothing is read: not modified, forbidden, failed or out of requests.  The
\* validators stay what they were.
NotRead(w, n) ==
  /\ worker[w].pc = "read" /\ n <= Reserve
  /\ Finish(w, n, worker[w].prev, Null)
  /\ UNCHANGED <<clock, listed, stored, given>>

Newest(w, p) == worker[w].pc = "posts" /\ worker[w].todo # {} /\ p = Max(worker[w].todo)

\* ingestWebFeedPost: one transaction; a post processed before is a duplicate.
IngestPost(w, p) ==
  LET a == worker[w].account IN
  /\ Newest(w, p) /\ a \in Site
  /\ stored' = [stored EXCEPT ![a] = @ \cup {p}]
  /\ worker' = [worker EXCEPT ![w].todo = @ \ {p}]
  /\ UNCHANGED <<clock, listed, runs, given>>

\* ingestPodcastEpisode: an episode without audio, or too old, is left out.
IngestEpisode(w, p) ==
  LET a == worker[w].account IN
  /\ Newest(w, p) /\ a \in Podcast
  /\ \/ stored' = [stored EXCEPT ![a] = @ \cup {p}] /\ UNCHANGED given
     \/ given' = [given EXCEPT ![a] = @ \cup {p}] /\ UNCHANGED stored
  /\ worker' = [worker EXCEPT ![w].todo = @ \ {p}]
  /\ UNCHANGED <<clock, listed, runs>>

\* A post whose transaction fails is counted and passed over.
IngestFails(w, p) ==
  /\ Newest(w, p) /\ p \notin stored[worker[w].account]
  /\ given' = [given EXCEPT ![worker[w].account] = @ \cup {p}]
  /\ worker' = [worker EXCEPT ![w].todo = @ \ {p}]
  /\ UNCHANGED <<clock, listed, stored, runs>>

\* The row gets the validators of what was read, whatever became of the posts.
SaveCheck(w) ==
  /\ worker[w].pc = "posts" /\ worker[w].todo = {}
  /\ Finish(w, 0, worker[w].prev, Null)
  /\ UNCHANGED <<clock, listed, stored, given>>

-----------------------------------------------------------------------------
(* The sitemap backfill *)

SelectBackfill(w, a) ==
  LET last == Latest("web_backfill", a) IN
  /\ worker[w].pc = "rest" /\ a \in Account \cap Site
  /\ last # 0 => runs[last].state.phase # "done" /\ ~Within(last, BackfillInterval)
  /\ worker' = [worker EXCEPT ![w] =
       [Resting EXCEPT !.pc = "selected", !.account = a, !.trigger = "web_backfill", !.prev = last,
                       !.state = IF last = 0 THEN FirstState ELSE runs[last].state]]
  /\ UNCHANGED <<clock, listed, stored, runs, given>>

\* claimSiteBackfill: "recent" looks at today's runs only.  The queue moves
\* from the row that was selected.
ClaimBackfill(w) ==
  LET a == worker[w].account
      today == BackfillsOn(a, Today)
      moved == IF worker[w].prev = 0 THEN runs
               ELSE [runs EXCEPT ![worker[w].prev].state = [@ EXCEPT !.urls = {}, !.seen = {}]]
  IN
  /\ worker[w].pc = "selected" /\ worker[w].trigger = "web_backfill"
  /\ IF /\ \A i \in today : ~Within(i, BackfillInterval)
        /\ Affordable({"web_feed", "web_backfill"})
        /\ Limits(today) + Reserve <= PerSite
     THEN Start(w, moved, "advance")
     ELSE Rest(w) /\ UNCHANGED runs
  /\ UNCHANGED <<clock, listed, stored, given>>

Advance(w, phase) == worker[w].pc = "advance" /\ worker[w].state.phase = phase

\* The request cap, or a sitemap's 429: the run stops with its queue as it is.
StopRun(w) ==
  /\ worker[w].pc = "advance"
  /\ \/ Capped(w) /\ Finish(w, 0, 0, worker[w].state)
     \/ /\ ~Capped(w) /\ worker[w].state.phase = "sitemaps" /\ worker[w].robots = "allows"
        /\ Finish(w, 1, 0, worker[w].state)
  /\ UNCHANGED <<clock, listed, stored, given>>

\* robots.txt, once a run: unreachable forbids every URL of the origin.
ReadRobots(w, answer) ==
  /\ worker[w].pc = "advance" /\ ~Capped(w) /\ worker[w].robots = "unknown"
  /\ answer \in {"allows", "unreachable"}
  /\ Send(w, 1)
  /\ worker' = [worker EXCEPT ![w].robots = answer,
                ![w].state.phase = IF @ = "discover" THEN "sitemaps" ELSE @]
  /\ UNCHANGED <<clock, listed, stored, given>>

\* The sitemaps: what they list is queued, but for what was queued before; one
\* that cannot be read, or may not, is skipped.
ReadSitemaps(w) ==
  /\ Advance(w, "sitemaps") /\ worker[w].robots = "allows" /\ ~Capped(w)
  /\ Send(w, 1)
  /\ LET new == 1..listed[worker[w].account] IN
     worker' = [worker EXCEPT ![w].state = [phase |-> "posts", urls |-> @.urls \cup new,
                                            seen |-> @.seen \cup new]]
  /\ UNCHANGED <<clock, listed, stored, given>>

SkipSitemaps(w, n) ==
  /\ Advance(w, "sitemaps") /\ worker[w].robots # "unknown"
  /\ IF worker[w].robots = "allows" THEN n = 1 /\ ~Capped(w) ELSE n = 0
  /\ Send(w, n)
  /\ worker' = [worker EXCEPT ![w].state.phase = "posts"]
  /\ UNCHANGED <<clock, listed, stored, given>>

\* Mutant: a rate-limited page leaves the queue like any other one.
AfterRateLimitShifted(urls, p) == urls \ {p}

\* state.urls.shift() comes after the 429 check.
AfterRateLimit(urls, p) == urls

Without(w, p) == [worker[w].state EXCEPT !.urls = @ \ {p}]

FetchPost(w, p) ==
  /\ Advance(w, "posts") /\ p \in worker[w].state.urls
  /\ worker[w].robots = "allows" /\ ~Capped(w)
  /\ Send(w, 1)
  /\ stored' = [stored EXCEPT ![worker[w].account] = @ \cup {p}]
  /\ worker' = [worker EXCEPT ![w].state = Without(w, p)]
  /\ UNCHANGED <<clock, listed, given>>

RateLimited(w, p) ==
  /\ Advance(w, "posts") /\ p \in worker[w].state.urls
  /\ worker[w].robots = "allows" /\ ~Capped(w)
  /\ Finish(w, 1, 0, [worker[w].state EXCEPT !.urls = AfterRateLimit(@, p)])
  /\ UNCHANGED <<clock, listed, stored, given>>

\* A page with no date or an old one, with an error, or that robots.txt
\* forbids, leaves the queue for good.
GiveUpPost(w, p) ==
  /\ Advance(w, "posts") /\ p \in worker[w].state.urls \ stored[worker[w].account]
  /\ worker[w].robots # "unknown"
  /\ IF worker[w].robots = "allows" THEN ~Capped(w) /\ Send(w, 1) ELSE UNCHANGED runs
  /\ given' = [given EXCEPT ![worker[w].account] = @ \cup {p}]
  /\ worker' = [worker EXCEPT ![w].state = Without(w, p)]
  /\ UNCHANGED <<clock, listed, stored>>

\* So does one whose ingest throws, which also ends the run.
BackfillFails(w, p) ==
  /\ Advance(w, "posts") /\ p \in worker[w].state.urls \ stored[worker[w].account]
  /\ worker[w].robots = "allows" /\ ~Capped(w)
  /\ given' = [given EXCEPT ![worker[w].account] = @ \cup {p}]
  /\ Finish(w, 1, 0, Without(w, p))
  /\ UNCHANGED <<clock, listed, stored>>

\* Queued posts that a feed check or another run has ingested meanwhile.
KnownPosts(w) ==
  LET known == worker[w].state.urls \cap stored[worker[w].account] IN
  /\ Advance(w, "posts") /\ known # {}
  /\ worker' = [worker EXCEPT ![w].state.urls = @ \ known]
  /\ UNCHANGED <<clock, listed, stored, runs, given>>

QueueEmpty(w) ==
  /\ Advance(w, "posts") /\ worker[w].state.urls = {}
  /\ Finish(w, 0, 0, [worker[w].state EXCEPT !.phase = "done"])
  /\ UNCHANGED <<clock, listed, stored, given>>

-----------------------------------------------------------------------------
(* The world *)

Publish(a) ==
  /\ a \in Account /\ listed[a] < MaxPost
  /\ listed' = [listed EXCEPT ![a] = @ + 1]
  /\ UNCHANGED <<clock, stored, runs, worker, given>>

WorkerDies(w) ==
  /\ worker[w].pc # "rest"
  /\ Rest(w)
  /\ UNCHANGED <<clock, listed, stored, runs, given>>

Tick ==
  /\ clock < LastTick /\ clock' = clock + 1
  /\ UNCHANGED <<listed, stored, runs, worker, given>>

Next ==
  \/ \E w \in Worker :
       \/ ClaimSiteCheck(w) \/ ClaimFeedCheck(w) \/ SaveCheck(w) \/ ClaimBackfill(w)
       \/ StopRun(w) \/ ReadSitemaps(w) \/ KnownPosts(w) \/ QueueEmpty(w) \/ WorkerDies(w)
       \/ \E a \in Site \cup Podcast : SelectCheck(w, a) \/ SelectBackfill(w, a)
       \/ \E n \in 1..Reserve : ReadFeed(w, n) \/ NotRead(w, n)
       \/ \E n \in 0..1 : SkipSitemaps(w, n)
       \/ \E answer \in {"allows", "unreachable"} : ReadRobots(w, answer)
       \/ \E p \in 1..MaxPost :
            \/ IngestPost(w, p) \/ IngestEpisode(w, p) \/ IngestFails(w, p)
            \/ FetchPost(w, p) \/ RateLimited(w, p) \/ GiveUpPost(w, p) \/ BackfillFails(w, p)
  \/ \E a \in Site \cup Podcast : Publish(a)
  \/ Tick

Spec == Init /\ [][Next]_vars

-----------------------------------------------------------------------------
(* Properties *)

\* Every variable holds a value of its kind, and no run sends more requests
\* than it reserved.
TypeOK ==
  /\ clock \in 0..LastTick
  /\ \A a \in Account : listed[a] \in 1..MaxPost /\ stored[a] \cup given[a] \subseteq 1..listed[a]
  /\ \A i \in 1..Len(runs) : /\ runs[i].trigger \in Trigger /\ runs[i].account \in Account
                             /\ runs[i].sent <= Reserve /\ runs[i].limit <= Reserve
                             /\ runs[i].etag \in 0..MaxPost
  /\ \A w \in Worker : /\ worker[w].pc \in {"rest", "selected", "read", "posts", "advance"}
                       /\ worker[w].run \in 0..Len(runs)

\* The requests of the runs started on one day stay within the budget of their
\* pool, and a site's backfill within its own, however runs overlap and die.
WithinDailyBudget ==
  \A d \in 0..(LastTick \div Day) :
    /\ Requests(RunsOn({"web_feed", "web_backfill"}, d)) <= Budget
    /\ Requests(RunsOn({"podcast_feed"}, d)) <= Budget
    /\ \A a \in Site : Requests(BackfillsOn(a, d)) <= PerSite

\* No post is skipped in silence: what lies behind the validators a later
\* check sends, and what was queued and is not in the saved queue any more,
\* was stored, or given up on its own account.
PostsAccountedFor ==
  /\ \A i \in 1..Len(runs) :
       runs[i].trigger # "web_backfill" =>
         1..runs[i].etag \subseteq stored[runs[i].account] \cup given[runs[i].account]
  /\ \A i \in 1..Len(runs) :
       runs[i].trigger = "web_backfill" =>
         runs[i].state.seen \subseteq
           runs[i].state.urls \cup stored[runs[i].account] \cup given[runs[i].account]

=============================================================================
