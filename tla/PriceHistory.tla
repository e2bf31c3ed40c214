------------------------------ MODULE PriceHistory ------------------------------
(***************************************************************************)
(* The worker's price history step: printings whose calls lack a price in    *)
(* the days around the call or its horizon's end, and the printings of the   *)
(* chart universe, are asked from TCG Card Central in requests of a common   *)
(* range; what it answers is offered by day to the market ingest, which may   *)
(* refuse a record, keep it without a price or flag it, and a check row per printing *)
(* says which range was fetched and when to ask again.  A run is one         *)
(* transaction under a try-lock, so there is one run and it can only be lost *)
(* whole.  It reads the calls when it starts and each answer once, so what   *)
(* happens beside it is as if it had happened before or after: here the      *)
(* world moves between two runs.                                             *)
(***************************************************************************)
EXTENDS Integers, FiniteSets, Sequences

CONSTANTS Printing,
          Chart,                     \* printings of the chart universe
          Calls,                     \* creator calls: [printing, day, horizon]
          Doubtful,                  \* <<printing, day>>s the market ingest may not price
          StartBefore, StartAfter, CloseBefore,   \* days of a call's windows
          MaxDays, BatchSize,        \* limits of a request
          MaxPoints,                 \* points written per run
          ChartDays, RefreshDays, Overlap,        \* the chart universe's range
          LastDay,                   \* bound: the last day
          None                       \* SQL null, and no run

Assumptions ==
  /\ {StartBefore, Overlap} \subseteq Nat
  /\ {StartAfter, CloseBefore, MaxDays, BatchSize, MaxPoints, ChartDays, RefreshDays, LastDay} \subseteq Nat \ {0}
  /\ ChartDays <= MaxDays + 1
  /\ IsFiniteSet(Printing) /\ Chart \subseteq Printing
  /\ \A c \in Calls : c.printing \in Printing /\ c.day \in Nat \ {0} /\ c.horizon \in Nat \ {0}

VARIABLES
  today,
  calls,      \* finalized, resolved calls so far
  offered,    \* printing -> days the source has a price for
  stored,     \* printing -> days with a reference price that is not an outlier
  taken,      \* printing -> days with an ingest row, whatever became of it
  check,      \* printing -> its check row, or None
  run,        \* the run in progress, or None
  asked,      \* ghost: printing -> days of the ranges answered "ok"
  owed,       \* ghost: printing -> days those answers held that a window wanted
  refused     \* ghost: printing -> days of which the market ingest made no price

vars == <<today, calls, offered, stored, taken, check, run, asked, owed, refused>>

Max2(a, b) == IF a > b THEN a ELSE b
Min2(a, b) == IF a < b THEN a ELSE b

Init ==
  /\ today = 1 /\ calls = {}
  /\ offered = [p \in Printing |-> {}] /\ stored = [p \in Printing |-> {}]
  /\ taken = [p \in Printing |-> {}] /\ refused = [p \in Printing |-> {}]
  /\ check = [p \in Printing |-> None] /\ run = None
  /\ asked = [p \in Printing |-> {}] /\ owed = [p \in Printing |-> {}]

-----------------------------------------------------------------------------
(* What is asked *)

\* listPriceHistoryTargets: a call lacks its start price when none lies in the
\* days after it, its close when its horizon has passed and none lies before.
\* A day's price is of its last second, so the last day of each is too late.
NeedStart(c) == stored[c.printing] \cap (c.day .. c.day + StartAfter - 1) = {}
End(c) == c.day + c.horizon
NeedClose(c) == End(c) <= today /\ stored[c.printing] \cap (End(c) - CloseBefore .. End(c) - 1) = {}

Clip(from, to) == [from |-> Max2(Max2(1, today - 1 - MaxDays), from), to |-> Min2(to, today - 1)]
CallWindows(p) ==
  {w \in {Clip(c.day - StartBefore, c.day + StartAfter) :
            c \in {x \in calls : x.printing = p /\ NeedStart(x)}}
     \cup {Clip(End(c) - CloseBefore, End(c)) :
            c \in {x \in calls : x.printing = p /\ NeedClose(x)}} : w.from <= w.to}

\* priceHistoryCheckDueAt
DueNow(p) == check[p] = None \/ check[p].due <= today

\* "A range fetched successfully has nothing new until a window outside it
\* appears."
Wanted(p) ==
  /\ CallWindows(p) # {}
  /\ check[p] # None =>
       (check[p].status = "ok" =>
          \E w \in CallWindows(p) : w.from < check[p].from \/ w.to > check[p].to)

Target(p, windows, chart) ==
  [printing |-> p, windows |-> windows, chart |-> chart,
   from |-> CHOOSE d \in {w.from : w \in windows} : \A w \in windows : d <= w.from,
   to |-> CHOOSE d \in {w.to : w \in windows} : \A w \in windows : d >= w.to]

CallTargets == {Target(p, CallWindows(p), FALSE) : p \in {x \in Printing : DueNow(x) /\ Wanted(x)}}

\* listChartHistoryTargets: the first request covers ChartDays days to
\* yesterday, later ones start a little before the last day fetched.
ChartRange(p) ==
  LET first == Max2(1, today - ChartDays)
      last == IF check[p] = None THEN 0 ELSE check[p].chart
  IN [from |-> IF last = 0 THEN first ELSE Max2(first, last - Overlap), to |-> today - 1]
ChartTargets ==
  LET due == {p \in Chart : /\ DueNow(p) /\ today > 1
                            /\ check[p] # None => check[p].chart \in {0} \cup 1 .. today - RefreshDays - 1
                            /\ \A t \in CallTargets : t.printing # p}
  IN {Target(p, {ChartRange(p)}, TRUE) : p \in due}

-----------------------------------------------------------------------------
(* The run *)

StartRun ==
  /\ run = None
  /\ CallTargets \cup ChartTargets # {}
  /\ run' = [todo |-> CallTargets \cup ChartTargets, batches |-> <<>>, open |-> FALSE,
             written |-> 0, deferred |-> FALSE, day |-> today,
             before |-> [stored |-> stored, taken |-> taken, check |-> check,
                         asked |-> asked, owed |-> owed, refused |-> refused]]
  /\ UNCHANGED <<today, calls, offered, stored, taken, check, asked, owed, refused>>

\* planPriceHistoryRequests: a target joins the last request of its kind while
\* that stays within the feed's limits.
Joined(last, t) ==
  [from |-> Min2(last.from, t.from), to |-> Max2(last.to, t.to), targets |-> Append(last.targets, t)]
Joins(last, t) ==
  /\ last.targets[1].chart = t.chart
  /\ Len(last.targets) < BatchSize
  /\ Joined(last, t).to - Joined(last, t).from <= MaxDays
JoinLast(batches, t) ==
  LET n == Len(batches)
  IN IF n > 0 /\ Joins(batches[n], t) THEN [batches EXCEPT ![n] = Joined(@, t)]
     ELSE Append(batches, [from |-> t.from, to |-> t.to, targets |-> <<t>>])

\* The next target to plan: the calls' before the chart's, each by the start of
\* its range.
PlanTarget(p) ==
  /\ run # None
  /\ \E t \in run.todo :
       /\ t.printing = p
       /\ \A u \in run.todo : (u.chart /\ ~t.chart) \/ (u.chart = t.chart /\ t.from <= u.from)
       /\ run' = [run EXCEPT !.todo = @ \ {t}, !.batches = JoinLast(@, t)]
  /\ UNCHANGED <<today, calls, offered, stored, taken, check, asked, owed, refused>>

Batch == run.batches[1]
Next1 == Batch.targets[1]
RangeOf(t) == IF t.chart THEN [from |-> t.from, to |-> t.to] ELSE [from |-> Batch.from, to |-> Batch.to]

\* The next request is answered 200 with a history per target.
Request ==
  /\ run # None /\ run.todo = {} /\ run.batches # <<>> /\ ~run.open
  /\ ~run.deferred /\ run.written < MaxPoints
  /\ run' = [run EXCEPT !.open = TRUE]
  /\ UNCHANGED <<today, calls, offered, stored, taken, check, asked, owed, refused>>

\* The target is done with, and so is the request with its last target.
Advanced(r) ==
  IF Len(Batch.targets) = 1 THEN [r EXCEPT !.batches = Tail(@), !.open = FALSE]
  ELSE [r EXCEPT !.batches[1].targets = Tail(@)]

\* Mutant: the two ranges are always joined.
CoversJoined(prev, range) == TRUE

\* saveCheck joins the new range to the one fetched before only if they meet.
Covers(prev, range) == prev.from < range.from /\ prev.to >= range.from

CoversAfter(prev, range) == prev.to > range.to /\ prev.from <= range.to

\* Days until the next attempt: minutes if the source may soon have it.  (A
\* refused request, and a game without a source, wait a week.)
Waits(status) == IF status \in {"pending", "deferred"} THEN 0 ELSE 1

SaveCheck(t, status) ==
  LET p == t.printing range == RangeOf(t) ok == status = "ok"
      prev == IF check[p] = None THEN [from |-> 0, to |-> 0, chart |-> 0] ELSE check[p]
      had == prev.from # 0
  IN check' = [check EXCEPT ![p] =
       [status |-> status,
        from |-> IF ~ok THEN prev.from
                 ELSE IF had /\ Covers(prev, range) THEN Min2(prev.from, range.from) ELSE range.from,
        to |-> IF ~ok THEN prev.to
               ELSE IF had /\ CoversAfter(prev, range) THEN prev.to ELSE range.to,
        chart |-> IF ok /\ t.chart THEN Max2(prev.chart, t.to) ELSE prev.chart,
        due |-> run.day + Waits(status)]]

InWindows(t, d) == \E w \in t.windows : d \in w.from .. w.to
Returned(t) == offered[t.printing] \cap (Batch.from .. Batch.to)
\* usableHistoryPoints, less the days that have an ingest row.
Points(t) == {d \in Returned(t) : InWindows(t, d)}
Fresh(t) == Points(t) \ taken[t.printing]

OverCap(t) == run.written > 0 /\ run.written + Cardinality(Fresh(t)) > MaxPoints

\* A history: all its points are offered to the market ingest.  Of a doubtful one it
\* may make a row without a usable price (an outlier), an unprocessed row (refused or
\* quarantined), or no row (an error); "the rest still land".  The range counts as
\* fetched whatever it makes of them.
HistoryOk ==
  LET t == Next1 p == Next1.printing range == RangeOf(Next1)
      doubtful == {d \in Fresh(Next1) : <<Next1.printing, d>> \in Doubtful}
  IN
  /\ run # None /\ run.open
  /\ ~OverCap(t)
  /\ \E unpriced \in SUBSET doubtful : \E unprocessed \in SUBSET unpriced :
     \E dropped \in SUBSET unprocessed :
       /\ taken' = [taken EXCEPT ![p] = @ \cup (Fresh(t) \ dropped)]
       /\ stored' = [stored EXCEPT ![p] = @ \cup (Fresh(t) \ unpriced)]
       /\ refused' = [refused EXCEPT ![p] = (@ \ Fresh(t)) \cup unpriced]
       /\ run' = Advanced([run EXCEPT !.written = @ + Cardinality(Fresh(t) \ unprocessed)])
  /\ SaveCheck(t, "ok")
  /\ asked' = [asked EXCEPT ![p] = @ \cup (range.from .. range.to)]
  /\ owed' = [owed EXCEPT ![p] = @ \cup Points(t)]
  /\ UNCHANGED <<today, calls, offered>>

HistoryDeferred ==
  /\ run # None /\ run.open
  /\ OverCap(Next1)
  /\ SaveCheck(Next1, "deferred")
  /\ run' = Advanced([run EXCEPT !.deferred = TRUE])
  /\ UNCHANGED <<today, calls, offered, stored, taken, asked, owed, refused>>

HistoryNotOk(status) ==
  /\ status \in {"pending", "failed"}
  /\ run # None /\ run.open
  /\ SaveCheck(Next1, status)
  /\ run' = Advanced(run)
  /\ UNCHANGED <<today, calls, offered, stored, taken, asked, owed, refused>>

\* Nothing is left, the points are used up, or the feed refused or failed.
EndRun ==
  /\ run # None /\ run.todo = {} /\ ~run.open
  /\ run' = None
  /\ UNCHANGED <<today, calls, offered, stored, taken, check, asked, owed, refused>>

\* The transaction is rolled back.
RunDies ==
  /\ run # None
  /\ run' = None /\ check' = run.before.check /\ asked' = run.before.asked /\ owed' = run.before.owed
  /\ stored' = run.before.stored /\ taken' = run.before.taken /\ refused' = run.before.refused
  /\ UNCHANGED <<today, calls, offered>>

-----------------------------------------------------------------------------
(* Calls (the backfills also find old ones), the source, and days *)

CallFound(c) ==
  /\ run = None
  /\ c \in Calls \ calls /\ c.day < today
  /\ calls' = calls \cup {c}
  /\ UNCHANGED <<today, offered, stored, taken, check, run, asked, owed, refused>>

SourceFills(p) ==
  /\ run = None
  /\ offered[p] # 1 .. today - 1
  /\ offered' = [offered EXCEPT ![p] = 1 .. today - 1]
  /\ UNCHANGED <<today, calls, stored, taken, check, run, asked, owed, refused>>

NextDay ==
  /\ run = None
  /\ today < LastDay /\ today' = today + 1
  /\ UNCHANGED <<calls, offered, stored, taken, check, run, asked, owed, refused>>

Next ==
  \/ StartRun \/ Request \/ HistoryOk \/ HistoryDeferred \/ EndRun \/ RunDies \/ NextDay
  \/ \E p \in Printing : PlanTarget(p) \/ SourceFills(p)
  \/ \E status \in {"pending", "failed"} : HistoryNotOk(status)
  \/ \E c \in Calls : CallFound(c)

Spec == Init /\ [][Next]_vars

-----------------------------------------------------------------------------
\* Every variable holds a value of its kind, and only days the source had are stored.
TypeOK ==
  /\ today \in 1..LastDay /\ calls \subseteq Calls
  /\ \A p \in Printing :
       /\ stored[p] \subseteq taken[p] /\ taken[p] \subseteq offered[p] /\ offered[p] \subseteq 1..(LastDay - 1)
       /\ check[p] # None =>
            /\ check[p].status \in {"ok", "pending", "failed", "deferred"}
            /\ check[p].from \in 0..LastDay /\ check[p].to \in 0..LastDay /\ check[p].chart \in 0..LastDay
  /\ run # None => run.written \in 0..(LastDay * Cardinality(Printing))

\* What a check row says was fetched was asked, without a hole, and every day
\* such an answer held inside a window of the time has a price, or the market ingest
\* itself made none of it: through failures, deferrals, rollbacks and requests that
\* share a range, no day is lost on the way.
FetchedIsStored ==
  \A p \in Printing :
    /\ owed[p] \subseteq stored[p] \cup refused[p]
    /\ check[p] # None /\ check[p].from # 0 => check[p].from .. check[p].to \subseteq asked[p]

=============================================================================
