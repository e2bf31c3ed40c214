------------------------------ MODULE BackfillProofs ------------------------------
(***************************************************************************)
(* Theorems about the modules that fetch what was published before, run side *)
(* by side with the other sources as MCSources does: YoutubeBackfill,        *)
(* FeedReading and PriceHistory, for any number of channels, sites, printings *)
(* and workers and any budget; and about all the sources together.           *)
(***************************************************************************)
EXTENDS SourceProofs

-----------------------------------------------------------------------------
(* YoutubeBackfill.  A run's row is written by the one batch that executes it.  *)
(* Every request sent is either below the row's limit or counted by the ghost,  *)
(* and what the rows of a day reserve, less those requests, is within budget.   *)

Pages == (1..PageWindow) \X PageVideos
RequestNumbers == 1..Y!MaxReserve
BackfillDays == 0..Y!DayOf(BackfillTicks)
ChannelState == [playlist : BOOLEAN, page : Nat \ {0}, outcome : Y!Outcome \cup {None}]
RunRow == [channel : Channels, at : Nat, status : {"started", "completed", "failed"}, limit : Nat,
           state : ChannelState, sent : Nat]
BatchRow == [pc : {"wait", "chosen", "read", "details", "store"}, channel : Channels \cup {None}, state : ChannelState,
             run : Nat, reserve : Nat, pages : Nat, todo : SUBSET Pages]

BackfillTypes ==
  /\ ytRuns \in Seq(RunRow) /\ batch \in [Workers -> BatchRow]
  /\ ytStored \in [Channels -> SUBSET Pages]
  /\ extra \in [BackfillDays -> SUBSET (Nat \X RequestNumbers)]

\* The state of a channel is past no page that is not stored.
Reached(state, c) ==
  \A p \in 1..PageWindow : p < state.page \/ state.outcome = "reached_cutoff" => Y!PageOf(p) \subseteq ytStored[c]

RunRowsOk ==
  \A i \in 1..Len(ytRuns) : ytRuns[i].limit <= Y!MaxReserve /\ Reached(ytRuns[i].state, ytRuns[i].channel)

BatchOk(b) ==
  /\ batch[b].pc = "wait" => batch[b] = Y!Waiting
  /\ batch[b].pc = "chosen" => batch[b].run = 0
  /\ batch[b].pc # "wait" => batch[b].channel \in Channels /\ Reached(batch[b].state, batch[b].channel)
  /\ batch[b].pc \in {"read", "details", "store"} =>
       /\ batch[b].run \in 1..Len(ytRuns) /\ ytRuns[batch[b].run].channel = batch[b].channel
       /\ batch[b].reserve \in 1..Y!MaxReserve
       /\ ~batch[b].state.playlist /\ ~Y!Done(batch[b].state) => ytRuns[batch[b].run].sent = 0
  /\ batch[b].pc = "details" =>
       /\ batch[b].state.playlist /\ batch[b].state.page <= PageWindow
       /\ batch[b].state.outcome # "reached_cutoff" /\ ytRuns[batch[b].run].sent + 1 <= batch[b].reserve
  /\ batch[b].pc = "store" =>
       /\ batch[b].state.playlist
       /\ batch[b].state.page <= PageWindow =>
            Y!PageOf(batch[b].state.page) \subseteq ytStored[batch[b].channel] \cup batch[b].todo

BatchesOk == \A b \in Workers : BatchOk(b)
OwnRuns == \A a, b \in Workers : a # b /\ batch[a].run # 0 => batch[a].run # batch[b].run

SentOn(d) == {q \in Y!RunsOn(d) \X RequestNumbers : q[2] <= ytRuns[q[1]].sent}
ExtraNamed == \A d \in BackfillDays : extra[d] \subseteq (1..Len(ytRuns)) \X RequestNumbers
SentKnown == \A d \in BackfillDays : SentOn(d) \subseteq Y!ReservedOn(d) \cup extra[d]
ReservedInBudget == \A d \in BackfillDays : Cardinality(Y!ReservedOn(d) \ extra[d]) <= BackfillBudget

BackfillInv ==
  /\ Y!TypeOK /\ BackfillTypes /\ RunRowsOk /\ BatchesOk /\ OwnRuns
  /\ ExtraNamed /\ SentKnown /\ ReservedInBudget

LEMMA BackfillSizes ==
  ASSUME Y!Assumptions
  PROVE  /\ BackfillBudget \in Nat \ {0} /\ MaxPages \in Nat \ {0} /\ PageWindow \in Nat \ {0} /\ ClaimTime \in Nat \ {0}
         /\ BackfillDay \in Nat \ {0} /\ BackfillRuns \in Nat \ {0} /\ BackfillTicks \in Nat \ {0} /\ None \notin Y!Outcome
         /\ Y!MaxReserve \in Nat /\ Y!MaxReserve >= 3
BY DEF Y!Assumptions, Y!MaxReserve

LEMMA BackfillDaysOf ==
  ASSUME Y!Assumptions, NEW t \in Nat, t <= BackfillTicks
  PROVE  Y!DayOf(t) \in BackfillDays
<1>1. BackfillDay \in Nat \ {0} /\ BackfillTicks \in Nat BY BackfillSizes
<1>2. Y!DayOf(t) \in Nat /\ Y!DayOf(BackfillTicks) \in Nat BY <1>1, DivBounds DEF Y!DayOf
<1>3. Y!DayOf(t) <= Y!DayOf(BackfillTicks) BY <1>1, DivMono DEF Y!DayOf
<1> QED BY <1>2, <1>3 DEF BackfillDays

LEMMA RowsFinite ==
  ASSUME Y!Assumptions, BackfillTypes, NEW R, R \subseteq (1..Len(ytRuns)) \X RequestNumbers
  PROVE  IsFiniteSet(R) /\ Cardinality(R) \in Nat
<1>1. Len(ytRuns) \in Nat /\ Y!MaxReserve \in Nat BY BackfillSizes DEF BackfillTypes
<1>2. IsFiniteSet(1..Len(ytRuns)) /\ IsFiniteSet(RequestNumbers) BY <1>1, FS_Interval DEF RequestNumbers
<1>3. IsFiniteSet((1..Len(ytRuns)) \X RequestNumbers) BY <1>2, FS_Product
<1> QED BY <1>3, FS_Subset, FS_CardinalityType

LEMMA ReservedFinite ==
  ASSUME Y!Assumptions, BackfillTypes, NEW d
  PROVE  /\ Y!ReservedOn(d) \subseteq (1..Len(ytRuns)) \X RequestNumbers
         /\ IsFiniteSet(Y!ReservedOn(d)) /\ Cardinality(Y!ReservedOn(d)) \in Nat
<1>1. Y!ReservedOn(d) \subseteq (1..Len(ytRuns)) \X RequestNumbers
  BY DEF Y!ReservedOn, Y!RunsOn, RequestNumbers
<1> QED BY <1>1, RowsFinite

LEMMA BackfillStart == ASSUME Y!Assumptions, Y!Init PROVE BackfillInv
<1> USE BackfillSizes DEF Y!Init
<1>1. Len(ytRuns) = 0 /\ 1..Len(ytRuns) = {} /\ ytRuns \in Seq(RunRow) OBVIOUS
<1>2. Y!Waiting \in BatchRow /\ Y!Waiting.run = 0 /\ Y!Waiting.pc = "wait"
  BY DEF Y!Waiting, BatchRow, Y!FirstState, ChannelState
<1>3. BackfillTypes BY <1>1, <1>2 DEF BackfillTypes, BackfillDays
<1>4. Y!TypeOK BY <1>1, <1>2 DEF Y!TypeOK
<1>5. RunRowsOk /\ BatchesOk /\ OwnRuns BY <1>1, <1>2 DEF RunRowsOk, BatchesOk, BatchOk, OwnRuns
<1>6. \A d \in BackfillDays : extra[d] = {} BY DEF BackfillDays
<1>7. \A d : Y!RunsOn(d) = {} /\ Y!ReservedOn(d) = {} /\ SentOn(d) = {}
  BY <1>1 DEF Y!RunsOn, Y!ReservedOn, SentOn
<1>8. ExtraNamed /\ SentKnown BY <1>6, <1>7 DEF ExtraNamed, SentKnown
<1>9. ReservedInBudget
  <2>1. Cardinality({}) = 0 BY FS_EmptySet
  <2>2. \A d \in BackfillDays : Y!ReservedOn(d) \ extra[d] = {} BY <1>7
  <2>3. BackfillBudget >= 0 OBVIOUS
  <2> QED BY <2>1, <2>2, <2>3 DEF ReservedInBudget
<1> QED BY <1>3, <1>4, <1>5, <1>8, <1>9 DEF BackfillInv

LEMMA RowLargest ==
  ASSUME NEW R, R \subseteq Nat, R # {}, NEW m \in Nat, \A x \in R : x <= m
  PROVE  Y!Max(R) \in R
BY HasLargest DEF Y!Max

LEMMA SmallerOfTwo ==
  ASSUME NEW m \in Int, NEW n \in Int
  PROVE  Y!Min({m, n}) = IF m <= n THEN m ELSE n
<1> DEFINE least == IF m <= n THEN m ELSE n
<1>1. least \in {m, n} /\ \A y \in {m, n} : least <= y OBVIOUS
<1>2. \A x \in {m, n} : (\A y \in {m, n} : x <= y) => x = least OBVIOUS
<1> HIDE DEF least
<1>3. Y!Min({m, n}) \in {m, n} /\ \A y \in {m, n} : Y!Min({m, n}) <= y BY <1>1 DEF Y!Min
<1>4. Y!Min({m, n}) = least BY <1>2, <1>3
<1> QED BY <1>4 DEF least

\* What a step of another leaves of a batch.
LEMMA BatchKept ==
  ASSUME BackfillTypes, NEW a \in Workers, BatchOk(a), batch'[a] = batch[a], Len(ytRuns) \in Nat,
         Len(ytRuns') \in Nat, Len(ytRuns) <= Len(ytRuns'),
         batch[a].run \in 1..Len(ytRuns) =>
           /\ ytRuns'[batch[a].run].channel = ytRuns[batch[a].run].channel
           /\ ytRuns'[batch[a].run].sent = ytRuns[batch[a].run].sent,
         \A c \in Channels : ytStored[c] \subseteq ytStored'[c]
  PROVE  BatchOk(a)'
BY DEF BatchOk, Reached

\* A step of one batch that writes no row.
LEMMA BatchMoves ==
  ASSUME Y!Assumptions, BackfillInv, NEW b \in Workers, NEW next \in BatchRow, batch' = [batch EXCEPT ![b] = next],
         UNCHANGED <<ytClock, allowed, ytRuns, extra>>, ytStored' \in [Channels -> SUBSET Pages],
         \A c \in Channels : ytStored[c] \subseteq ytStored'[c],
         next.run \in {0, batch[b].run}, next.run # 0 => next.reserve = batch[b].reserve, BatchOk(b)'
  PROVE  BackfillInv'
<1> USE DEF BackfillInv
<1>1. batch'[b] = next /\ \A a \in Workers \ {b} : batch'[a] = batch[a] BY DEF BackfillTypes
<1>2. BackfillTypes' BY DEF BackfillTypes, BackfillDays, Y!DayOf
<1>3. Len(ytRuns) \in Nat BY DEF BackfillTypes
<1>4. BatchesOk'
  <2>1. \A a \in Workers \ {b} : BatchOk(a)' BY <1>1, <1>3, BatchKept DEF BatchesOk
  <2> QED BY <2>1 DEF BatchesOk
<1>5. OwnRuns' BY <1>1 DEF OwnRuns
<1>6. RunRowsOk'
  <2> SUFFICES ASSUME NEW i \in 1..Len(ytRuns)
               PROVE  ytRuns[i].limit <= Y!MaxReserve /\ Reached(ytRuns[i].state, ytRuns[i].channel)'
    BY DEF RunRowsOk, Y!MaxReserve
  <2>1. ytRuns[i] \in RunRow BY DEF BackfillTypes
  <2>2. Reached(ytRuns[i].state, ytRuns[i].channel) /\ ytRuns[i].channel \in Channels
    BY <2>1 DEF RunRowsOk, RunRow
  <2> QED BY <2>2 DEF Reached, RunRowsOk, Y!PageOf
<1>7. Y!TypeOK'
  <2>1. \A a \in Workers : batch'[a].pc \in {"wait", "chosen", "read", "details", "store"}
    BY <1>1 DEF Y!TypeOK, BatchRow
  <2>2. \A a \in Workers : batch'[a].run # 0 => Y!Run(a)'.sent <= batch'[a].reserve
    BY <1>1 DEF Y!TypeOK, Y!Run
  <2>3. \A c \in Channels : ytStored'[c] \subseteq (1..PageWindow) \X PageVideos BY DEF Pages
  <2>4. \A i \in 1..Len(ytRuns) : /\ ytRuns[i].channel \in Channels /\ ytRuns[i].at \in 0..ytClock
                                  /\ ytRuns[i].status \in {"started", "completed", "failed"}
                                  /\ ytRuns[i].sent <= Y!MaxReserve
    BY DEF Y!TypeOK
  <2> QED BY <2>1, <2>2, <2>3, <2>4 DEF Y!TypeOK
<1>8. \A d : Y!RunsOn(d)' = Y!RunsOn(d) /\ Y!ReservedOn(d)' = Y!ReservedOn(d) /\ SentOn(d)' = SentOn(d)
  BY DEF Y!RunsOn, Y!ReservedOn, SentOn, Y!DayOf
<1>9. BackfillDays' = BackfillDays BY DEF BackfillDays, Y!DayOf
<1>10. ExtraNamed' /\ SentKnown' /\ ReservedInBudget'
  BY <1>8, <1>9 DEF ExtraNamed, SentKnown, ReservedInBudget
<1> QED BY <1>2, <1>4, <1>5, <1>6, <1>7, <1>10

\* A batch writes the row of its run: requests it sent, what it reserves from
\* now on, and the state it leaves.
LEMMA RowWritten ==
  ASSUME Y!Assumptions, BackfillInv, NEW b \in Workers, NEW r, r = batch[b].run, r \in 1..Len(ytRuns),
         NEW w \in RunRow, ytRuns' = [ytRuns EXCEPT ![r] = w],
         w.channel = ytRuns[r].channel, w.at = ytRuns[r].at,
         w.sent <= Y!MaxReserve, w.limit <= Y!MaxReserve, Reached(w.state, w.channel),
         NEW next \in BatchRow, batch' = [batch EXCEPT ![b] = next],
         next.run \in {0, r}, next.run # 0 => w.sent <= next.reserve,
         NEW beyond, beyond \subseteq RequestNumbers,
         extra' = [extra EXCEPT ![Y!DayOf(w.at)] = @ \cup ({r} \X beyond)],
         \A k \in RequestNumbers : k <= w.sent =>
           k <= w.limit \/ k \in beyond \/ <<r, k>> \in extra[Y!DayOf(w.at)],
         \A k \in RequestNumbers : k <= w.limit =>
           k <= ytRuns[r].limit \/ k \in beyond \/ <<r, k>> \in extra[Y!DayOf(w.at)],
         UNCHANGED <<ytClock, allowed, ytStored>>, BatchOk(b)'
  PROVE  BackfillInv'
<1> USE DEF BackfillInv
<1> DEFINE e == Y!DayOf(w.at)
<1>1. Len(ytRuns) \in Nat /\ r \in Nat \ {0} /\ ytRuns[r] \in RunRow /\ BackfillTicks \in Nat /\ ytClock \in 0..BackfillTicks
  BY BackfillSizes DEF BackfillTypes, Y!TypeOK
<1>2. batch'[b] = next /\ \A a \in Workers \ {b} : batch'[a] = batch[a] BY DEF BackfillTypes
<1>3. /\ ytRuns' \in Seq(RunRow) /\ Len(ytRuns') = Len(ytRuns) /\ ytRuns'[r] = w
      /\ \A i \in 1..Len(ytRuns) : i # r => ytRuns'[i] = ytRuns[i]
  BY DEF BackfillTypes
<1>4. w.at \in 0..ytClock /\ e \in BackfillDays
  <2>1. w.at \in 0..ytClock BY DEF Y!TypeOK
  <2>2. w.at \in Nat /\ w.at <= BackfillTicks BY SMTT(20), <2>1, <1>1
  <2> QED BY <2>1, <2>2, BackfillDaysOf
<1>5. BackfillDays' = BackfillDays BY DEF BackfillDays, Y!DayOf
<1> HIDE DEF e
<1>6. /\ extra' = [extra EXCEPT ![e] = @ \cup ({r} \X beyond)]
      /\ extra'[e] = extra[e] \cup ({r} \X beyond)
      /\ \A d \in BackfillDays \ {e} : extra'[d] = extra[d]
  BY <1>4 DEF BackfillTypes, e
<1>7. \A d \in BackfillDays : extra'[d] \subseteq (1..Len(ytRuns)) \X RequestNumbers
  BY SMTT(20), <1>1, <1>6 DEF ExtraNamed
<1>8. extra' \in [BackfillDays -> SUBSET (Nat \X RequestNumbers)]
  <2>1. \A d \in BackfillDays : extra'[d] \in SUBSET (Nat \X RequestNumbers) BY SMTT(20), <1>7, <1>1
  <2> QED BY <2>1, <1>6 DEF BackfillTypes
<1>9. BackfillTypes' BY <1>3, <1>5, <1>8 DEF BackfillTypes, RequestNumbers, Y!MaxReserve
<1>10. BatchesOk'
  <2>1. ASSUME NEW a \in Workers \ {b} PROVE BatchOk(a)'
    <3>1. batch[a].run # r BY <1>1 DEF OwnRuns
    <3>2. batch[a].run \in 1..Len(ytRuns) => ytRuns'[batch[a].run] = ytRuns[batch[a].run] BY <3>1, <1>3
    <3> QED BY SMTT(20), <1>1, <1>2, <1>3, <3>2, BatchKept DEF BatchesOk
  <2> QED BY <2>1 DEF BatchesOk
<1>11. OwnRuns' BY SMTT(20), <1>1, <1>2 DEF OwnRuns
<1>12. RunRowsOk'
  <2> SUFFICES ASSUME NEW i \in 1..Len(ytRuns)
               PROVE ytRuns'[i].limit <= Y!MaxReserve /\ Reached(ytRuns[i].state, ytRuns[i].channel)'
    BY <1>3 DEF RunRowsOk, Y!MaxReserve
  <2>1. CASE i = r BY <2>1, <1>3 DEF Reached, Y!PageOf
  <2>2. CASE i # r BY <2>2, <1>3 DEF RunRowsOk, Reached, Y!PageOf
  <2> QED BY <2>1, <2>2
<1>13. Y!TypeOK'
  <2>1. \A a \in Workers : batch'[a].pc \in {"wait", "chosen", "read", "details", "store"}
    BY <1>2 DEF Y!TypeOK, BatchRow
  <2>2. \A a \in Workers : batch'[a].run # 0 => ytRuns'[batch'[a].run].sent <= batch'[a].reserve
    <3>1. batch'[b].run # 0 => ytRuns'[batch'[b].run].sent <= batch'[b].reserve BY <1>1, <1>2, <1>3
    <3>2. ASSUME NEW a \in Workers \ {b}, batch'[a].run # 0
          PROVE ytRuns'[batch'[a].run].sent <= batch'[a].reserve
      <4>1. batch[a].run # r BY <1>1 DEF OwnRuns
      <4>2. batch[a].run \in 1..Len(ytRuns) BY SMTT(20), <3>2, <1>2 DEF BatchesOk, BatchOk, Y!TypeOK, Y!Waiting
      <4> QED BY SMTT(20), <3>2, <4>1, <4>2, <1>2, <1>3 DEF Y!TypeOK, Y!Run
    <3> QED BY <3>1, <3>2
  <2>3. \A i \in 1..Len(ytRuns') : /\ ytRuns'[i].channel \in Channels /\ ytRuns'[i].at \in 0..ytClock
                                   /\ ytRuns'[i].status \in {"started", "completed", "failed"}
                                   /\ ytRuns'[i].sent <= Y!MaxReserve
    <3> SUFFICES ASSUME NEW i \in 1..Len(ytRuns)
                 PROVE  /\ ytRuns'[i].channel \in Channels /\ ytRuns'[i].at \in 0..ytClock
                        /\ ytRuns'[i].status \in {"started", "completed", "failed"}
                        /\ ytRuns'[i].sent <= Y!MaxReserve
      BY <1>3
    <3>1. CASE i = r BY <3>1, <1>3, <1>4 DEF RunRow
    <3>2. CASE i # r BY <3>2, <1>3 DEF Y!TypeOK
    <3> QED BY <3>1, <3>2
  <2> QED BY <2>1, <2>2, <2>3 DEF Y!TypeOK, Y!Run, Y!MaxReserve
<1>14. \A d : Y!RunsOn(d)' = Y!RunsOn(d)
  BY <1>3 DEF Y!RunsOn, Y!DayOf
<1>15. \A d : r \in Y!RunsOn(d) <=> d = e BY DEF Y!RunsOn, e
<1>16. \A d : /\ Y!ReservedOn(d)' = {q \in Y!RunsOn(d) \X RequestNumbers : q[2] <= ytRuns'[q[1]].limit}
              /\ Y!ReservedOn(d) = {q \in Y!RunsOn(d) \X RequestNumbers : q[2] <= ytRuns[q[1]].limit}
              /\ SentOn(d)' = {q \in Y!RunsOn(d) \X RequestNumbers : q[2] <= ytRuns'[q[1]].sent}
              /\ Y!RunsOn(d) \subseteq 1..Len(ytRuns)
  BY <1>14 DEF Y!ReservedOn, SentOn, RequestNumbers, Y!MaxReserve, Y!RunsOn
<1>17. ASSUME NEW d \in BackfillDays
       PROVE /\ SentOn(d)' \subseteq Y!ReservedOn(d)' \cup extra'[d]
             /\ Y!ReservedOn(d)' \ extra'[d] \subseteq Y!ReservedOn(d) \ extra[d]
  <2>1. extra[d] \subseteq extra'[d] BY <1>6
  <2>2. ASSUME NEW q \in Y!RunsOn(d) \X RequestNumbers
        PROVE  /\ q \in SentOn(d)' => q \in Y!ReservedOn(d)' \cup extra'[d]
               /\ q \in Y!ReservedOn(d)' => q \in (Y!ReservedOn(d) \ extra[d]) \cup extra'[d]
    <3>1. CASE q[1] = r
      <4>1. d = e /\ q = <<r, q[2]>> /\ q[2] \in RequestNumbers BY SMTT(20), <3>1, <1>15
      <4>2. q[2] \in beyond => q \in extra'[d] BY SMTT(20), <4>1, <1>6
      <4>3. /\ q \in SentOn(d)' <=> q[2] <= w.sent
            /\ q \in Y!ReservedOn(d)' <=> q[2] <= w.limit
            /\ q \in Y!ReservedOn(d) <=> q[2] <= ytRuns[r].limit
        BY <3>1, <1>3, <1>16
      <4>4. <<r, q[2]>> \in extra[Y!DayOf(w.at)] => q \in extra'[d] BY <4>1, <2>1 DEF e
      <4>5. q[2] <= w.sent => q[2] <= w.limit \/ q \in extra'[d] BY <4>1, <4>2, <4>4
      <4>6. q[2] <= w.limit => q[2] <= ytRuns[r].limit \/ q \in extra'[d] BY <4>1, <4>2, <4>4
      <4> QED BY <4>3, <4>5, <4>6, <2>1
    <3>2. CASE q[1] # r
      <4>1. q[1] \in 1..Len(ytRuns) /\ ytRuns'[q[1]] = ytRuns[q[1]] BY <3>2, <1>3, <1>16
      <4>2. /\ q \in SentOn(d)' <=> q \in SentOn(d)
            /\ q \in Y!ReservedOn(d)' <=> q \in Y!ReservedOn(d)
        BY SMTT(20), <4>1, <1>16 DEF SentOn
      <4> QED BY <4>2, <2>1 DEF SentKnown
    <3> QED BY <3>1, <3>2
  <2>3. SentOn(d)' \subseteq Y!RunsOn(d) \X RequestNumbers /\ Y!ReservedOn(d)' \subseteq Y!RunsOn(d) \X RequestNumbers
    BY <1>16
  <2> QED BY <2>1, <2>2, <2>3
<1>18. ExtraNamed' /\ SentKnown'
  BY <1>3, <1>5, <1>7, <1>17 DEF ExtraNamed, SentKnown, RequestNumbers, Y!MaxReserve
<1>19. ReservedInBudget'
  <2> SUFFICES ASSUME NEW d \in BackfillDays PROVE Cardinality(Y!ReservedOn(d)' \ extra'[d]) <= BackfillBudget
    BY <1>5 DEF ReservedInBudget
  <2>1. Y!ReservedOn(d) \ extra[d] \subseteq (1..Len(ytRuns)) \X RequestNumbers BY ReservedFinite
  <2>2. IsFiniteSet(Y!ReservedOn(d) \ extra[d]) /\ Cardinality(Y!ReservedOn(d) \ extra[d]) \in Nat
    BY <2>1, RowsFinite
  <2>3. /\ Cardinality(Y!ReservedOn(d)' \ extra'[d]) <= Cardinality(Y!ReservedOn(d) \ extra[d])
        /\ IsFiniteSet(Y!ReservedOn(d)' \ extra'[d])
    BY <2>2, <1>17, FS_Subset
  <2>4. Cardinality(Y!ReservedOn(d)' \ extra'[d]) \in Nat BY <2>3, FS_CardinalityType
  <2>5. Cardinality(Y!ReservedOn(d) \ extra[d]) <= BackfillBudget BY DEF ReservedInBudget
  <2>6. BackfillBudget \in Nat BY BackfillSizes
  <2> QED BY <2>2, <2>3, <2>4, <2>5, <2>6, LeqTrans, Zenon
<1> QED BY <1>9, <1>10, <1>11, <1>12, <1>13, <1>18, <1>19

\* Reading and failing leave the channel's state where its pages are stored.
LEMMA SelectChannelStep ==
  ASSUME Y!Assumptions, BackfillInv, NEW b \in Workers, NEW c \in Channels, Y!SelectChannel(b, c)
  PROVE  BackfillInv'
<1> USE DEF BackfillInv
<1> DEFINE last == Y!Max(Y!RunsOf(c))
           state == IF Y!RunsOf(c) = {} THEN Y!FirstState ELSE ytRuns[last].state
           next == IF Y!RunsOf(c) = {} THEN [Y!Waiting EXCEPT !.pc = "chosen", !.channel = c]
                   ELSE [Y!Waiting EXCEPT !.pc = "chosen", !.channel = c, !.state = ytRuns[last].state]
<1>1. batch[b] = Y!Waiting BY DEF Y!SelectChannel, BatchesOk, BatchOk
<1>2. Len(ytRuns) \in Nat BY DEF BackfillTypes
<1>3. state \in ChannelState /\ Reached(state, c)
  <2>1. CASE Y!RunsOf(c) = {}
    <3>1. state = Y!FirstState BY <2>1
    <3>2. Y!FirstState \in ChannelState /\ Y!FirstState.page = 1 /\ Y!FirstState.outcome = None
      BY DEF Y!FirstState, ChannelState
    <3> QED BY <3>1, <3>2, BackfillSizes DEF Reached, Y!Outcome
  <2>2. CASE Y!RunsOf(c) # {}
    <3>1. Y!RunsOf(c) \subseteq Nat /\ \A i \in Y!RunsOf(c) : i <= Len(ytRuns) BY <1>2 DEF Y!RunsOf
    <3>2. last \in Y!RunsOf(c) BY <3>1, <1>2, <2>2, RowLargest
    <3>3. last \in 1..Len(ytRuns) /\ ytRuns[last].channel = c BY <3>2 DEF Y!RunsOf
    <3>4. ytRuns[last] \in RunRow BY <3>3 DEF BackfillTypes
    <3>5. state = ytRuns[last].state BY <2>2
    <3> QED BY <3>3, <3>4, <3>5 DEF RunRow, RunRowsOk
  <2> QED BY <2>1, <2>2
<1>4. batch' = [batch EXCEPT ![b] = next] BY <1>1 DEF Y!SelectChannel
<1>5. /\ next \in BatchRow /\ next.pc = "chosen" /\ next.channel = c /\ next.state = state /\ next.run = 0
  <2>1. Y!Waiting \in BatchRow /\ Y!Waiting.state = Y!FirstState /\ Y!Waiting.run = 0
    BY DEF Y!Waiting, BatchRow, Y!FirstState, ChannelState
  <2>2. CASE Y!RunsOf(c) = {}
    <3>1. next = [Y!Waiting EXCEPT !.pc = "chosen", !.channel = c] /\ state = Y!FirstState BY <2>2
    <3> HIDE DEF next, state
    <3> QED BY <2>1, <3>1 DEF BatchRow
  <2>3. CASE Y!RunsOf(c) # {}
    <3>1. /\ next = [Y!Waiting EXCEPT !.pc = "chosen", !.channel = c, !.state = ytRuns[last].state]
          /\ state = ytRuns[last].state
      BY <2>3
    <3> HIDE DEF next, state
    <3> QED BY <2>1, <3>1, <1>3 DEF BatchRow
  <2> QED BY <2>2, <2>3
<1> HIDE DEF last, state
<1> HIDE DEF next
<1>6. batch'[b] = next BY <1>4 DEF BackfillTypes
<1>7. UNCHANGED <<ytClock, allowed, ytRuns, ytStored, extra>> BY DEF Y!SelectChannel
<1>8. BatchOk(b)' BY <1>3, <1>5, <1>6, <1>7 DEF BatchOk, Reached, Y!PageOf
<1>9. ytStored' \in [Channels -> SUBSET Pages] BY <1>7 DEF BackfillTypes
<1> QED BY <1>4, <1>5, <1>7, <1>8, <1>9, BatchMoves

LEMMA RestStep ==
  ASSUME Y!Assumptions, BackfillInv, NEW b \in Workers, batch' = [batch EXCEPT ![b] = Y!Waiting],
         UNCHANGED <<ytClock, allowed, ytRuns, ytStored, extra>>
  PROVE  BackfillInv'
<1> USE DEF BackfillInv
<1>1. Y!Waiting \in BatchRow /\ Y!Waiting.run = 0 /\ Y!Waiting.pc = "wait"
  BY DEF Y!Waiting, BatchRow, Y!FirstState, ChannelState
<1>2. batch'[b] = Y!Waiting BY DEF BackfillTypes
<1>3. Y!Waiting' = Y!Waiting BY DEF Y!Waiting, Y!FirstState
<1>4. BatchOk(b)' BY <1>1, <1>2, <1>3 DEF BatchOk
<1>5. ytStored' \in [Channels -> SUBSET Pages] BY DEF BackfillTypes
<1> QED BY <1>1, <1>4, <1>5, BatchMoves

LEMMA StoreVideoStep ==
  ASSUME Y!Assumptions, BackfillInv, NEW b \in Workers, NEW v \in Pages, Y!StoreVideo(b, v)
  PROVE  BackfillInv'
<1> USE DEF BackfillInv
<1> DEFINE c == batch[b].channel
           next == [batch[b] EXCEPT !.todo = @ \ {v}]
<1>1. /\ batch[b].pc = "store" /\ ytStored' = [ytStored EXCEPT ![c] = @ \cup {v}]
      /\ batch' = [batch EXCEPT ![b] = next] /\ UNCHANGED <<ytClock, allowed, ytRuns, extra>>
  BY DEF Y!StoreVideo
<1>2. batch[b] \in BatchRow /\ c \in Channels BY <1>1 DEF BackfillTypes, BatchesOk, BatchOk
<1>3. /\ next \in BatchRow /\ next.pc = "store" /\ next.channel = c /\ next.state = batch[b].state
      /\ next.run = batch[b].run /\ next.reserve = batch[b].reserve /\ next.todo = batch[b].todo \ {v}
  BY <1>1, <1>2 DEF BatchRow
<1> HIDE DEF next
<1>4. ytStored' \in [Channels -> SUBSET Pages] /\ \A x \in Channels : ytStored[x] \subseteq ytStored'[x]
  BY <1>1, <1>2 DEF BackfillTypes
<1>5. ytStored'[c] = ytStored[c] \cup {v} BY <1>1, <1>2 DEF BackfillTypes
<1>6. batch'[b] = next BY <1>1 DEF BackfillTypes
<1>7. BatchOk(b) BY DEF BatchesOk
<1>8. BatchOk(b)'
  <2>1. Reached(batch[b].state, c)' BY <1>1, <1>2, <1>3, <1>4, <1>6, <1>7 DEF BatchOk, Reached, Y!PageOf
  <2>2. batch[b].state.page <= PageWindow =>
          Y!PageOf(batch[b].state.page) \subseteq ytStored'[c] \cup next.todo
    BY <1>1, <1>3, <1>5, <1>7 DEF BatchOk
  <2> QED
    BY <1>1, <1>3, <1>6, <1>7, <2>1, <2>2 DEF BatchOk, Reached, Y!PageOf, Y!Done, Y!MaxReserve, Y!Outcome
<1>9. next.run \in {0, batch[b].run} /\ next.reserve = batch[b].reserve BY <1>3
<1> QED BY <1>1, <1>3, <1>4, <1>8, <1>9, BatchMoves

LEMMA ClaimChannelRunStep ==
  ASSUME Y!Assumptions, BackfillInv, NEW b \in Workers, Y!ClaimChannelRun(b)
  PROVE  BackfillInv'
<1> USE DEF BackfillInv
<1>1. PICK thisDay \in BackfillDays : thisDay = Y!DayOf(ytClock)
  <2>1. ytClock \in Nat /\ ytClock <= BackfillTicks BY BackfillSizes DEF Y!TypeOK
  <2> QED BY <2>1, BackfillDaysOf
<1> DEFINE available == BackfillBudget - Cardinality(Y!ReservedOn(thisDay))
           reserve == Y!Min({Y!MaxReserve, available})
           c == batch[b].channel
           new == [channel |-> c, at |-> ytClock, status |-> "started", limit |-> reserve,
                   state |-> batch[b].state, sent |-> 0]
           r == Len(ytRuns) + 1
           next == [batch[b] EXCEPT !.pc = "read", !.run = Len(ytRuns) + 1, !.reserve = reserve]
<1>2. /\ batch[b].pc = "chosen" /\ UNCHANGED <<ytClock, allowed, ytStored, extra>>
      /\ \/ batch' = [batch EXCEPT ![b] = Y!Waiting] /\ UNCHANGED ytRuns
         \/ available >= 2 /\ ytRuns' = Append(ytRuns, new) /\ batch' = [batch EXCEPT ![b] = next]
  <2>1. Cardinality(Y!ReservedOn(thisDay)) \in Nat BY ReservedFinite
  <2>2. Y!Cardinality(Y!ReservedOn(Y!DayOf(ytClock))) = Cardinality(Y!ReservedOn(thisDay))
    BY <1>1, SameCounts
  <2> QED BY <2>1, <2>2, BackfillSizes DEF Y!ClaimChannelRun
<1>3. CASE batch' = [batch EXCEPT ![b] = Y!Waiting] /\ UNCHANGED ytRuns
  BY <1>2, <1>3, RestStep
<1>4. CASE available >= 2 /\ ytRuns' = Append(ytRuns, new) /\ batch' = [batch EXCEPT ![b] = next]
  <2>1. /\ batch[b] \in BatchRow /\ c \in Channels /\ Reached(batch[b].state, c) /\ batch[b].run = 0
        /\ Len(ytRuns) \in Nat /\ ytClock \in Nat /\ ytClock \in 0..BackfillTicks /\ BackfillTicks \in Nat
        /\ batch[b].state \in ChannelState
    BY SMTT(20), <1>2, BackfillSizes DEF BackfillTypes, BatchesOk, BatchOk, Y!TypeOK, BatchRow
  <2>2. /\ Cardinality(Y!ReservedOn(thisDay)) \in Nat /\ BackfillBudget \in Nat /\ Y!MaxReserve \in Nat /\ Y!MaxReserve >= 3
    BY ReservedFinite, BackfillSizes
  <2>3. reserve \in 1..Y!MaxReserve /\ reserve <= available /\ reserve \in Nat
    <3>1. reserve = IF Y!MaxReserve <= available THEN Y!MaxReserve ELSE available
      BY <2>2, SmallerOfTwo
    <3> QED BY <3>1, <2>2, <1>4
  <2> HIDE DEF reserve
  <2>4. /\ new \in RunRow /\ new.channel = c /\ new.at = ytClock /\ new.status = "started"
        /\ new.limit = reserve /\ new.state = batch[b].state /\ new.sent = 0
    BY <2>1, <2>3 DEF RunRow
  <2>5. r \in Nat /\ reserve \in Nat BY <2>1, <2>3
  <2>6. /\ next \in BatchRow /\ next.pc = "read" /\ next.channel = c /\ next.state = batch[b].state
        /\ next.run = r /\ next.reserve = reserve
    BY <2>1, <2>5 DEF BatchRow
  <2> HIDE DEF new, next
  <2>7. /\ ytRuns' \in Seq(RunRow) /\ Len(ytRuns') = Len(ytRuns) + 1 /\ ytRuns'[r] = new
        /\ \A i \in 1..Len(ytRuns) : ytRuns'[i] = ytRuns[i] /\ i # r
        /\ 1..Len(ytRuns') = (1..Len(ytRuns)) \cup {r}
    BY <1>4, <2>1, <2>4 DEF BackfillTypes
  <2>8. batch'[b] = next /\ \A a \in Workers \ {b} : batch'[a] = batch[a] BY <1>4 DEF BackfillTypes
  <2>9. BackfillTypes' BY <1>2, <1>4, <2>6, <2>7 DEF BackfillTypes, BackfillDays, Y!DayOf
  <2>10. BatchesOk'
    <3>1. BatchOk(b)'
      BY <1>2, <2>1, <2>3, <2>4, <2>6, <2>7, <2>8 DEF BatchOk, Reached, Y!PageOf, Y!MaxReserve
    <3>2. ASSUME NEW a \in Workers \ {b} PROVE BatchOk(a)'
      <4>1. batch[a].run \in 1..Len(ytRuns) => ytRuns'[batch[a].run] = ytRuns[batch[a].run] BY <2>7
      <4> QED BY <1>2, <2>1, <2>7, <2>8, <4>1, BatchKept DEF BatchesOk
    <3> QED BY <3>1, <3>2 DEF BatchesOk
  <2>11. \A a \in Workers : batch[a].run # 0 => batch[a].run \in 1..Len(ytRuns)
    BY DEF BatchesOk, BatchOk, Y!Waiting, BackfillTypes, BatchRow
  <2>12. OwnRuns' BY <2>1, <2>6, <2>8, <2>11 DEF OwnRuns
  <2>13. RunRowsOk'
    <3> SUFFICES ASSUME NEW i \in (1..Len(ytRuns)) \cup {r}
                 PROVE  ytRuns'[i].limit <= Y!MaxReserve /\ Reached(ytRuns[i].state, ytRuns[i].channel)'
      BY <2>7 DEF RunRowsOk, Y!MaxReserve
    <3>1. CASE i = r
      <4>1. PICK q, d : q = batch[b].state /\ d = c OBVIOUS
      <4>2. ytRuns'[i].state = q /\ ytRuns'[i].channel = d BY <3>1, <4>1, <2>4, <2>7
      <4>3. Reached(q, d)' BY <4>1, <1>2, <2>1 DEF Reached, Y!PageOf
      <4>4. Reached(ytRuns[i].state, ytRuns[i].channel)' BY <4>2, <4>3 DEF Reached, Y!PageOf
      <4> QED BY <3>1, <4>4, <2>3, <2>4, <2>7 DEF Y!MaxReserve
    <3>2. CASE i # r BY <3>2, <1>2, <2>7 DEF RunRowsOk, Reached, Y!PageOf
    <3> QED BY <3>1, <3>2
  <2>14. Y!TypeOK'
    <3>1. \A a \in Workers : batch'[a].pc \in {"wait", "chosen", "read", "details", "store"} BY <2>6, <2>8 DEF Y!TypeOK
    <3>2. \A a \in Workers : batch'[a].run # 0 => ytRuns'[batch'[a].run].sent <= batch'[a].reserve
      <4>1. ytRuns'[batch'[b].run].sent <= batch'[b].reserve BY <2>3, <2>4, <2>6, <2>7, <2>8
      <4>2. ASSUME NEW a \in Workers \ {b}, batch'[a].run # 0
            PROVE ytRuns'[batch'[a].run].sent <= batch'[a].reserve
        BY <4>2, <2>7, <2>8, <2>11 DEF Y!TypeOK, Y!Run
      <4> QED BY <4>1, <4>2
    <3>3. \A i \in 1..Len(ytRuns') : /\ ytRuns'[i].channel \in Channels /\ ytRuns'[i].at \in 0..ytClock
                                     /\ ytRuns'[i].status \in {"started", "completed", "failed"}
                                     /\ ytRuns'[i].sent <= Y!MaxReserve
      <4> SUFFICES ASSUME NEW i \in (1..Len(ytRuns)) \cup {r}
                   PROVE  /\ ytRuns'[i].channel \in Channels /\ ytRuns'[i].at \in 0..ytClock
                          /\ ytRuns'[i].status \in {"started", "completed", "failed"}
                          /\ ytRuns'[i].sent <= Y!MaxReserve
        BY <2>7
      <4>1. CASE i = r BY <4>1, <2>1, <2>2, <2>4, <2>7
      <4>2. CASE i # r BY <4>2, <2>7 DEF Y!TypeOK
      <4> QED BY <4>1, <4>2
    <3> QED BY <1>2, <3>1, <3>2, <3>3 DEF Y!TypeOK, Y!Run, Y!MaxReserve
  <2>15. \A d : Y!RunsOn(d)' = IF d = thisDay THEN Y!RunsOn(d) \cup {r} ELSE Y!RunsOn(d)
    BY <1>1, <2>4, <2>7 DEF Y!RunsOn, Y!DayOf
  <2>16. \A d : Y!RunsOn(d) \subseteq 1..Len(ytRuns) BY DEF Y!RunsOn
  <2>17. /\ \A d : Y!ReservedOn(d) \subseteq Y!ReservedOn(d)'
         /\ \A d : d # thisDay => Y!ReservedOn(d)' = Y!ReservedOn(d)
         /\ Y!ReservedOn(thisDay)' = Y!ReservedOn(thisDay) \cup ({r} \X (1..reserve))
         /\ \A d : SentOn(d)' \subseteq SentOn(d)
    <3>1. \A d : /\ Y!ReservedOn(d)' = {q \in Y!RunsOn(d)' \X RequestNumbers : q[2] <= ytRuns'[q[1]].limit}
                 /\ Y!ReservedOn(d) = {q \in Y!RunsOn(d) \X RequestNumbers : q[2] <= ytRuns[q[1]].limit}
                 /\ SentOn(d)' = {q \in Y!RunsOn(d)' \X RequestNumbers : q[2] <= ytRuns'[q[1]].sent}
      BY DEF Y!ReservedOn, SentOn, RequestNumbers, Y!MaxReserve
    <3>2. RequestNumbers \subseteq Nat \ {0} /\ 1..reserve = {k \in RequestNumbers : k <= reserve}
      BY <2>2, <2>3 DEF RequestNumbers
    <3>3. Y!ReservedOn(thisDay)' = Y!ReservedOn(thisDay) \cup ({r} \X (1..reserve))
      <4>1. Y!ReservedOn(thisDay)' = {q \in (Y!RunsOn(thisDay) \cup {r}) \X RequestNumbers : q[2] <= ytRuns'[q[1]].limit}
        BY <3>1, <2>15
      <4>2. \A q \in Y!RunsOn(thisDay) \X RequestNumbers : ytRuns'[q[1]] = ytRuns[q[1]] BY <2>7, <2>16
      <4>3. \A q \in {r} \X RequestNumbers : ytRuns'[q[1]].limit = reserve BY <2>4, <2>7
      <4>4. Y!ReservedOn(thisDay)' = {q \in Y!RunsOn(thisDay) \X RequestNumbers : q[2] <= ytRuns[q[1]].limit}
                                   \cup {q \in {r} \X RequestNumbers : q[2] <= reserve}
        BY <4>1, <4>2, <4>3
      <4>5. {q \in {r} \X RequestNumbers : q[2] <= reserve} = {r} \X {k \in RequestNumbers : k <= reserve}
        OBVIOUS
      <4> QED BY <4>4, <4>5, <3>1, <3>2
    <3>4. \A d : d # thisDay => Y!ReservedOn(d)' = Y!ReservedOn(d)
      BY <3>1, <2>7, <2>15, <2>16
    <3>5. \A d : SentOn(d)' \subseteq SentOn(d)
      <4> SUFFICES ASSUME NEW d, NEW q \in SentOn(d)' PROVE q \in SentOn(d) OBVIOUS
      <4>1. q \in Y!RunsOn(d)' \X RequestNumbers /\ q[2] <= ytRuns'[q[1]].sent BY <3>1
      <4>2. q[2] \in Nat \ {0} BY <4>1, <3>2
      <4>3. q[1] = r => q[2] <= 0 BY <4>1, <2>4, <2>7
      <4>4. q[1] # r BY <4>2, <4>3
      <4> QED BY <4>1, <4>4, <2>7, <2>15, <2>16 DEF SentOn
    <3> QED BY <3>3, <3>4, <3>5
  <2>18. BackfillDays' = BackfillDays BY DEF BackfillDays, Y!DayOf
  <2>19. ExtraNamed'
    BY <1>2, <2>7, <2>18 DEF ExtraNamed, RequestNumbers, Y!MaxReserve
  <2>20. SentKnown' BY <1>2, <2>17, <2>18 DEF SentKnown
  <2>21. ReservedInBudget'
    <3> SUFFICES ASSUME NEW d \in BackfillDays PROVE Cardinality(Y!ReservedOn(d)' \ extra[d]) <= BackfillBudget
      BY <1>2, <2>18 DEF ReservedInBudget
    <3>1. CASE d # thisDay BY <3>1, <2>17 DEF ReservedInBudget
    <3>2. CASE d = thisDay
      <4>1. IsFiniteSet({r} \X (1..reserve)) /\ Cardinality({r} \X (1..reserve)) = reserve
        <5>1. IsFiniteSet(1..reserve) /\ Cardinality(1..reserve) = reserve BY <2>3, FS_Interval
        <5>2. IsFiniteSet({r}) /\ Cardinality({r}) = 1 BY FS_Singleton
        <5>3. Cardinality({r} \X (1..reserve)) = 1 * reserve /\ IsFiniteSet({r} \X (1..reserve))
          BY <2>3, <5>1, <5>2, FS_Product
        <5> QED BY <5>3, <2>3
      <4>2. /\ IsFiniteSet(Y!ReservedOn(thisDay)') /\ Cardinality(Y!ReservedOn(thisDay)') \in Nat
            /\ Cardinality(Y!ReservedOn(thisDay)') <= Cardinality(Y!ReservedOn(thisDay)) + reserve
        <5> DEFINE both == Y!ReservedOn(thisDay) \cap ({r} \X (1..reserve))
        <5>1. IsFiniteSet(Y!ReservedOn(thisDay)) BY ReservedFinite
        <5>2. IsFiniteSet(both) /\ Cardinality(both) \in Nat BY <4>1, <5>1, FS_Subset, FS_CardinalityType
        <5> DEFINE all == Y!ReservedOn(thisDay) \cup ({r} \X (1..reserve))
        <5>3. /\ IsFiniteSet(all)
              /\ Cardinality(all)
                  = Cardinality(Y!ReservedOn(thisDay)) + Cardinality({r} \X (1..reserve)) - Cardinality(both)
          BY <4>1, <5>1, FS_Union
        <5>4. Y!ReservedOn(thisDay)' = all BY <2>17
        <5> HIDE DEF all
        <5>5. /\ IsFiniteSet(Y!ReservedOn(thisDay)')
              /\ Cardinality(Y!ReservedOn(thisDay)')
                  = Cardinality(Y!ReservedOn(thisDay)) + Cardinality({r} \X (1..reserve)) - Cardinality(both)
          BY <5>3, <5>4
        <5>6. Cardinality(Y!ReservedOn(thisDay)') \in Nat BY <5>5, FS_CardinalityType
        <5> HIDE DEF both
        <5> QED BY <5>2, <5>5, <5>6, <4>1, <2>2, <2>3
      <4>3. /\ Cardinality(Y!ReservedOn(thisDay)' \ extra[d]) <= Cardinality(Y!ReservedOn(thisDay)')
            /\ IsFiniteSet(Y!ReservedOn(thisDay)' \ extra[d])
        BY <4>2, FS_Subset
      <4>4. Cardinality(Y!ReservedOn(thisDay)' \ extra[d]) \in Nat BY <4>3, FS_CardinalityType
      <4> QED BY <3>2, <4>2, <4>3, <4>4, <2>2, <2>3
    <3> QED BY <3>1, <3>2
  <2> QED BY <2>9, <2>10, <2>12, <2>13, <2>14, <2>19, <2>20, <2>21
<1> QED BY <1>2, <1>3, <1>4

\* What the row says is sent is reserved or counted by the ghost.
LEMMA SentIsKnown ==
  ASSUME Y!Assumptions, BackfillInv, NEW r \in 1..Len(ytRuns), NEW k \in RequestNumbers, k <= ytRuns[r].sent
  PROVE  k <= ytRuns[r].limit \/ <<r, k>> \in extra[Y!DayOf(ytRuns[r].at)]
<1>1. ytRuns[r].at \in 0..ytClock /\ ytClock \in 0..BackfillTicks BY DEF BackfillInv, Y!TypeOK
<1>2. ytRuns[r].at \in Nat /\ ytRuns[r].at <= BackfillTicks BY <1>1, BackfillSizes
<1>3. Y!DayOf(ytRuns[r].at) \in BackfillDays BY <1>2, BackfillDaysOf
<1>4. <<r, k>> \in SentOn(Y!DayOf(ytRuns[r].at)) BY DEF SentOn, Y!RunsOn
<1>5. <<r, k>> \in Y!ReservedOn(Y!DayOf(ytRuns[r].at)) \/ <<r, k>> \in extra[Y!DayOf(ytRuns[r].at)]
  BY <1>3, <1>4 DEF SentKnown, BackfillInv
<1> QED BY <1>5 DEF Y!ReservedOn

\* What a request counts: its number, if that is beyond the row's limit.
Beyond(r) == IF ytRuns[r].sent + 1 > ytRuns[r].limit THEN {ytRuns[r].sent + 1} ELSE {}

\* A step of a batch with a request more, within the run's reserve; the row's limit
\* stays, or becomes the requests sent.
LEMMA CountStep ==
  ASSUME Y!Assumptions, BackfillInv, NEW b \in Workers, batch[b].pc \in {"read", "details"}, Y!CountRequest(b),
         Y!Run(b).sent + 1 <= batch[b].reserve,
         NEW w \in RunRow, w.channel = Y!Run(b).channel, w.at = Y!Run(b).at, w.sent = Y!Run(b).sent + 1,
         w.limit \in {Y!Run(b).limit, Y!Run(b).sent + 1}, Reached(w.state, w.channel),
         ytRuns' = [ytRuns EXCEPT ![batch[b].run] = w],
         NEW next \in BatchRow, batch' = [batch EXCEPT ![b] = next],
         next.run \in {0, batch[b].run}, next.run # 0 => next.reserve = batch[b].reserve,
         UNCHANGED <<ytClock, allowed, ytStored>>, BatchOk(b)'
  PROVE  BackfillInv'
<1> USE DEF BackfillInv
<1>1. PICK r : r = batch[b].run OBVIOUS
<1>2. r \in 1..Len(ytRuns) /\ batch[b].reserve \in 1..Y!MaxReserve BY <1>1 DEF BatchesOk, BatchOk
<1>3. ytRuns[r] \in RunRow /\ Y!Run(b) = ytRuns[r] BY <1>1, <1>2 DEF BackfillTypes, Y!Run
<1>4. ytRuns[r].sent \in Nat /\ ytRuns[r].limit \in Nat /\ Y!MaxReserve \in Nat BY <1>3, BackfillSizes DEF RunRow
<1>5. PICK beyond : beyond = Beyond(r) OBVIOUS
<1>6. extra' = [extra EXCEPT ![Y!DayOf(w.at)] = @ \cup ({r} \X beyond)]
  <2>1. (IF ytRuns[r].sent + 1 > ytRuns[r].limit THEN {<<r, ytRuns[r].sent + 1>>} ELSE {}) = {r} \X beyond
    BY <1>5 DEF Beyond
  <2> QED BY <2>1, <1>1, <1>3 DEF Y!CountRequest
<1>7. w.sent <= Y!MaxReserve /\ w.sent <= batch[b].reserve BY SMTT(20), <1>2, <1>3, <1>4
<1>8. ytRuns[r].limit <= Y!MaxReserve BY <1>2 DEF RunRowsOk
<1>9. w.limit <= Y!MaxReserve BY <1>3, <1>7, <1>8
<1>10. beyond \subseteq RequestNumbers BY <1>3, <1>4, <1>5, <1>7 DEF RequestNumbers, Beyond
<1>11. ASSUME NEW k \in RequestNumbers, k <= ytRuns[r].sent + 1
       PROVE  k <= ytRuns[r].limit \/ k \in beyond \/ <<r, k>> \in extra[Y!DayOf(w.at)]
  <2>1. k \in Nat BY <1>4 DEF RequestNumbers
  <2>2. CASE k <= ytRuns[r].sent BY <2>2, <1>2, <1>3, SentIsKnown
  <2>3. CASE k = ytRuns[r].sent + 1 BY <2>3, <1>4, <1>5 DEF Beyond
  <2> QED BY <2>1, <2>2, <2>3, <1>4, <1>11
<1>12. \A k \in RequestNumbers : k <= w.sent =>
         k <= w.limit \/ k \in beyond \/ <<r, k>> \in extra[Y!DayOf(w.at)]
  BY <1>3, <1>11
<1>13. \A k \in RequestNumbers : k <= w.limit =>
         k <= ytRuns[r].limit \/ k \in beyond \/ <<r, k>> \in extra[Y!DayOf(w.at)]
  BY <1>3, <1>11
<1>14. next.run # 0 => w.sent <= next.reserve BY <1>7
<1>15. w.channel = ytRuns[r].channel /\ w.at = ytRuns[r].at /\ ytRuns' = [ytRuns EXCEPT ![r] = w] /\ next.run \in {0, r}
  BY <1>1, <1>3
<1> QED BY <1>1, <1>2, <1>6, <1>7, <1>9, <1>10, <1>12, <1>13, <1>14, <1>15, RowWritten

\* A request that is answered: the run goes on.
LEMMA SendRequestStep ==
  ASSUME Y!Assumptions, BackfillInv, NEW b \in Workers, batch[b].pc \in {"read", "details"}, Y!Send(b),
         Y!Run(b).sent + 1 <= batch[b].reserve,
         NEW next \in BatchRow, batch' = [batch EXCEPT ![b] = next],
         next.run = batch[b].run, next.reserve = batch[b].reserve,
         UNCHANGED <<ytClock, allowed, ytStored>>, BatchOk(b)'
  PROVE  BackfillInv'
<1> USE DEF BackfillInv
<1> DEFINE w == [Y!Run(b) EXCEPT !.sent = @ + 1]
<1>1. ytRuns' = [ytRuns EXCEPT ![batch[b].run] = w] /\ Y!CountRequest(b) BY DEF Y!Send, Y!Run
<1>2. batch[b].run \in 1..Len(ytRuns) BY DEF BatchesOk, BatchOk
<1>3. Y!Run(b) \in RunRow BY <1>2 DEF BackfillTypes, Y!Run
<1>4. /\ w \in RunRow /\ w.channel = Y!Run(b).channel /\ w.at = Y!Run(b).at /\ w.limit = Y!Run(b).limit
      /\ w.state = Y!Run(b).state /\ w.sent = Y!Run(b).sent + 1
  BY <1>3 DEF RunRow
<1>5. Reached(w.state, w.channel) BY <1>2, <1>4 DEF RunRowsOk, Y!Run
<1> HIDE DEF w
<1> QED BY <1>1, <1>4, <1>5, CountStep

\* What a request leaves of the rows but its count.
LEMMA SentGrows ==
  ASSUME Y!Assumptions, BackfillInv, NEW b \in Workers, batch[b].run \in 1..Len(ytRuns), Y!Send(b)
  PROVE  /\ \A i \in 1..Len(ytRuns) : ytRuns'[i].channel = ytRuns[i].channel
         /\ Len(ytRuns') = Len(ytRuns) /\ Y!MaxReserve' = Y!MaxReserve
         /\ ytRuns'[batch[b].run].sent = ytRuns[batch[b].run].sent + 1
BY DEF Y!Send, BackfillInv, BackfillTypes, RunRow, Y!MaxReserve

\* saveRun gives back what the run has not used, and says where it stands.
LEMMA SaveStep ==
  ASSUME Y!Assumptions, BackfillInv, NEW b \in Workers, batch[b].pc \in {"read", "details", "store"},
         NEW w \in RunRow, w.channel = Y!Run(b).channel, w.at = Y!Run(b).at, w.sent = Y!Run(b).sent,
         w.limit = Y!Run(b).sent, Reached(w.state, w.channel),
         ytRuns' = [ytRuns EXCEPT ![batch[b].run] = w],
         NEW next \in BatchRow, batch' = [batch EXCEPT ![b] = next],
         next.run \in {0, batch[b].run}, next.run # 0 => next.reserve = batch[b].reserve,
         UNCHANGED <<ytClock, allowed, ytStored, extra>>, BatchOk(b)'
  PROVE  BackfillInv'
<1> USE DEF BackfillInv
<1> DEFINE r == batch[b].run
<1>1. r \in 1..Len(ytRuns) /\ batch[b].reserve \in 1..Y!MaxReserve BY DEF BatchesOk, BatchOk
<1>2. ytRuns[r] \in RunRow BY <1>1 DEF BackfillTypes
<1>3. ytRuns[r].sent \in Nat /\ ytRuns[r].limit \in Nat /\ Y!MaxReserve \in Nat /\ ytRuns[r].at \in 0..ytClock /\ ytClock \in 0..BackfillTicks
      /\ ytRuns[r].sent <= Y!MaxReserve
  BY <1>1, <1>2, BackfillSizes DEF RunRow, Y!TypeOK
<1>4. w.sent <= Y!MaxReserve /\ w.limit <= Y!MaxReserve BY <1>3 DEF Y!Run
<1>5. next.run # 0 => w.sent <= next.reserve
  BY <1>1 DEF Y!TypeOK, Y!Run
<1>6. Y!DayOf(ytRuns[r].at) \in BackfillDays
  <2>1. ytRuns[r].at \in Nat /\ ytRuns[r].at <= BackfillTicks BY <1>3, BackfillSizes
  <2> QED BY <2>1, BackfillDaysOf
<1>7. \A k \in RequestNumbers : k <= w.limit =>
        k <= ytRuns[r].limit \/ <<r, k>> \in extra[Y!DayOf(w.at)]
  <2> SUFFICES ASSUME NEW k \in RequestNumbers, k <= ytRuns[r].sent
               PROVE k <= ytRuns[r].limit \/ <<r, k>> \in extra[Y!DayOf(ytRuns[r].at)]
    BY DEF Y!Run
  <2>1. <<r, k>> \in SentOn(Y!DayOf(ytRuns[r].at)) BY <1>1 DEF SentOn, Y!RunsOn
  <2>2. <<r, k>> \in Y!ReservedOn(Y!DayOf(ytRuns[r].at)) \/ <<r, k>> \in extra[Y!DayOf(ytRuns[r].at)]
    BY <2>1, <1>6 DEF SentKnown
  <2> QED BY <2>2 DEF Y!ReservedOn
<1>8. PICK none : none = {} OBVIOUS
<1>9. extra' = [extra EXCEPT ![Y!DayOf(w.at)] = @ \cup ({r} \X none)]
  <2>1. extra[Y!DayOf(w.at)] \cup ({r} \X none) = extra[Y!DayOf(w.at)] BY <1>8
  <2> QED BY <2>1, <1>6 DEF Y!Run, BackfillTypes
<1>10. /\ none \subseteq RequestNumbers
       /\ \A k \in RequestNumbers : k <= w.sent => k <= w.limit \/ k \in none \/ <<r, k>> \in extra[Y!DayOf(w.at)]
       /\ \A k \in RequestNumbers : k <= w.limit =>
            k <= ytRuns[r].limit \/ k \in none \/ <<r, k>> \in extra[Y!DayOf(w.at)]
  BY <1>7, <1>8
<1>11. r = batch[b].run OBVIOUS
<1>12. w.channel = ytRuns[r].channel /\ w.at = ytRuns[r].at /\ next.run \in {0, r} /\ ytRuns' = [ytRuns EXCEPT ![r] = w]
  BY DEF Y!Run
<1> HIDE DEF r
<1> QED BY <1>1, <1>4, <1>5, <1>9, <1>10, <1>12, <1>11, RowWritten

LEMMA FindUploadsStep ==
  ASSUME Y!Assumptions, BackfillInv, NEW b \in Workers, Y!FindUploads(b)
  PROVE  BackfillInv'
<1> USE DEF BackfillInv
<1>1. /\ batch[b].pc = "read" /\ ~Y!Done(batch[b].state) /\ ~batch[b].state.playlist /\ Y!Send(b)
      /\ UNCHANGED <<ytClock, allowed, ytStored>>
  BY DEF Y!FindUploads, Y!Reading
<1>2. batch[b] \in BatchRow /\ batch[b].state \in ChannelState /\ BatchOk(b)
  BY DEF BackfillTypes, BatchesOk, BatchRow
<1>3. Y!Run(b).sent + 1 <= batch[b].reserve /\ batch[b].run \in 1..Len(ytRuns)
  BY <1>1, <1>2 DEF BatchOk, Y!Run
<1>4. /\ \A i \in 1..Len(ytRuns) : ytRuns'[i].channel = ytRuns[i].channel
      /\ Len(ytRuns') = Len(ytRuns) /\ Y!MaxReserve' = Y!MaxReserve
  BY <1>1, <1>3, SentGrows
<1>5. ASSUME NEW state \in ChannelState, state.page = batch[b].state.page, state.outcome # "reached_cutoff",
             state.playlist \/ Y!Done(state), batch' = [batch EXCEPT ![b].state = state]
      PROVE  BackfillInv'
  <2> DEFINE next == [batch[b] EXCEPT !.state = state]
  <2>1. batch' = [batch EXCEPT ![b] = next] BY <1>5
  <2>2. /\ next \in BatchRow /\ next.state = state /\ next.pc = "read" /\ next.run = batch[b].run
        /\ next.channel = batch[b].channel /\ next.reserve = batch[b].reserve /\ next.todo = batch[b].todo
    BY <1>1, <1>2 DEF BatchRow
  <2> HIDE DEF next
  <2>3. batch'[b] = next BY <2>1 DEF BackfillTypes
  <2>4. Reached(state, batch[b].channel) BY <1>1, <1>2, <1>5 DEF BatchOk, Reached
  <2>5. BatchOk(b)'
    BY <1>4, <1>1, <1>2, <1>3, <1>5, <2>2, <2>3, <2>4 DEF BatchOk, Reached, Y!PageOf, Y!Done
  <2> QED BY <1>1, <1>3, <2>1, <2>2, <2>5, SendRequestStep
<1>6. CASE batch' = [batch EXCEPT ![b].state.playlist = TRUE]
  <2> DEFINE state == [batch[b].state EXCEPT !.playlist = TRUE]
  <2>1. /\ state \in ChannelState /\ state.page = batch[b].state.page
        /\ state.outcome = batch[b].state.outcome /\ state.playlist
    BY <1>2 DEF ChannelState
  <2>2. batch' = [batch EXCEPT ![b].state = state] BY <1>6
  <2> HIDE DEF state
  <2>3. state.outcome # "reached_cutoff" BY <1>1, <2>1 DEF Y!Done, Y!Outcome
  <2> QED BY <2>1, <2>2, <2>3, <1>5
<1>7. CASE batch' = [batch EXCEPT ![b].state.outcome = "channel_unavailable"]
  <2> DEFINE state == [batch[b].state EXCEPT !.outcome = "channel_unavailable"]
  <2>1. /\ state \in ChannelState /\ state.page = batch[b].state.page
        /\ state.outcome = "channel_unavailable"
    BY <1>2 DEF ChannelState, Y!Outcome
  <2>2. batch' = [batch EXCEPT ![b].state = state] BY <1>7
  <2> HIDE DEF state
  <2>3. Y!Done(state) BY <2>1 DEF Y!Done, Y!Outcome
  <2> QED BY <2>1, <2>2, <2>3, <1>5
<1> QED BY <1>6, <1>7 DEF Y!FindUploads

LEMMA ReadPageStep ==
  ASSUME Y!Assumptions, BackfillInv, NEW b \in Workers, Y!ReadPage(b)
  PROVE  BackfillInv'
<1> USE DEF BackfillInv
<1> DEFINE p == batch[b].state.page
           next == [batch[b] EXCEPT !.pc = IF p <= PageWindow THEN "details" ELSE "store", !.pages = @ + 1]
<1>1. /\ batch[b].pc = "read" /\ ~Y!Done(batch[b].state) /\ batch[b].state.playlist /\ Y!Send(b)
      /\ batch[b].reserve - Y!Run(b).sent >= 2
      /\ batch' = [batch EXCEPT ![b] = next] /\ UNCHANGED <<ytClock, allowed, ytStored>>
  BY DEF Y!ReadPage, Y!MorePages, Y!Reading
<1>2. /\ batch[b] \in BatchRow /\ batch[b].state \in ChannelState /\ BatchOk(b) /\ p \in Nat \ {0}
      /\ batch[b].pages \in Nat /\ batch[b].reserve \in Nat
  BY DEF BackfillTypes, BatchesOk, BatchRow, ChannelState
<1>3. /\ batch[b].run \in 1..Len(ytRuns) /\ ytRuns[batch[b].run] \in RunRow
  BY <1>1, <1>2 DEF BatchOk, BackfillTypes
<1>4. Y!Run(b).sent \in Nat /\ Y!Run(b).sent = ytRuns[batch[b].run].sent BY <1>3 DEF Y!Run, RunRow
<1>5. Y!Run(b).sent + 2 <= batch[b].reserve BY <1>1, <1>2, <1>4
<1>6. /\ next \in BatchRow /\ next.pc = (IF p <= PageWindow THEN "details" ELSE "store")
      /\ next.state = batch[b].state /\ next.run = batch[b].run
      /\ next.channel = batch[b].channel /\ next.reserve = batch[b].reserve /\ next.todo = batch[b].todo
  <2>1. batch[b].pages + 1 \in Nat BY <1>2
  <2> QED BY <1>2, <2>1 DEF BatchRow
<1> HIDE DEF next
<1>7. batch'[b] = next BY <1>1 DEF BackfillTypes
<1>8. /\ ytRuns'[batch[b].run].channel = ytRuns[batch[b].run].channel
      /\ Len(ytRuns') = Len(ytRuns) /\ Y!MaxReserve' = Y!MaxReserve
      /\ ytRuns'[batch[b].run].sent + 1 <= batch[b].reserve
  <2>1. ytRuns'[batch[b].run].sent = ytRuns[batch[b].run].sent + 1 BY <1>1, <1>3, SentGrows
  <2>2. ytRuns'[batch[b].run].sent + 1 <= batch[b].reserve BY <2>1, <1>2, <1>4, <1>5
  <2> QED BY <2>2, <1>1, <1>3, SentGrows
<1>9. batch[b].state.outcome # "reached_cutoff" BY <1>1 DEF Y!Done, Y!Outcome
<1>10. BatchOk(b)'
  <2>1. Reached(batch[b].state, batch[b].channel)'
    <3>1. Reached(batch[b].state, batch[b].channel) BY <1>1, <1>2 DEF BatchOk
    <3>2. batch'[b].state = batch[b].state /\ batch'[b].channel = batch[b].channel BY <1>6, <1>7
    <3> QED BY <3>1, <3>2, <1>1 DEF Reached, Y!PageOf
  <2>2. CASE p <= PageWindow
    BY <2>1, <2>2, <1>1, <1>2, <1>3, <1>6, <1>7, <1>8, <1>9 DEF BatchOk, Reached, Y!PageOf
  <2>3. CASE ~(p <= PageWindow)
    BY <2>1, <2>3, <1>1, <1>2, <1>3, <1>6, <1>7, <1>8 DEF BatchOk, Reached, Y!PageOf
  <2> QED BY <2>2, <2>3
<1>11. Y!Run(b).sent + 1 <= batch[b].reserve BY <1>2, <1>4, <1>5
<1> QED BY <1>1, <1>6, <1>10, <1>11, SendRequestStep

LEMMA ReadDetailsStep ==
  ASSUME Y!Assumptions, BackfillInv, NEW b \in Workers, Y!ReadDetails(b)
  PROVE  BackfillInv'
<1> USE DEF BackfillInv
<1> DEFINE p == batch[b].state.page
           next == [batch[b] EXCEPT !.pc = "store", !.todo = Y!PageOf(p)]
<1>1. /\ batch[b].pc = "details" /\ Y!Send(b)
      /\ batch' = [batch EXCEPT ![b] = next] /\ UNCHANGED <<ytClock, allowed, ytStored>>
  BY DEF Y!ReadDetails
<1>2. /\ batch[b] \in BatchRow /\ batch[b].state \in ChannelState /\ BatchOk(b) /\ p \in Nat \ {0}
  BY DEF BackfillTypes, BatchesOk, BatchRow, ChannelState
<1>3. /\ batch[b].run \in 1..Len(ytRuns) /\ batch[b].state.playlist /\ p <= PageWindow
      /\ Y!Run(b).sent + 1 <= batch[b].reserve
  BY <1>1, <1>2 DEF BatchOk, Y!Run
<1>4. Y!PageOf(p) \in SUBSET Pages
  <2>1. p \in 1..PageWindow BY <1>2, <1>3, BackfillSizes
  <2> QED BY <2>1 DEF Y!PageOf, Pages
<1>5. /\ next \in BatchRow /\ next.pc = "store" /\ next.state = batch[b].state /\ next.run = batch[b].run
      /\ next.channel = batch[b].channel /\ next.reserve = batch[b].reserve /\ next.todo = Y!PageOf(p)
  BY <1>2, <1>4 DEF BatchRow
<1> HIDE DEF next
<1>6. batch'[b] = next BY <1>1 DEF BackfillTypes
<1>7. /\ ytRuns'[batch[b].run].channel = ytRuns[batch[b].run].channel
      /\ Len(ytRuns') = Len(ytRuns) /\ Y!MaxReserve' = Y!MaxReserve
  BY <1>1, <1>3, SentGrows
<1>8. BatchOk(b)'
  BY <1>1, <1>2, <1>3, <1>5, <1>6, <1>7 DEF BatchOk, Reached, Y!PageOf
<1> QED BY <1>1, <1>3, <1>5, <1>8, SendRequestStep

LEMMA FinishStep ==
  ASSUME Y!Assumptions, BackfillInv, NEW b \in Workers, batch[b].pc \in {"read", "details", "store"},
         NEW status \in {"completed", "failed"}, NEW state \in ChannelState,
         Reached(state, batch[b].channel),
         \/ Y!Finish(b, status, state, Y!Run(b).sent) /\ UNCHANGED extra
         \/ /\ batch[b].pc # "store" /\ Y!Run(b).sent + 1 <= batch[b].reserve
            /\ Y!Finish(b, status, state, Y!Run(b).sent + 1) /\ Y!CountRequest(b),
         UNCHANGED <<ytClock, allowed, ytStored>>
  PROVE  BackfillInv'
<1> USE DEF BackfillInv
<1>1. batch[b].run \in 1..Len(ytRuns) /\ Y!Run(b).channel = batch[b].channel
  BY DEF BatchesOk, BatchOk, Y!Run
<1>2. Y!Run(b) \in RunRow BY <1>1 DEF BackfillTypes, Y!Run
<1>3. Y!Waiting \in BatchRow /\ Y!Waiting.run = 0 /\ Y!Waiting.pc = "wait" /\ Y!Waiting' = Y!Waiting
  BY DEF Y!Waiting, BatchRow, Y!FirstState, ChannelState
<1>4. batch' = [batch EXCEPT ![b] = Y!Waiting] BY DEF Y!Finish
<1>5. batch'[b] = Y!Waiting BY <1>4 DEF BackfillTypes
<1>6. BatchOk(b)' BY <1>3, <1>5 DEF BatchOk
<1>7. ASSUME NEW n \in Nat, Y!Finish(b, status, state, n)
      PROVE  \E w \in RunRow : /\ w.channel = Y!Run(b).channel /\ w.at = Y!Run(b).at /\ w.sent = n
                               /\ w.limit = n /\ w.state = state
                               /\ ytRuns' = [ytRuns EXCEPT ![batch[b].run] = w]
  <2> DEFINE w == [Y!Run(b) EXCEPT !.status = status, !.sent = n, !.limit = n, !.state = state]
  <2>1. ytRuns' = [ytRuns EXCEPT ![batch[b].run] = w] BY <1>7 DEF Y!Finish, Y!Run
  <2>2. /\ w \in RunRow /\ w.channel = Y!Run(b).channel /\ w.at = Y!Run(b).at /\ w.sent = n
        /\ w.limit = n /\ w.state = state
    BY <1>2 DEF RunRow
  <2> HIDE DEF w
  <2> QED BY <2>1, <2>2
<1>8. Y!Run(b).sent \in Nat /\ Y!Run(b).sent + 1 \in Nat BY <1>2 DEF RunRow
<1>9. CASE Y!Finish(b, status, state, Y!Run(b).sent) /\ UNCHANGED extra
  <2>1. PICK w \in RunRow : /\ w.channel = Y!Run(b).channel /\ w.at = Y!Run(b).at /\ w.sent = Y!Run(b).sent
                            /\ w.limit = Y!Run(b).sent /\ w.state = state
                            /\ ytRuns' = [ytRuns EXCEPT ![batch[b].run] = w]
    BY <1>7, <1>8, <1>9
  <2>2. Reached(w.state, w.channel) BY <2>1, <1>1
  <2> QED BY <1>3, <1>4, <1>6, <1>9, <2>1, <2>2, SaveStep
<1>10. CASE /\ batch[b].pc # "store" /\ Y!Run(b).sent + 1 <= batch[b].reserve
            /\ Y!Finish(b, status, state, Y!Run(b).sent + 1) /\ Y!CountRequest(b)
  <2>1. PICK w \in RunRow : /\ w.channel = Y!Run(b).channel /\ w.at = Y!Run(b).at /\ w.sent = Y!Run(b).sent + 1
                            /\ w.limit = Y!Run(b).sent + 1 /\ w.state = state
                            /\ ytRuns' = [ytRuns EXCEPT ![batch[b].run] = w]
    BY <1>7, <1>8, <1>10
  <2>2. Reached(w.state, w.channel) /\ w.limit \in {Y!Run(b).limit, Y!Run(b).sent + 1}
        /\ batch[b].pc \in {"read", "details"}
    BY <2>1, <1>1, <1>10
  <2> QED BY <1>3, <1>4, <1>6, <1>10, <2>1, <2>2, CountStep
<1> QED BY <1>9, <1>10

LEMMA SavePageStep ==
  ASSUME Y!Assumptions, BackfillInv, NEW b \in Workers, Y!SavePage(b)
  PROVE  BackfillInv'
<1> USE DEF BackfillInv
<1> DEFINE p == batch[b].state.page
           next(outcome) == [batch[b].state EXCEPT !.page = p + 1, !.outcome = outcome]
<1>1. PICK outcome \in {None, "reached_cutoff"} :
        /\ batch[b].pc = "store" /\ batch[b].todo = {}
        /\ p < PageWindow => outcome = None
        /\ ytRuns' = [ytRuns EXCEPT ![batch[b].run] = [Y!Run(b) EXCEPT !.limit = Y!Run(b).sent, !.state = next(outcome)]]
        /\ batch' = [batch EXCEPT ![b] = [batch[b] EXCEPT !.pc = "read", !.state = next(outcome)]]
        /\ UNCHANGED <<ytClock, allowed, ytStored, extra>>
  BY Zenon DEF Y!SavePage, Y!Run
<1> DEFINE state == next(outcome)
           c == batch[b].channel
           w == [Y!Run(b) EXCEPT !.limit = Y!Run(b).sent, !.state = state]
           reading == [batch[b] EXCEPT !.pc = "read", !.state = state]
<1>2. /\ batch[b] \in BatchRow /\ batch[b].state \in ChannelState /\ BatchOk(b) /\ p \in Nat \ {0}
  BY DEF BackfillTypes, BatchesOk, BatchRow, ChannelState
<1>3. batch[b].run \in 1..Len(ytRuns) /\ Y!Run(b).channel = c /\ c \in Channels /\ batch[b].state.playlist
  BY <1>1, <1>2 DEF BatchOk, Y!Run
<1>4. Y!Run(b) \in RunRow BY <1>3 DEF BackfillTypes, Y!Run
<1>5. /\ state \in ChannelState /\ state.page = p + 1 /\ state.outcome = outcome /\ state.playlist
  <2>1. p + 1 \in Nat \ {0} BY <1>2
  <2>2. outcome \in Y!Outcome \cup {None} BY DEF Y!Outcome
  <2> QED BY <1>2, <1>3, <2>1, <2>2 DEF ChannelState
<1>6. batch' = [batch EXCEPT ![b] = reading] /\ ytRuns' = [ytRuns EXCEPT ![batch[b].run] = w] BY <1>1
<1> HIDE DEF state, next
<1>7. Reached(state, c)
  <2>1. PageWindow \in Nat /\ None # "reached_cutoff" BY BackfillSizes DEF Y!Outcome
  <2>2. \A q \in 1..PageWindow : q < p => Y!PageOf(q) \subseteq ytStored[c]
    BY <1>1, <1>2 DEF BatchOk, Reached
  <2>3. p <= PageWindow => Y!PageOf(p) \subseteq ytStored[c] BY <1>1, <1>2 DEF BatchOk
  <2>4. ASSUME NEW q \in 1..PageWindow, q < p + 1 \/ ~(p < PageWindow) PROVE q < p \/ (q = p /\ p <= PageWindow)
    BY <2>1, <2>4, <1>2
  <2> QED BY <1>1, <1>5, <2>1, <2>2, <2>3, <2>4 DEF Reached
<1>8. /\ w \in RunRow /\ w.channel = c /\ w.at = Y!Run(b).at /\ w.sent = Y!Run(b).sent
      /\ w.limit = Y!Run(b).sent /\ w.state = state
  BY <1>3, <1>4, <1>5 DEF RunRow
<1>9. /\ reading \in BatchRow /\ reading.pc = "read" /\ reading.state = state /\ reading.channel = c
      /\ reading.run = batch[b].run /\ reading.reserve = batch[b].reserve
  BY <1>2, <1>5 DEF BatchRow
<1> HIDE DEF w, reading
<1>10. batch'[b] = reading BY <1>6 DEF BackfillTypes
<1>11. /\ \A i \in 1..Len(ytRuns) : ytRuns'[i].channel = ytRuns[i].channel
       /\ Len(ytRuns') = Len(ytRuns) /\ Y!MaxReserve' = Y!MaxReserve
  BY <1>3, <1>6, <1>8 DEF BackfillTypes, Y!MaxReserve, Y!Run
<1>12. BatchOk(b)'
  BY ZenonT(30), <1>1, <1>2, <1>3, <1>5, <1>7, <1>9, <1>10, <1>11 DEF BatchOk, Reached, Y!PageOf
<1>13. batch[b].pc \in {"read", "details", "store"} /\ Reached(w.state, w.channel) BY <1>1, <1>7, <1>8
<1> QED BY <1>1, <1>3, <1>6, <1>8, <1>9, <1>12, <1>13, SaveStep

\* An outcome that is not the cutoff says nothing of the pages.
LEMMA NotFoundReached ==
  ASSUME NEW state \in ChannelState, NEW c, Reached(state, c), state.outcome # "reached_cutoff"
  PROVE  /\ [state EXCEPT !.outcome = "not_found"] \in ChannelState
         /\ Reached([state EXCEPT !.outcome = "not_found"], c)
<1> DEFINE ended == [state EXCEPT !.outcome = "not_found"]
<1>1. ended \in ChannelState /\ ended.page = state.page /\ ended.outcome = "not_found"
  BY DEF ChannelState, Y!Outcome
<1> HIDE DEF ended
<1>2. Reached(ended, c) BY <1>1 DEF Reached
<1> QED BY <1>1, <1>2 DEF ended

LEMMA RunEndsStep ==
  ASSUME Y!Assumptions, BackfillInv, NEW b \in Workers, Y!EndRun(b) \/ Y!RequestRefused(b) \/ Y!StoreFails(b)
  PROVE  BackfillInv'
<1> USE DEF BackfillInv
<1>1. /\ batch[b].pc \in {"read", "details", "store"} /\ UNCHANGED <<ytClock, allowed, ytStored, extra>>
      /\ \E status \in {"completed", "failed"} : Y!Finish(b, status, batch[b].state, Y!Run(b).sent)
  BY DEF Y!EndRun, Y!RequestRefused, Y!StoreFails, Y!Requesting, Y!MorePages, Y!Reading, Y!AfterFailure
<1>2. batch[b].state \in ChannelState /\ Reached(batch[b].state, batch[b].channel)
  BY <1>1 DEF BackfillTypes, BatchesOk, BatchRow, BatchOk
<1> QED BY <1>1, <1>2, FinishStep

LEMMA RequestFailsStep ==
  ASSUME Y!Assumptions, BackfillInv, NEW b \in Workers, Y!RequestFails(b)
  PROVE  BackfillInv'
<1> USE DEF BackfillInv
<1>1. /\ Y!Requesting(b) /\ Y!CountRequest(b) /\ UNCHANGED <<ytClock, allowed, ytStored>>
      /\ \/ Y!Finish(b, "failed", batch[b].state, Y!Run(b).sent + 1)
         \/ Y!Finish(b, "completed", [batch[b].state EXCEPT !.outcome = "not_found"], Y!Run(b).sent + 1)
  BY DEF Y!RequestFails, Y!AfterFailure
<1>2. batch[b].pc \in {"read", "details"} BY <1>1 DEF Y!Requesting, Y!MorePages, Y!Reading
<1>3. /\ batch[b] \in BatchRow /\ batch[b].state \in ChannelState /\ BatchOk(b) /\ batch[b].reserve \in Nat
      /\ Reached(batch[b].state, batch[b].channel)
  BY <1>2 DEF BackfillTypes, BatchesOk, BatchRow, BatchOk
<1>4. /\ batch[b].run \in 1..Len(ytRuns) /\ Y!Run(b) = ytRuns[batch[b].run] /\ batch[b].reserve \in 1..Y!MaxReserve
  BY <1>2, <1>3 DEF BatchOk, Y!Run
<1>5. Y!Run(b).sent \in Nat
  <2>1. ytRuns[batch[b].run] \in RunRow BY <1>4 DEF BackfillTypes
  <2> QED BY <2>1, <1>4 DEF RunRow
<1>6. Y!Run(b).sent + 1 <= batch[b].reserve /\ batch[b].state.outcome # "reached_cutoff"
  <2>1. CASE Y!Reading(b) /\ ~batch[b].state.playlist
    <3>1. Y!Run(b).sent = 0 BY <2>1, <1>3, <1>4 DEF Y!Reading, BatchOk
    <3> QED BY <2>1, <3>1, <1>3, <1>4 DEF Y!Reading, Y!Done, Y!Outcome
  <2>2. CASE Y!MorePages(b)
    <3>1. batch[b].reserve - Y!Run(b).sent >= 2 /\ ~Y!Done(batch[b].state)
      BY <2>2 DEF Y!MorePages, Y!Reading
    <3> QED BY <3>1, <1>3, <1>5 DEF Y!Done, Y!Outcome
  <2>3. CASE batch[b].pc = "details" BY <2>3, <1>3, <1>4 DEF BatchOk
  <2> QED BY <1>1, <2>1, <2>2, <2>3 DEF Y!Requesting
<1>7. CASE Y!Finish(b, "failed", batch[b].state, Y!Run(b).sent + 1)
  BY <1>1, <1>2, <1>3, <1>6, <1>7, FinishStep
<1>8. CASE Y!Finish(b, "completed", [batch[b].state EXCEPT !.outcome = "not_found"], Y!Run(b).sent + 1)
  <2>1. PICK state : state = [batch[b].state EXCEPT !.outcome = "not_found"] OBVIOUS
  <2>2. state \in ChannelState /\ Reached(state, batch[b].channel) BY <2>1, <1>3, <1>6, NotFoundReached
  <2> QED BY <2>1, <2>2, <1>1, <1>2, <1>6, <1>8, FinishStep
<1> QED BY <1>1, <1>7, <1>8

LEMMA BackfillStays ==
  ASSUME Y!Assumptions, BackfillInv, UNCHANGED <<ytRuns, batch, ytStored, extra>>,
         ytClock' \in ytClock..BackfillTicks, allowed' \in [Channels -> BOOLEAN]
  PROVE  BackfillInv'
<1> USE DEF BackfillInv
<1>1. ytClock \in Nat /\ BackfillTicks \in Nat BY BackfillSizes DEF Y!TypeOK
<1>2. Y!TypeOK'
  <2>1. \A i \in 1..Len(ytRuns) : ytRuns[i].at \in 0..ytClock' BY <1>1 DEF Y!TypeOK
  <2>2. ytClock' \in 0..BackfillTicks BY <1>1
  <2> QED BY <2>1, <2>2 DEF Y!TypeOK, Y!Run, Y!MaxReserve
<1>3. BackfillTypes' BY DEF BackfillTypes, BackfillDays, Y!DayOf
<1>4. RunRowsOk' BY DEF RunRowsOk, Reached, Y!PageOf, Y!MaxReserve
<1>5. BatchesOk' /\ OwnRuns'
  BY
    DEF BatchesOk, BatchOk, Reached, Y!PageOf, Y!MaxReserve, OwnRuns, Y!Waiting, Y!FirstState, Y!Done, Y!Outcome
<1>6. /\ \A d : Y!ReservedOn(d)' = Y!ReservedOn(d) /\ SentOn(d)' = SentOn(d)
      /\ BackfillDays' = BackfillDays /\ RequestNumbers' = RequestNumbers
  BY DEF Y!ReservedOn, SentOn, Y!RunsOn, Y!DayOf, BackfillDays, RequestNumbers, Y!MaxReserve
<1>7. ExtraNamed' /\ SentKnown' /\ ReservedInBudget'
  BY <1>6 DEF ExtraNamed, SentKnown, ReservedInBudget
<1> QED BY <1>2, <1>3, <1>4, <1>5, <1>7

LEMMA BackfillInvStep == ASSUME Y!Assumptions, BackfillInv, [Y!Next]_Y!vars PROVE BackfillInv'
<1>1. ASSUME NEW b \in Workers, Y!BatchDies(b) PROVE BackfillInv'
  BY <1>1, RestStep DEF Y!BatchDies
<1>2. CASE Y!Tick \/ (\E c \in Channels : Y!Forbid(c)) \/ UNCHANGED Y!vars
  <2>1. ytClock \in 0..BackfillTicks /\ allowed \in [Channels -> BOOLEAN] /\ BackfillTicks \in Nat
    BY BackfillSizes DEF BackfillInv, Y!TypeOK
  <2>2. ytClock \in ytClock..BackfillTicks
    BY <2>1
  <2>3. CASE Y!Tick
    <3>1. ytClock' \in ytClock..BackfillTicks
      BY <2>1, <2>3 DEF Y!Tick
    <3> QED BY <2>1, <2>3, <3>1, BackfillStays DEF Y!Tick
  <2>4. ASSUME NEW c \in Channels, Y!Forbid(c) PROVE BackfillInv'
    <3>1. allowed' \in [Channels -> BOOLEAN]
      BY <2>1, <2>4 DEF Y!Forbid
    <3> QED BY <2>2, <2>4, <3>1, BackfillStays DEF Y!Forbid
  <2>5. CASE UNCHANGED Y!vars
    BY <2>1, <2>2, <2>5, BackfillStays DEF Y!vars
  <2> QED BY <1>2, <2>3, <2>4, <2>5
<1>3. ASSUME NEW b \in Workers, NEW v \in (1..PageWindow) \X PageVideos, Y!StoreVideo(b, v) PROVE BackfillInv'
  BY <1>3, StoreVideoStep DEF Pages
<1> QED BY <1>1, <1>2, <1>3, ClaimChannelRunStep, FindUploadsStep, ReadPageStep, ReadDetailsStep,
           SavePageStep, RunEndsStep, RequestFailsStep, SelectChannelStep, Zenon DEF Y!Next

\* What is sent of a day is reserved and within budget, or the ghost's.
LEMMA BackfillBudgetHolds == ASSUME Y!Assumptions, BackfillInv PROVE Y!WithinDailyBudget
<1> USE DEF BackfillInv
<1> SUFFICES ASSUME NEW d \in BackfillDays
             PROVE  Cardinality(SentOn(d)) <= BackfillBudget + Cardinality(extra[d])
  BY SameCounts DEF Y!WithinDailyBudget, SentOn, RequestNumbers, BackfillTypes
<1> DEFINE within == Y!ReservedOn(d) \ extra[d]
<1>1. extra[d] \subseteq (1..Len(ytRuns)) \X RequestNumbers /\ within \subseteq (1..Len(ytRuns)) \X RequestNumbers
  BY ReservedFinite DEF ExtraNamed
<1>2. /\ IsFiniteSet(extra[d]) /\ Cardinality(extra[d]) \in Nat
      /\ IsFiniteSet(within) /\ Cardinality(within) \in Nat
  BY <1>1, RowsFinite
<1>3. /\ IsFiniteSet(within \cup extra[d])
      /\ Cardinality(within \cup extra[d])
          = Cardinality(within) + Cardinality(extra[d]) - Cardinality(within \cap extra[d])
  BY <1>2, FS_Union
<1>4. Cardinality(within \cap extra[d]) = 0
  <2>1. within \cap extra[d] = {} OBVIOUS
  <2> QED BY <2>1, FS_EmptySet
<1>5. SentOn(d) \subseteq within \cup extra[d] BY DEF SentKnown
<1>6. Cardinality(within) <= BackfillBudget BY DEF ReservedInBudget
<1> HIDE DEF within
<1>7. Cardinality(SentOn(d)) <= Cardinality(within \cup extra[d]) /\ IsFiniteSet(SentOn(d))
  BY <1>3, <1>5, FS_Subset
<1>8. Cardinality(SentOn(d)) \in Nat /\ BackfillBudget \in Nat BY <1>7, FS_CardinalityType, BackfillSizes
<1> QED BY <1>2, <1>3, <1>4, <1>6, <1>7, <1>8

LEMMA VideosStoredHolds == ASSUME BackfillInv PROVE Y!VideosStored
<1> SUFFICES ASSUME NEW i \in 1..Len(ytRuns)
             PROVE  Reached(ytRuns[i].state, ytRuns[i].channel)
  BY DEF Y!VideosStored, Reached
<1> QED BY DEF BackfillInv, RunRowsOk

-----------------------------------------------------------------------------
(* FeedReading.  A run's row is written by the one worker that executes it,     *)
(* and reserves its requests until it is done; what a worker or a row carries   *)
(* to a later run leaves out only posts that are settled.                       *)

Posts == 1..MaxPost
Queue == [phase : {"discover", "sitemaps", "posts", "done"}, urls : SUBSET Posts, seen : SUBSET Posts]
FeedRow == [trigger : F!Trigger, account : F!Account, at : Nat, limit : Nat, etag : 0..MaxPost,
            state : Queue \cup {None}, sent : Nat]
Reader == [pc : {"rest", "selected", "read", "posts", "advance"}, account : F!Account \cup {None},
           trigger : F!Trigger \cup {None}, prev : Nat, state : Queue \cup {None}, run : Nat,
           todo : SUBSET Posts, robots : {"unknown", "allows", "unreachable"}]

FeedTypes ==
  /\ F!Account \in {Sites, Podcasts}
  /\ listed \in [F!Account -> Posts]
  /\ stored \in [F!Account -> SUBSET Posts] /\ given \in [F!Account -> SUBSET Posts]
  /\ runs \in Seq(FeedRow) /\ worker \in [Workers -> Reader]

Settled(a) == stored[a] \cup given[a]
QueueOk(q, a) == q \in Queue /\ q.urls \subseteq 1..listed[a] /\ q.seen \subseteq q.urls \cup Settled(a)

FeedRowOk(i) ==
  /\ runs[i].sent <= runs[i].limit /\ runs[i].limit <= FeedReserve
  /\ runs[i].trigger # "web_backfill" => 1..runs[i].etag \subseteq Settled(runs[i].account)
  /\ runs[i].trigger = "web_backfill" => QueueOk(runs[i].state, runs[i].account)

RunOf(w) ==
  /\ worker[w].run \in 1..Len(runs)
  /\ runs[worker[w].run].account = worker[w].account
  /\ runs[worker[w].run].trigger = worker[w].trigger
  /\ runs[worker[w].run].limit = FeedReserve

ReaderOk(w) ==
  /\ worker[w].pc = "rest" => worker[w] = F!Resting
  /\ worker[w].pc # "rest" => worker[w].account \in F!Account /\ worker[w].trigger \in F!Trigger
  /\ worker[w].pc = "selected" => worker[w].run = 0
  /\ worker[w].pc \in {"read", "posts", "advance"} => RunOf(w)
  /\ worker[w].pc \in {"read", "posts"} => worker[w].trigger # "web_backfill"
  /\ worker[w].pc = "read" => runs[worker[w].run].sent = 0
  /\ worker[w].pc = "advance" => worker[w].trigger = "web_backfill"
  /\ worker[w].pc # "rest" /\ worker[w].trigger # "web_backfill" =>
       /\ worker[w].prev <= MaxPost /\ worker[w].todo \subseteq 1..listed[worker[w].account]
       /\ 1..worker[w].prev \subseteq Settled(worker[w].account) \cup worker[w].todo
       /\ worker[w].pc # "posts" => worker[w].todo = {}
  /\ worker[w].pc # "rest" /\ worker[w].trigger = "web_backfill" =>
       QueueOk(worker[w].state, worker[w].account)
  /\ worker[w].pc = "selected" /\ worker[w].trigger = "web_backfill" /\ worker[w].prev # 0 =>
       worker[w].prev \in 1..Len(runs) /\ runs[worker[w].prev].trigger = "web_backfill"

FeedRowsOk == \A i \in 1..Len(runs) : FeedRowOk(i)
ReadersOk == \A w \in Workers : ReaderOk(w)
ApartRuns == \A w, v \in Workers : w # v /\ worker[w].run # 0 => worker[w].run # worker[v].run

PoolsWithin ==
  \A d \in Nat : /\ F!Limits(F!RunsOn({"web_feed", "web_backfill"}, d)) <= FeedBudget
                 /\ F!Limits(F!RunsOn({"podcast_feed"}, d)) <= FeedBudget
                 /\ \A a \in Sites : F!Limits(F!BackfillsOn(a, d)) <= SiteBudget

FeedInv == F!TypeOK /\ FeedTypes /\ FeedRowsOk /\ ReadersOk /\ ApartRuns /\ PoolsWithin

LEMMA FeedSizes ==
  ASSUME F!Assumptions
  PROVE  /\ FeedReserve \in Nat \ {0} /\ FeedBudget \in Nat \ {0} /\ SiteBudget \in Nat \ {0}
         /\ FeedInterval \in Nat \ {0} /\ SitemapInterval \in Nat \ {0} /\ FeedDay \in Nat \ {0}
         /\ MaxPost \in Nat \ {0} /\ FeedRuns \in Nat \ {0} /\ FeedTicks \in Nat \ {0}
         /\ Sites \cap Podcasts = {}
BY DEF F!Assumptions

\* A step that settles posts and unsettles none.
Grows ==
  /\ listed' \in [F!Account -> Posts]
  /\ stored' \in [F!Account -> SUBSET Posts] /\ given' \in [F!Account -> SUBSET Posts]
  /\ \A a \in F!Account : /\ listed[a] <= listed'[a]
                          /\ stored[a] \subseteq stored'[a] /\ given[a] \subseteq given'[a]
                          /\ stored'[a] \cup given'[a] \subseteq 1..listed'[a]

LEMMA NothingGrows ==
  ASSUME FeedInv, UNCHANGED <<listed, stored, given>> PROVE Grows
BY DEF FeedInv, FeedTypes, F!TypeOK, Posts, Grows

LEMMA GrowsTypes ==
  ASSUME FeedInv, Grows
  PROVE  /\ F!Account' = F!Account /\ Posts' = Posts /\ Queue' = Queue /\ FeedRow' = FeedRow /\ Reader' = Reader
         /\ \A a \in F!Account : Settled(a) \subseteq Settled(a)'
         /\ \A a \in F!Account : 1..listed[a] \subseteq (1..listed[a])'
         /\ \A a \in F!Account : \A q : QueueOk(q, a) => QueueOk(q, a)'
<1>1. F!Account' = F!Account /\ Posts' = Posts BY DEF Grows, F!Account, Posts
<1>2. Queue' = Queue BY <1>1 DEF Queue
<1>3. FeedRow' = FeedRow /\ Reader' = Reader BY <1>1, <1>2 DEF FeedRow, Reader, F!Trigger
<1>4. \A a \in F!Account : Settled(a) \subseteq Settled(a)' BY DEF Settled, Grows
<1>5. \A a \in F!Account : listed[a] \in Nat /\ listed'[a] \in Nat /\ listed[a] <= listed'[a]
  BY DEF FeedInv, FeedTypes, Grows, Posts
<1>6. \A a \in F!Account : 1..listed[a] \subseteq 1..listed'[a] BY <1>5
<1>7. \A a \in F!Account : \A q : QueueOk(q, a) => QueueOk(q, a)'
  BY <1>2, <1>4, <1>6 DEF QueueOk
<1> QED BY <1>1, <1>2, <1>3, <1>4, <1>6, <1>7

LEMMA FeedRowKept ==
  ASSUME FeedInv, Grows, NEW i \in 1..Len(runs), runs'[i] = runs[i] PROVE FeedRowOk(i)'
<1>1. runs[i] \in FeedRow /\ FeedRowOk(i) BY DEF FeedInv, FeedTypes, FeedRowsOk
<1>2. runs[i].account \in F!Account BY <1>1 DEF FeedRow
<1> QED BY <1>1, <1>2, GrowsTypes DEF FeedRowOk

\* What a step of another leaves of a worker.
LEMMA ReaderKept ==
  ASSUME FeedInv, Grows, NEW w \in Workers, worker'[w] = worker[w],
         Len(runs) <= Len(runs'), Len(runs') \in Nat,
         worker[w].run \in 1..Len(runs) =>
           /\ runs'[worker[w].run].account = runs[worker[w].run].account
           /\ runs'[worker[w].run].limit = runs[worker[w].run].limit
           /\ runs'[worker[w].run].sent = runs[worker[w].run].sent,
         \A i \in 1..Len(runs) : runs'[i].trigger = runs[i].trigger
  PROVE  ReaderOk(w)'
<1>1. ReaderOk(w) /\ Len(runs) \in Nat BY DEF FeedInv, FeedTypes, ReadersOk
<1>2. 1..Len(runs) \subseteq 1..Len(runs') BY <1>1
<1>3. RunOf(w) => RunOf(w)' BY <1>2 DEF RunOf
<1>4. worker[w].pc = "rest" => worker'[w] = F!Resting' BY <1>1 DEF ReaderOk, F!Resting
<1>5. worker[w].pc # "rest" => worker[w].account \in F!Account BY <1>1 DEF ReaderOk
<1>6. worker[w].pc = "read" => runs'[worker[w].run].sent = 0 BY <1>1 DEF ReaderOk, RunOf
<1>7. worker[w].pc # "rest" /\ worker[w].trigger # "web_backfill" =>
        /\ worker[w].prev <= MaxPost /\ worker[w].todo \subseteq (1..listed[worker[w].account])'
        /\ 1..worker[w].prev \subseteq Settled(worker[w].account)' \cup worker[w].todo
        /\ worker[w].pc # "posts" => worker[w].todo = {}
  BY <1>1, <1>5, GrowsTypes DEF ReaderOk
<1>8. worker[w].pc # "rest" /\ worker[w].trigger = "web_backfill" =>
       QueueOk(worker[w].state, worker[w].account)'
  BY <1>1, <1>5, GrowsTypes DEF ReaderOk
<1> QED BY <1>1, <1>2, <1>3, <1>4, <1>5, <1>6, <1>7, <1>8, GrowsTypes DEF ReaderOk

\* The requests that rows reserve.
Tokens(ids, rows) == {q \in ids \X (1..FeedReserve) : q[2] <= rows[q[1]].limit}

LEMMA TokensFinite ==
  ASSUME F!Assumptions, FeedTypes, NEW ids, ids \subseteq 1..Len(runs), NEW R, R \subseteq ids \X (1..FeedReserve)
  PROVE  IsFiniteSet(R) /\ Cardinality(R) \in Nat
<1>1. Len(runs) \in Nat /\ FeedReserve \in Nat BY FeedSizes DEF FeedTypes
<1>2. IsFiniteSet(1..Len(runs)) /\ IsFiniteSet(1..FeedReserve)
  <2>1. \A n \in Nat : IsFiniteSet(1..n) BY FS_Interval
  <2> QED BY <1>1, <2>1
<1>3. IsFiniteSet(ids) BY <1>2, FS_Subset
<1>4. IsFiniteSet(ids \X (1..FeedReserve)) BY <1>2, <1>3, FS_Product
<1> QED BY <1>4, FS_Subset, FS_CardinalityType

\* Runs that reserve no more than before.
LEMMA LimitsFall ==
  ASSUME F!Assumptions, FeedTypes, NEW ids, ids \subseteq 1..Len(runs),
         \A i \in ids : runs'[i].limit \in Nat /\ runs'[i].limit <= runs[i].limit
  PROVE  Cardinality(Tokens(ids, runs'))
           <= Cardinality(Tokens(ids, runs))
<1> DEFINE before == Tokens(ids, runs)
           after == Tokens(ids, runs')
<1>1. \A i \in ids : runs[i] \in FeedRow BY DEF FeedTypes
<1>2. \A i \in ids : runs[i].limit \in Nat BY <1>1 DEF FeedRow
<1>3. after \subseteq before
  <2>1. ASSUME NEW q \in ids \X (1..FeedReserve), q[2] <= runs'[q[1]].limit PROVE q[2] <= runs[q[1]].limit
    <3>1. q[1] \in ids /\ q[2] \in 1..FeedReserve /\ FeedReserve \in Nat BY FeedSizes
    <3>2. runs'[q[1]].limit \in Nat /\ runs'[q[1]].limit <= runs[q[1]].limit /\ runs[q[1]].limit \in Nat
      BY <1>2, <3>1
    <3>3. q[2] \in Nat BY <3>1
    <3> QED BY <2>1, <3>2, <3>3
  <2> QED BY <2>1 DEF Tokens
<1>4. before \subseteq ids \X (1..FeedReserve) BY DEF Tokens
<1> HIDE DEF before, after
<1>5. IsFiniteSet(before) BY <1>4, TokensFinite
<1>6. Cardinality(after) <= Cardinality(before) BY <1>3, <1>5, FS_Subset
<1> QED BY <1>6 DEF before, after

\* One run more, which reserves as many requests as a run may send.
LEMMA LimitsRise ==
  ASSUME F!Assumptions, FeedTypes, NEW ids, ids \subseteq 1..Len(runs), NEW k,
         \A i \in ids : runs'[i].limit = runs[i].limit
  PROVE  Cardinality(Tokens(ids \cup {k}, runs'))
           <= Cardinality(Tokens(ids, runs)) + FeedReserve
<1> DEFINE before == Tokens(ids, runs)
           after == Tokens(ids \cup {k}, runs')
           added == {k} \X (1..FeedReserve)
<1>1. after \subseteq before \cup added BY DEF Tokens
<1>2. before \subseteq ids \X (1..FeedReserve) BY DEF Tokens
<1>3. FeedReserve \in Nat /\ IsFiniteSet(1..FeedReserve) /\ Cardinality(1..FeedReserve) = FeedReserve
  <2>1. \A n \in Nat : IsFiniteSet(1..n) /\ Cardinality(1..n) = n BY FS_Interval
  <2> QED BY <2>1, FeedSizes
<1>4. IsFiniteSet({k}) /\ Cardinality({k}) = 1 BY FS_Singleton
<1>5. IsFiniteSet(added) /\ Cardinality(added) = FeedReserve
  <2>1. Cardinality(added) = Cardinality({k}) * Cardinality(1..FeedReserve) /\ IsFiniteSet(added)
    BY <1>3, <1>4, FS_Product
  <2> HIDE DEF added
  <2> QED BY <2>1, <1>3, <1>4
<1> HIDE DEF before, after, added
<1>6. IsFiniteSet(before) /\ Cardinality(before) \in Nat BY <1>2, TokensFinite
<1>7. /\ IsFiniteSet(before \cup added)
      /\ Cardinality(before \cup added) = Cardinality(before) + Cardinality(added) - Cardinality(before \cap added)
  BY <1>5, <1>6, FS_Union
<1>8. Cardinality(before \cap added) \in Nat
  BY <1>6, FS_Subset, FS_CardinalityType
<1>9. /\ Cardinality(after) <= Cardinality(before \cup added)
      /\ Cardinality(after) \in Nat
  BY <1>1, <1>7, FS_Subset, FS_CardinalityType
<1>10. Cardinality(after) <= Cardinality(before) + FeedReserve BY <1>3, <1>5, <1>6, <1>7, <1>8, <1>9
<1> QED BY <1>10 DEF before, after

LEMMA PoolsKept ==
  ASSUME F!Assumptions, FeedInv, Len(runs') = Len(runs),
         \A i \in 1..Len(runs) : /\ runs'[i].trigger = runs[i].trigger /\ runs'[i].account = runs[i].account
                                 /\ runs'[i].at = runs[i].at
                                 /\ runs'[i].limit \in Nat /\ runs'[i].limit <= runs[i].limit
  PROVE  PoolsWithin'
<1> USE DEF FeedInv
<1>1. ASSUME NEW triggers, NEW d
      PROVE  /\ F!RunsOn(triggers, d)' = F!RunsOn(triggers, d) /\ F!RunsOn(triggers, d) \subseteq 1..Len(runs)
             /\ \A a : F!BackfillsOn(a, d)' = F!BackfillsOn(a, d) /\ F!BackfillsOn(a, d) \subseteq 1..Len(runs)
  BY DEF F!RunsOn, F!BackfillsOn
<1>2. ASSUME NEW ids, ids \subseteq 1..Len(runs)
      PROVE  /\ Cardinality(Tokens(ids, runs')) <= Cardinality(Tokens(ids, runs))
             /\ Cardinality(Tokens(ids, runs')) \in Nat /\ Cardinality(Tokens(ids, runs)) \in Nat
  <2>1. \A i \in ids : runs'[i].limit \in Nat /\ runs'[i].limit <= runs[i].limit BY <1>2
  <2>2. Tokens(ids, runs') \subseteq ids \X (1..FeedReserve) /\ Tokens(ids, runs) \subseteq ids \X (1..FeedReserve)
    BY DEF Tokens
  <2> QED BY <1>2, <2>1, <2>2, LimitsFall, TokensFinite
<1> SUFFICES ASSUME NEW d \in Nat
             PROVE  /\ F!Limits(F!RunsOn({"web_feed", "web_backfill"}, d))' <= FeedBudget
                    /\ F!Limits(F!RunsOn({"podcast_feed"}, d))' <= FeedBudget
                    /\ \A a \in Sites : F!Limits(F!BackfillsOn(a, d))' <= SiteBudget
  BY DEF PoolsWithin
<1>3. FeedBudget \in Nat /\ SiteBudget \in Nat BY FeedSizes
<1>4. ASSUME NEW triggers, NEW most \in Nat, F!Limits(F!RunsOn(triggers, d)) <= most
      PROVE  F!Limits(F!RunsOn(triggers, d))' <= most
  <2>1. /\ F!Limits(F!RunsOn(triggers, d))' = Cardinality(Tokens(F!RunsOn(triggers, d), runs'))
        /\ F!Limits(F!RunsOn(triggers, d)) = Cardinality(Tokens(F!RunsOn(triggers, d), runs))
    BY <1>1, SameCounts DEF F!Limits, Tokens
  <2> QED BY <2>1, <1>1, <1>2, <1>4
<1>5. ASSUME NEW a \in Sites, F!Limits(F!BackfillsOn(a, d)) <= SiteBudget
      PROVE  F!Limits(F!BackfillsOn(a, d))' <= SiteBudget
  <2>1. /\ F!Limits(F!BackfillsOn(a, d))' = Cardinality(Tokens(F!BackfillsOn(a, d), runs'))
        /\ F!Limits(F!BackfillsOn(a, d)) = Cardinality(Tokens(F!BackfillsOn(a, d), runs))
    BY <1>1, SameCounts DEF F!Limits, Tokens
  <2>2. F!BackfillsOn(a, d) \subseteq 1..Len(runs) BY <1>1
  <2>3. /\ Cardinality(Tokens(F!BackfillsOn(a, d), runs')) <= Cardinality(Tokens(F!BackfillsOn(a, d), runs))
        /\ Cardinality(Tokens(F!BackfillsOn(a, d), runs')) \in Nat
        /\ Cardinality(Tokens(F!BackfillsOn(a, d), runs)) \in Nat
    BY <1>2, <2>2
  <2> QED BY <2>1, <2>3, <1>3, <1>5
<1> QED BY <1>3, <1>4, <1>5 DEF PoolsWithin

\* A step of one worker that writes no row.
LEMMA ReaderMoves ==
  ASSUME F!Assumptions, FeedInv, Grows, NEW w \in Workers, NEW next \in Reader,
         worker' = [worker EXCEPT ![w] = next], UNCHANGED <<feedClock, runs>>,
         next.run \in {0, worker[w].run}, ReaderOk(w)'
  PROVE  FeedInv'
<1> USE DEF FeedInv
<1>1. Len(runs) \in Nat BY DEF FeedTypes
<1>2. worker'[w] = next /\ \A v \in Workers \ {w} : worker'[v] = worker[v] BY DEF FeedTypes
<1>3. FeedTypes' BY GrowsTypes DEF FeedTypes, Grows
<1>4. FeedRowsOk' BY FeedRowKept DEF FeedRowsOk
<1>5. ReadersOk'
  <2>1. ASSUME NEW v \in Workers \ {w} PROVE ReaderOk(v)' BY <1>1, <1>2, ReaderKept
  <2> QED BY <2>1 DEF ReadersOk
<1>6. ApartRuns' BY <1>2 DEF ApartRuns
<1>7. PoolsWithin'
  <2>1. \A i \in 1..Len(runs) : runs[i] \in FeedRow BY DEF FeedTypes
  <2>2. \A i \in 1..Len(runs) : runs[i].limit \in Nat /\ runs[i].limit <= runs[i].limit BY <2>1 DEF FeedRow
  <2> QED BY <2>2, PoolsKept
<1>8. F!TypeOK'
  <2>1. \A v \in Workers : /\ worker'[v].pc \in {"rest", "selected", "read", "posts", "advance"}
                           /\ worker'[v].run \in 0..Len(runs)
    <3>1. ASSUME NEW v \in Workers, v # w
          PROVE  worker'[v].pc = worker[v].pc /\ worker'[v].run = worker[v].run
      BY <1>2, <3>1
    <3> QED BY <1>1, <1>2, <3>1 DEF F!TypeOK, Reader
  <2>2. feedClock' \in 0..FeedTicks BY DEF F!TypeOK
  <2>3. \A a \in F!Account' : listed'[a] \in 1..MaxPost /\ stored'[a] \cup given'[a] \subseteq 1..listed'[a]
    BY GrowsTypes DEF Grows, Posts
  <2>4. \A i \in 1..Len(runs) : /\ runs[i].trigger \in F!Trigger /\ runs[i].account \in F!Account'
                                /\ runs[i].sent <= FeedReserve /\ runs[i].limit <= FeedReserve
                                /\ runs[i].etag \in 0..MaxPost
    BY GrowsTypes DEF F!TypeOK
  <2> QED BY <2>1, <2>2, <2>3, <2>4 DEF F!TypeOK, F!Trigger
<1> QED BY <1>3, <1>4, <1>5, <1>6, <1>7, <1>8

\* A worker writes the row of its run.
LEMMA FeedRowWritten ==
  ASSUME F!Assumptions, FeedInv, Grows, NEW w \in Workers, NEW r, r = worker[w].run, r \in 1..Len(runs),
         NEW entry \in FeedRow, runs' = [runs EXCEPT ![r] = entry],
         entry.trigger = runs[r].trigger, entry.account = runs[r].account, entry.at = runs[r].at,
         entry.limit <= runs[r].limit,
         NEW next \in Reader, worker' = [worker EXCEPT ![w] = next], UNCHANGED feedClock,
         next.run \in {0, r}, FeedRowOk(r)', ReaderOk(w)'
  PROVE  FeedInv'
<1> USE DEF FeedInv
<1>1. Len(runs) \in Nat /\ r \in Nat \ {0} /\ runs[r] \in FeedRow BY DEF FeedTypes
<1>2. worker'[w] = next /\ \A v \in Workers \ {w} : worker'[v] = worker[v] BY DEF FeedTypes
<1>3. /\ runs' \in Seq(FeedRow) /\ Len(runs') = Len(runs) /\ runs'[r] = entry
      /\ \A i \in 1..Len(runs) : i # r => runs'[i] = runs[i]
  BY DEF FeedTypes
<1>4. FeedTypes' BY <1>3, GrowsTypes DEF FeedTypes, Grows
<1>5. FeedRowsOk'
  <2>1. ASSUME NEW i \in 1..Len(runs), i # r PROVE FeedRowOk(i)' BY <1>3, <2>1, FeedRowKept
  <2> QED BY <1>3, <2>1 DEF FeedRowsOk
<1>6. \A i \in 1..Len(runs) : /\ runs'[i].trigger = runs[i].trigger /\ runs'[i].account = runs[i].account
                              /\ runs'[i].at = runs[i].at
                              /\ runs'[i].limit \in Nat /\ runs'[i].limit <= runs[i].limit
  <2> SUFFICES ASSUME NEW i \in 1..Len(runs)
               PROVE  /\ runs'[i].trigger = runs[i].trigger /\ runs'[i].account = runs[i].account
                      /\ runs'[i].at = runs[i].at
                      /\ runs'[i].limit \in Nat /\ runs'[i].limit <= runs[i].limit
    OBVIOUS
  <2>1. CASE i = r BY <2>1, <1>3 DEF FeedRow
  <2>2. CASE i # r
    <3>1. runs[i] \in FeedRow BY DEF FeedTypes
    <3> QED BY <3>1, <2>2, <1>3 DEF FeedRow
  <2> QED BY <2>1, <2>2
<1>7. ReadersOk'
  <2>1. ASSUME NEW v \in Workers \ {w} PROVE ReaderOk(v)'
    <3>1. worker[v].run # r BY <1>1 DEF ApartRuns
    <3>2. worker[v].run \in 1..Len(runs) => runs'[worker[v].run] = runs[worker[v].run] BY <3>1, <1>3
    <3> QED BY SMTT(20), <1>1, <1>2, <1>3, <1>6, <3>2, ReaderKept
  <2> QED BY <2>1 DEF ReadersOk
<1>8. ApartRuns' BY <1>1, <1>2 DEF ApartRuns
<1>9. PoolsWithin' BY <1>3, <1>6, PoolsKept
<1>10. F!TypeOK'
  <2>1. \A v \in Workers : /\ worker'[v].pc \in {"rest", "selected", "read", "posts", "advance"}
                           /\ worker'[v].run \in 0..Len(runs)
    <3>1. ASSUME NEW v \in Workers, v # w
          PROVE  worker'[v].pc = worker[v].pc /\ worker'[v].run = worker[v].run
      BY <1>2, <3>1
    <3> QED BY <1>1, <1>2, <3>1 DEF F!TypeOK, Reader
  <2>2. feedClock' \in 0..FeedTicks BY DEF F!TypeOK
  <2>3. \A a \in F!Account' : listed'[a] \in 1..MaxPost /\ stored'[a] \cup given'[a] \subseteq 1..listed'[a]
    BY GrowsTypes DEF Grows, Posts
  <2>4. \A i \in 1..Len(runs') : /\ runs'[i].trigger \in F!Trigger /\ runs'[i].account \in F!Account'
                                 /\ runs'[i].sent <= FeedReserve /\ runs'[i].limit <= FeedReserve
                                 /\ runs'[i].etag \in 0..MaxPost
    <3> SUFFICES ASSUME NEW i \in 1..Len(runs')
                 PROVE  /\ runs'[i].trigger \in F!Trigger /\ runs'[i].account \in F!Account'
                        /\ runs'[i].sent <= FeedReserve /\ runs'[i].limit <= FeedReserve
                        /\ runs'[i].etag \in 0..MaxPost
      OBVIOUS
    <3>1. runs'[i] \in FeedRow' BY <1>4 DEF FeedTypes
    <3>2. runs'[i].sent <= runs'[i].limit /\ runs'[i].limit <= FeedReserve BY <1>5 DEF FeedRowsOk, FeedRowOk
    <3>3. runs'[i].sent \in Nat /\ runs'[i].limit \in Nat BY <3>1 DEF FeedRow
    <3>4. FeedReserve \in Nat BY FeedSizes
    <3>5. runs'[i].sent <= FeedReserve BY <3>2, <3>3, <3>4
    <3> QED BY <3>1, <3>2, <3>5 DEF FeedRow
  <2> QED BY <1>3, <2>1, <2>2, <2>3, <2>4 DEF F!TypeOK, F!Trigger
<1> QED BY <1>4, <1>5, <1>7, <1>8, <1>9, <1>10

\* A claim appends a row that reserves the most a run may send.
LEMMA PoolsFilled ==
  ASSUME F!Assumptions, FeedInv, NEW entry, entry.at = feedClock, entry.limit = FeedReserve,
         Len(runs') = Len(runs) + 1, runs'[Len(runs) + 1] = entry,
         \A i \in 1..Len(runs) : /\ runs'[i].trigger = runs[i].trigger /\ runs'[i].account = runs[i].account
                                 /\ runs'[i].at = runs[i].at /\ runs'[i].limit = runs[i].limit,
         entry.trigger \in {"web_feed", "web_backfill"} =>
           F!Limits(F!RunsOn({"web_feed", "web_backfill"}, F!Today)) + FeedReserve <= FeedBudget,
         entry.trigger = "podcast_feed" => F!Limits(F!RunsOn({"podcast_feed"}, F!Today)) + FeedReserve <= FeedBudget,
         entry.trigger = "web_backfill" => F!Limits(F!BackfillsOn(entry.account, F!Today)) + FeedReserve <= SiteBudget
  PROVE  PoolsWithin'
<1> USE DEF FeedInv
<1> DEFINE n == Len(runs) + 1
<1>1. Len(runs) \in Nat /\ 1..Len(runs') = 1..Len(runs) \cup {n} /\ n \notin 1..Len(runs) BY DEF FeedTypes
<1> SUFFICES ASSUME NEW d \in Nat
             PROVE  /\ F!Limits(F!RunsOn({"web_feed", "web_backfill"}, d))' <= FeedBudget
                    /\ F!Limits(F!RunsOn({"podcast_feed"}, d))' <= FeedBudget
                    /\ \A a \in Sites : F!Limits(F!BackfillsOn(a, d))' <= SiteBudget
  BY DEF PoolsWithin
<1>2. ASSUME NEW triggers
      PROVE  /\ entry.trigger \in triggers /\ F!Today = d =>
                  F!RunsOn(triggers, d)' = F!RunsOn(triggers, d) \cup {n}
             /\ ~(entry.trigger \in triggers /\ F!Today = d) => F!RunsOn(triggers, d)' = F!RunsOn(triggers, d)
             /\ F!RunsOn(triggers, d) \subseteq 1..Len(runs)
  <2>1. n \in F!RunsOn(triggers, d)' <=> entry.trigger \in triggers /\ F!Today = d
    BY <1>1 DEF F!RunsOn, F!Today
  <2>2. \A i \in 1..Len(runs) : i \in F!RunsOn(triggers, d)' <=> i \in F!RunsOn(triggers, d)
    BY <1>1 DEF F!RunsOn
  <2>3. F!RunsOn(triggers, d)' \subseteq 1..Len(runs) \cup {n} /\ F!RunsOn(triggers, d) \subseteq 1..Len(runs)
    BY <1>1 DEF F!RunsOn
  <2>4. PICK old, new : old = F!RunsOn(triggers, d) /\ new = F!RunsOn(triggers, d)' OBVIOUS
  <2>5. /\ n \in new <=> entry.trigger \in triggers /\ F!Today = d
        /\ \A i \in 1..Len(runs) : i \in new <=> i \in old
        /\ new \subseteq 1..Len(runs) \cup {n} /\ old \subseteq 1..Len(runs)
    BY <2>1, <2>2, <2>3, <2>4
  <2>6. entry.trigger \in triggers /\ F!Today = d => new = old \cup {n} BY <2>5
  <2>7. ~(entry.trigger \in triggers /\ F!Today = d) => new = old BY <2>5
  <2> QED BY <2>4, <2>5, <2>6, <2>7
<1>3. ASSUME NEW a
      PROVE  /\ entry.trigger = "web_backfill" /\ F!Today = d /\ entry.account = a =>
                  F!BackfillsOn(a, d)' = F!BackfillsOn(a, d) \cup {n}
             /\ ~(entry.trigger = "web_backfill" /\ F!Today = d /\ entry.account = a) =>
                  F!BackfillsOn(a, d)' = F!BackfillsOn(a, d)
             /\ F!BackfillsOn(a, d) \subseteq 1..Len(runs)
  <2>1. entry.trigger \in {"web_backfill"} <=> entry.trigger = "web_backfill" OBVIOUS
  <2>2. /\ F!RunsOn({"web_backfill"}, d) \subseteq 1..Len(runs)
        /\ entry.trigger = "web_backfill" /\ F!Today = d =>
             F!RunsOn({"web_backfill"}, d)' = F!RunsOn({"web_backfill"}, d) \cup {n}
        /\ ~(entry.trigger = "web_backfill" /\ F!Today = d) =>
             F!RunsOn({"web_backfill"}, d)' = F!RunsOn({"web_backfill"}, d)
    BY <1>2, <2>1
  <2>3. F!BackfillsOn(a, d)' = {i \in F!RunsOn({"web_backfill"}, d)' : runs'[i].account = a}
    BY DEF F!BackfillsOn
  <2>4. F!BackfillsOn(a, d) = {i \in F!RunsOn({"web_backfill"}, d) : runs[i].account = a}
    BY DEF F!BackfillsOn
  <2>5. \A i \in F!RunsOn({"web_backfill"}, d) : runs'[i].account = runs[i].account BY <2>2
  <2> QED BY <2>2, <2>3, <2>4, <2>5
<1>4. ASSUME NEW ids, ids \subseteq 1..Len(runs), NEW most \in Nat, Cardinality(Tokens(ids, runs)) <= most
      PROVE  /\ Cardinality(Tokens(ids, runs')) <= most
             /\ Cardinality(Tokens(ids, runs)) + FeedReserve <= most =>
                  Cardinality(Tokens(ids \cup {n}, runs')) <= most
  <2>1. Tokens(ids, runs') = Tokens(ids, runs) BY <1>4 DEF Tokens
  <2>2. Tokens(ids, runs) \subseteq ids \X (1..FeedReserve) BY DEF Tokens
  <2>3. Cardinality(Tokens(ids, runs)) \in Nat /\ FeedReserve \in Nat BY <1>4, <2>2, TokensFinite, FeedSizes
  <2>4. Cardinality(Tokens(ids \cup {n}, runs')) <= Cardinality(Tokens(ids, runs)) + FeedReserve
    BY <1>4, LimitsRise
  <2>5. Tokens(ids \cup {n}, runs') \subseteq (ids \cup {n}) \X (1..FeedReserve) BY DEF Tokens
  <2>6. Cardinality(Tokens(ids \cup {n}, runs')) \in Nat
    <3>1. \A m \in Nat : IsFiniteSet(1..m) BY FS_Interval
    <3>2. IsFiniteSet(1..Len(runs)) /\ IsFiniteSet(1..FeedReserve) BY <3>1, <1>1, <2>3
    <3>3. IsFiniteSet(ids \cup {n}) BY <3>2, <1>4, FS_Subset, FS_AddElement
    <3>4. IsFiniteSet((ids \cup {n}) \X (1..FeedReserve)) BY <3>2, <3>3, FS_Product
    <3> QED BY <3>4, <2>5, FS_Subset, FS_CardinalityType
  <2> QED BY <2>1, <2>3, <2>4, <2>6, <1>4
<1>5. FeedBudget \in Nat /\ SiteBudget \in Nat BY FeedSizes
<1>6. ASSUME NEW triggers, F!Limits(F!RunsOn(triggers, d)) <= FeedBudget,
             entry.trigger \in triggers => F!Limits(F!RunsOn(triggers, F!Today)) + FeedReserve <= FeedBudget
      PROVE  F!Limits(F!RunsOn(triggers, d))' <= FeedBudget
  <2>1. /\ F!Limits(F!RunsOn(triggers, d)) = Cardinality(Tokens(F!RunsOn(triggers, d), runs))
        /\ F!Limits(F!RunsOn(triggers, d))' = Cardinality(Tokens(F!RunsOn(triggers, d)', runs'))
    BY SameCounts DEF F!Limits, Tokens
  <2>2. F!RunsOn(triggers, d) \subseteq 1..Len(runs) BY <1>2
  <2>3. /\ Cardinality(Tokens(F!RunsOn(triggers, d), runs')) <= FeedBudget
        /\ F!Limits(F!RunsOn(triggers, d)) + FeedReserve <= FeedBudget =>
             Cardinality(Tokens(F!RunsOn(triggers, d) \cup {n}, runs')) <= FeedBudget
    BY <1>4, <1>5, <1>6, <2>1, <2>2
  <2>4. CASE entry.trigger \in triggers /\ F!Today = d
    <3>1. F!RunsOn(triggers, d)' = F!RunsOn(triggers, d) \cup {n} BY <1>2, <2>4
    <3>2. F!Limits(F!RunsOn(triggers, d)) + FeedReserve <= FeedBudget BY <1>6, <2>4
    <3> QED BY <3>1, <3>2, <2>1, <2>3
  <2>5. CASE ~(entry.trigger \in triggers /\ F!Today = d)
    <3>1. F!RunsOn(triggers, d)' = F!RunsOn(triggers, d) BY <1>2, <2>5
    <3> QED BY <3>1, <2>1, <2>3
  <2> QED BY <2>4, <2>5
<1>7. ASSUME NEW a \in Sites, F!Limits(F!BackfillsOn(a, d)) <= SiteBudget
      PROVE  F!Limits(F!BackfillsOn(a, d))' <= SiteBudget
  <2>1. /\ F!Limits(F!BackfillsOn(a, d)) = Cardinality(Tokens(F!BackfillsOn(a, d), runs))
        /\ F!Limits(F!BackfillsOn(a, d))' = Cardinality(Tokens(F!BackfillsOn(a, d)', runs'))
    BY SameCounts DEF F!Limits, Tokens
  <2>2. F!BackfillsOn(a, d) \subseteq 1..Len(runs) BY <1>3
  <2>3. /\ Cardinality(Tokens(F!BackfillsOn(a, d), runs')) <= SiteBudget
        /\ F!Limits(F!BackfillsOn(a, d)) + FeedReserve <= SiteBudget =>
             Cardinality(Tokens(F!BackfillsOn(a, d) \cup {n}, runs')) <= SiteBudget
    BY <1>4, <1>5, <1>7, <2>1, <2>2
  <2>4. CASE entry.trigger = "web_backfill" /\ F!Today = d /\ entry.account = a
    <3>1. F!BackfillsOn(a, d)' = F!BackfillsOn(a, d) \cup {n} BY <1>3, <2>4
    <3>2. F!Limits(F!BackfillsOn(a, d)) + FeedReserve <= SiteBudget BY <2>4
    <3> QED BY <3>1, <3>2, <2>1, <2>3
  <2>5. CASE ~(entry.trigger = "web_backfill" /\ F!Today = d /\ entry.account = a)
    <3>1. F!BackfillsOn(a, d)' = F!BackfillsOn(a, d) BY <1>3, <2>5
    <3> QED BY <3>1, <2>1, <2>3
  <2> QED BY <2>4, <2>5
<1> QED BY <1>6, <1>7 DEF PoolsWithin

LEMMA RunStarts ==
  ASSUME F!Assumptions, FeedInv, NEW w \in Workers, worker[w].pc = "selected",
         UNCHANGED <<feedClock, listed, stored, given>>,
         NEW rows \in Seq(FeedRow), Len(rows) = Len(runs),
         \A i \in 1..Len(runs) :
           /\ rows[i].trigger = runs[i].trigger /\ rows[i].account = runs[i].account
           /\ rows[i].at = runs[i].at /\ rows[i].limit = runs[i].limit
           /\ rows[i].sent = runs[i].sent /\ rows[i].etag = runs[i].etag
           /\ rows[i].trigger = "web_backfill" => QueueOk(rows[i].state, rows[i].account),
         NEW pc, pc = IF worker[w].trigger = "web_backfill" THEN "advance" ELSE "read",
         F!Start(w, rows, pc),
         worker[w].trigger \in {"web_feed", "web_backfill"} =>
           F!Limits(F!RunsOn({"web_feed", "web_backfill"}, F!Today)) + FeedReserve <= FeedBudget,
         worker[w].trigger = "podcast_feed" => F!Limits(F!RunsOn({"podcast_feed"}, F!Today)) + FeedReserve <= FeedBudget,
         worker[w].trigger = "web_backfill" => F!Limits(F!BackfillsOn(worker[w].account, F!Today)) + FeedReserve <= SiteBudget
  PROVE  FeedInv'
<1> USE DEF FeedInv
<1> DEFINE n == Len(runs) + 1
           entry == [trigger |-> worker[w].trigger, account |-> worker[w].account, at |-> feedClock,
                     limit |-> FeedReserve, etag |-> 0, state |-> worker[w].state, sent |-> 0]
           next == [worker[w] EXCEPT !.pc = pc, !.run = n]
<1>1. Len(runs) \in Nat /\ FeedReserve \in Nat /\ feedClock \in Nat /\ MaxPost \in Nat
  BY FeedSizes DEF FeedTypes, F!TypeOK
<1>2. worker[w] \in Reader /\ ReaderOk(w) BY DEF FeedTypes, ReadersOk
<1>3. worker[w].account \in F!Account /\ worker[w].trigger \in F!Trigger BY <1>2 DEF ReaderOk
<1>4. entry \in FeedRow BY <1>1, <1>2, <1>3 DEF FeedRow, Reader
<1>5. /\ entry.trigger = worker[w].trigger /\ entry.account = worker[w].account /\ entry.at = feedClock
      /\ entry.limit = FeedReserve /\ entry.etag = 0 /\ entry.state = worker[w].state /\ entry.sent = 0
  OBVIOUS
<1>6. runs' = Append(rows, entry) /\ worker' = [worker EXCEPT ![w].pc = pc, ![w].run = n] BY DEF F!Start
<1>7. next \in Reader
  <2>1. pc \in {"rest", "selected", "read", "posts", "advance"} /\ n \in Nat BY <1>1
  <2> QED BY <1>2, <2>1 DEF Reader
<1>8. /\ next.pc = pc /\ next.run = n /\ next.account = worker[w].account /\ next.trigger = worker[w].trigger
      /\ next.prev = worker[w].prev /\ next.state = worker[w].state /\ next.todo = worker[w].todo
  BY <1>2 DEF Reader
<1>9. worker' = [worker EXCEPT ![w] = next] BY <1>6 DEF FeedTypes
<1> HIDE DEF next, entry
<1>10. worker'[w] = next /\ \A v \in Workers \ {w} : worker'[v] = worker[v] BY <1>9 DEF FeedTypes
<1>11. /\ runs' \in Seq(FeedRow) /\ Len(runs') = n /\ runs'[n] = entry
       /\ \A i \in 1..Len(runs) : runs'[i] = rows[i]
  BY <1>1, <1>4, <1>6
<1>12. Grows BY NothingGrows
<1>13. FeedTypes' BY <1>7, <1>9, <1>11, <1>12, GrowsTypes DEF FeedTypes, Grows
<1>14. FeedRowsOk'
  <2>1. ASSUME NEW i \in 1..Len(runs) PROVE FeedRowOk(i)'
    <3>1. runs[i] \in FeedRow /\ FeedRowOk(i) BY DEF FeedTypes, FeedRowsOk
    <3>2. runs[i].account \in F!Account BY <3>1 DEF FeedRow
    <3>3. PICK a, q : a \in F!Account /\ a = runs[i].account /\ q = rows[i].state BY <3>2
    <3>4. Settled(a)' = Settled(a) BY DEF Settled
    <3>5. rows[i].trigger = "web_backfill" => QueueOk(q, a)'
      BY <3>3, <1>12, GrowsTypes
    <3>6. runs'[i] = rows[i] BY <1>11
    <3>7. /\ rows[i].trigger = runs[i].trigger /\ rows[i].account = a
          /\ rows[i].limit = runs[i].limit /\ rows[i].sent = runs[i].sent /\ rows[i].etag = runs[i].etag
      BY <3>3
    <3>8. runs[i].trigger # "web_backfill" => 1..runs[i].etag \subseteq Settled(a)'
      BY <3>1, <3>3, <3>4 DEF FeedRowOk
    <3>9. runs[i].sent <= runs[i].limit /\ runs[i].limit <= FeedReserve BY <3>1 DEF FeedRowOk
    <3> QED BY <3>3, <3>5, <3>6, <3>7, <3>8, <3>9 DEF FeedRowOk
  <2>2. ASSUME NEW k, k = n PROVE FeedRowOk(k)'
    <3>1. PICK a, q : a \in F!Account /\ a = worker[w].account /\ q = worker[w].state BY <1>3
    <3>2. worker[w].trigger = "web_backfill" => QueueOk(q, a)'
      BY <3>1, <1>2, <1>12, GrowsTypes DEF ReaderOk
    <3>3. 1..0 = {} OBVIOUS
    <3>4. runs'[k] = entry BY <1>11, <2>2
    <3> QED BY <3>1, <3>2, <3>3, <3>4, <1>1, <1>5 DEF FeedRowOk
  <2>3. 1..Len(runs') = 1..Len(runs) \cup {n} BY <1>1, <1>11
  <2> QED BY <2>1, <2>2, <2>3 DEF FeedRowsOk
<1>15. ReadersOk'
  <2>1. ASSUME NEW v \in Workers \ {w} PROVE ReaderOk(v)'
    <3>1. \A i \in 1..Len(runs) : /\ runs'[i].trigger = runs[i].trigger /\ runs'[i].account = runs[i].account
                                  /\ runs'[i].limit = runs[i].limit /\ runs'[i].sent = runs[i].sent
      BY <1>11
    <3> QED BY <3>1, <1>1, <1>10, <1>11, <1>12, ReaderKept
  <2>2. ReaderOk(w)'
    <3>1. RunOf(w)' BY <1>1, <1>5, <1>8, <1>10, <1>11 DEF RunOf
    <3>2. PICK a, q : a \in F!Account /\ a = worker[w].account /\ q = worker[w].state BY <1>3
    <3>3. worker[w].trigger # "web_backfill" =>
            /\ worker[w].prev <= MaxPost /\ worker[w].todo \subseteq (1..listed[a])'
            /\ 1..worker[w].prev \subseteq Settled(a)' \cup worker[w].todo
            /\ worker[w].todo = {}
      BY <3>2, <1>2, <1>12, GrowsTypes DEF ReaderOk
    <3>4. worker[w].trigger = "web_backfill" => QueueOk(q, a)'
      BY <3>2, <1>2, <1>12, GrowsTypes DEF ReaderOk
    <3>5. worker'[w].run = n /\ runs'[n].sent = 0 BY <1>5, <1>8, <1>10, <1>11
    <3>6. worker'[w].pc = pc /\ pc \in {"read", "advance"} /\ (pc = "advance" <=> worker[w].trigger = "web_backfill")
      BY <1>8, <1>10
    <3>7. /\ worker'[w].account = worker[w].account /\ worker'[w].trigger = worker[w].trigger
          /\ worker'[w].prev = worker[w].prev /\ worker'[w].state = worker[w].state
          /\ worker'[w].todo = worker[w].todo
      BY <1>8, <1>10
    <3>8. worker[w].account \in F!Account' BY <1>3, <1>12, GrowsTypes
    <3> QED BY <1>3, <3>2, <3>1, <3>3, <3>4, <3>5, <3>6, <3>7, <3>8 DEF ReaderOk, F!Trigger
  <2> QED BY <2>1, <2>2 DEF ReadersOk
<1>16. ApartRuns'
  <2>1. \A v \in Workers : worker[v].run # n BY <1>1 DEF F!TypeOK
  <2> QED BY <2>1, <1>1, <1>8, <1>10 DEF ApartRuns
<1>17. PoolsWithin'
  <2>1. \A i \in 1..Len(runs) : /\ runs'[i].trigger = runs[i].trigger /\ runs'[i].account = runs[i].account
                                /\ runs'[i].at = runs[i].at /\ runs'[i].limit = runs[i].limit
    BY <1>11
  <2> QED BY <2>1, <1>5, <1>11, PoolsFilled
<1>18. F!TypeOK'
  <2>1. \A v \in Workers : /\ worker'[v].pc \in {"rest", "selected", "read", "posts", "advance"}
                           /\ worker'[v].run \in 0..Len(runs')
    <3>1. ASSUME NEW v \in Workers, v # w
          PROVE  worker'[v].pc = worker[v].pc /\ worker'[v].run = worker[v].run
      BY <1>10, <3>1
    <3>2. worker'[w].run \in 0..Len(runs') BY <1>1, <1>8, <1>10, <1>11
    <3>3. worker'[w].pc \in {"rest", "selected", "read", "posts", "advance"} BY <1>8, <1>10
    <3>4. 0..Len(runs) \subseteq 0..Len(runs') BY <1>1, <1>11
    <3> QED BY <3>1, <3>2, <3>3, <3>4 DEF F!TypeOK
  <2>2. feedClock' \in 0..FeedTicks BY DEF F!TypeOK
  <2>3. \A a \in F!Account' : listed'[a] \in 1..MaxPost /\ stored'[a] \cup given'[a] \subseteq 1..listed'[a]
    BY <1>12, GrowsTypes DEF Grows, Posts
  <2>4. \A i \in 1..Len(runs') : /\ runs'[i].trigger \in F!Trigger /\ runs'[i].account \in F!Account'
                                 /\ runs'[i].sent <= FeedReserve /\ runs'[i].limit <= FeedReserve
                                 /\ runs'[i].etag \in 0..MaxPost
    <3> SUFFICES ASSUME NEW i \in 1..Len(runs')
                 PROVE  /\ runs'[i].trigger \in F!Trigger /\ runs'[i].account \in F!Account'
                        /\ runs'[i].sent <= FeedReserve /\ runs'[i].limit <= FeedReserve
                        /\ runs'[i].etag \in 0..MaxPost
      OBVIOUS
    <3>1. runs'[i] \in FeedRow' BY <1>13 DEF FeedTypes
    <3>2. runs'[i].sent <= runs'[i].limit /\ runs'[i].limit <= FeedReserve
      BY <1>14 DEF FeedRowsOk, FeedRowOk
    <3>3. runs'[i].sent \in Nat /\ runs'[i].limit \in Nat BY <3>1 DEF FeedRow
    <3>4. FeedReserve \in Nat BY FeedSizes
    <3>5. runs'[i].sent <= FeedReserve BY <3>2, <3>3, <3>4
    <3> QED BY <3>1, <3>2, <3>5 DEF FeedRow
  <2> QED BY <2>1, <2>2, <2>3, <2>4 DEF F!TypeOK, F!Trigger
<1> QED BY <1>13, <1>14, <1>15, <1>16, <1>17, <1>18

\* What the sites and the clock do.
LEMMA FeedStays ==
  ASSUME F!Assumptions, FeedInv, Grows, UNCHANGED <<runs, worker>>, feedClock' \in 0..FeedTicks
  PROVE  FeedInv'
<1> USE DEF FeedInv
<1>1. Len(runs) \in Nat BY DEF FeedTypes
<1>2. FeedTypes' BY GrowsTypes DEF FeedTypes, Grows
<1>3. FeedRowsOk' BY FeedRowKept DEF FeedRowsOk
<1>4. ReadersOk' BY <1>1, ReaderKept DEF ReadersOk
<1>5. ApartRuns' BY DEF ApartRuns
<1>6. PoolsWithin'
  <2>1. \A i \in 1..Len(runs) : runs[i] \in FeedRow BY DEF FeedTypes
  <2>2. \A i \in 1..Len(runs) : runs[i].limit \in Nat /\ runs[i].limit <= runs[i].limit BY <2>1 DEF FeedRow
  <2> QED BY <2>2, PoolsKept
<1>7. F!TypeOK'
  <2>1. \A a \in F!Account' : listed'[a] \in 1..MaxPost /\ stored'[a] \cup given'[a] \subseteq 1..listed'[a]
    BY GrowsTypes DEF Grows, Posts
  <2>2. \A i \in 1..Len(runs) : /\ runs[i].trigger \in F!Trigger /\ runs[i].account \in F!Account'
                                /\ runs[i].sent <= FeedReserve /\ runs[i].limit <= FeedReserve
                                /\ runs[i].etag \in 0..MaxPost
    BY GrowsTypes DEF F!TypeOK
  <2> QED BY <2>1, <2>2 DEF F!TypeOK, F!Trigger
<1> QED BY <1>2, <1>3, <1>4, <1>5, <1>6, <1>7

LEMMA FeedStart == ASSUME F!Assumptions, F!Init PROVE FeedInv
<1> USE FeedSizes DEF F!Init
<1>1. PICK accounts \in {Sites, Podcasts} : /\ listed = [a \in accounts |-> 1]
                                         /\ stored = [a \in accounts |-> {}] /\ given = [a \in accounts |-> {}]
  OBVIOUS
<1>2. F!Account = accounts /\ Len(runs) = 0 /\ 1..Len(runs) = {} /\ runs \in Seq(FeedRow)
  BY <1>1 DEF F!Account
<1>3. F!Resting \in Reader /\ F!Resting.run = 0 /\ F!Resting.pc = "rest" BY DEF F!Resting, Reader
<1>4. FeedTypes BY <1>1, <1>2, <1>3 DEF FeedTypes, Posts
<1>5. F!TypeOK BY <1>1, <1>2, <1>3 DEF F!TypeOK
<1>6. FeedRowsOk /\ ReadersOk /\ ApartRuns
  BY <1>2, <1>3 DEF FeedRowsOk, ReadersOk, ReaderOk, ApartRuns
<1>7. PoolsWithin
  <2>1. \A triggers, d : F!RunsOn(triggers, d) = {} BY <1>2 DEF F!RunsOn
  <2>2. \A a, d : F!BackfillsOn(a, d) = {} BY <2>1 DEF F!BackfillsOn
  <2>3. PICK none : none = {} OBVIOUS
  <2>4. F!Limits(none) = 0
    <3>1. Tokens(none, runs) = {} BY <2>3 DEF Tokens
    <3>2. F!Limits(none) = Cardinality(Tokens(none, runs)) BY SameCounts DEF F!Limits, Tokens
    <3> QED BY <3>1, <3>2, FS_EmptySet
  <2> SUFFICES ASSUME NEW d \in Nat
               PROVE  /\ F!Limits(F!RunsOn({"web_feed", "web_backfill"}, d)) <= FeedBudget
                      /\ F!Limits(F!RunsOn({"podcast_feed"}, d)) <= FeedBudget
                      /\ \A a \in Sites : F!Limits(F!BackfillsOn(a, d)) <= SiteBudget
    BY DEF PoolsWithin
  <2>5. F!RunsOn({"web_feed", "web_backfill"}, d) = none /\ F!RunsOn({"podcast_feed"}, d) = none
    BY <2>1, <2>3
  <2>6. \A a \in Sites : F!BackfillsOn(a, d) = none BY <2>2, <2>3
  <2>7. 0 <= FeedBudget /\ 0 <= SiteBudget OBVIOUS
  <2> QED BY <2>4, <2>5, <2>6, <2>7
<1> QED BY <1>4, <1>5, <1>6, <1>7 DEF FeedInv

\* A run that goes on, after n requests.
LEMMA RunGoesOn ==
  ASSUME F!Assumptions, FeedInv, Grows, UNCHANGED feedClock, NEW w \in Workers,
         worker[w].pc \in {"read", "posts", "advance"},
         NEW n \in Nat, runs[worker[w].run].sent + n <= FeedReserve, F!Send(w, n) \/ UNCHANGED runs,
         NEW next \in Reader, worker' = [worker EXCEPT ![w] = next],
         NEW a \in F!Account, a = worker[w].account, next.account = a,
         next.trigger = worker[w].trigger, next.run = worker[w].run,
         next.pc = IF worker[w].trigger = "web_backfill" THEN "advance" ELSE "posts",
         worker[w].trigger # "web_backfill" =>
           /\ next.prev <= MaxPost /\ next.todo \subseteq 1..listed'[a]
           /\ 1..next.prev \subseteq Settled(a)' \cup next.todo,
         NEW q, q = next.state, worker[w].trigger = "web_backfill" => QueueOk(q, a)'
  PROVE  FeedInv'
<1> USE DEF FeedInv
<1> DEFINE r == worker[w].run
<1>1. Len(runs) \in Nat /\ r \in 1..Len(runs) /\ runs[r] \in FeedRow /\ FeedRowOk(r) /\ ReaderOk(w) /\ RunOf(w)
  BY DEF FeedTypes, FeedRowsOk, ReadersOk, ReaderOk, RunOf
<1>2. /\ runs[r].account = a /\ runs[r].trigger = worker[w].trigger /\ runs[r].limit = FeedReserve
      /\ worker[w].trigger \in F!Trigger
  BY <1>1 DEF ReaderOk, RunOf
<1>3. PICK entry : entry = runs'[r] OBVIOUS
<1>4. runs' = [runs EXCEPT ![r] = entry]
  BY <1>1, <1>3 DEF F!Send, FeedTypes
<1>5. /\ entry.trigger = runs[r].trigger /\ entry.account = runs[r].account /\ entry.at = runs[r].at
      /\ entry.limit = runs[r].limit /\ entry.etag = runs[r].etag /\ entry.state = runs[r].state
      /\ entry.sent \in {runs[r].sent, runs[r].sent + n} /\ entry \in FeedRow
  <2>1. CASE F!Send(w, n)
    <3>1. entry = [runs[r] EXCEPT !.sent = @ + n] BY <1>1, <1>3, <2>1 DEF F!Send, FeedTypes
    <3> QED BY SMTT(20), <1>1, <3>1 DEF FeedRow
  <2>2. CASE UNCHANGED runs
    <3>1. entry = runs[r] BY <1>3, <2>2
    <3> QED BY <1>1, <3>1
  <2> QED BY <2>1, <2>2
<1>6. FeedReserve \in Nat /\ runs[r].sent \in Nat /\ runs[r].sent <= FeedReserve
  BY <1>1, <1>2, FeedSizes DEF FeedRow, FeedRowOk
<1>7. entry.sent <= FeedReserve /\ entry.limit = FeedReserve BY <1>2, <1>5, <1>6
<1>8. PICK k, s : k = r /\ s = runs[r].state OBVIOUS
<1>9. FeedRowOk(k)'
  <2>1. worker[w].trigger # "web_backfill" => 1..runs[r].etag \subseteq Settled(a)'
    BY <1>1, <1>2, GrowsTypes DEF FeedRowOk
  <2>2. worker[w].trigger = "web_backfill" => QueueOk(s, a)'
    BY <1>1, <1>2, <1>8, GrowsTypes DEF FeedRowOk
  <2>3. runs'[k] = entry BY <1>3, <1>8
  <2> QED BY <2>1, <2>2, <2>3, <1>2, <1>5, <1>6, <1>7, <1>8 DEF FeedRowOk
<1>10. worker'[w] = next BY DEF FeedTypes
<1>11. ReaderOk(w)'
  <2>1. RunOf(w)'
    <3>1. Len(runs') = Len(runs) /\ runs'[r] = entry BY <1>3, <1>4 DEF FeedTypes
    <3> QED BY <3>1, <1>1, <1>2, <1>5, <1>10 DEF RunOf
  <2>2. a \in F!Account' BY GrowsTypes
  <2>3. next.pc \in {"posts", "advance"} /\ (next.pc = "advance" <=> worker[w].trigger = "web_backfill")
    OBVIOUS
  <2> QED BY <2>1, <2>2, <2>3, <1>2, <1>10 DEF ReaderOk, F!Trigger
<1>12. /\ k = worker[w].run /\ k \in 1..Len(runs) /\ runs' = [runs EXCEPT ![k] = entry]
       /\ entry.trigger = runs[k].trigger /\ entry.account = runs[k].account /\ entry.at = runs[k].at
       /\ entry.limit <= runs[k].limit /\ next.run \in {0, k}
  BY <1>1, <1>2, <1>4, <1>5, <1>6, <1>8
<1> QED BY <1>5, <1>9, <1>11, <1>12, FeedRowWritten

\* A run that ends, after n requests.
LEMMA RunFinishes ==
  ASSUME F!Assumptions, FeedInv, Grows, UNCHANGED feedClock, NEW w \in Workers,
         worker[w].pc \in {"read", "posts", "advance"},
         NEW n \in Nat, runs[worker[w].run].sent + n <= FeedReserve,
         NEW etag \in 0..MaxPost, NEW q \in Queue \cup {None}, F!Finish(w, n, etag, q),
         NEW a \in F!Account, a = worker[w].account,
         worker[w].trigger # "web_backfill" => 1..etag \subseteq Settled(a)',
         worker[w].trigger = "web_backfill" => QueueOk(q, a)'
  PROVE  FeedInv'
<1> USE DEF FeedInv
<1> DEFINE r == worker[w].run
           spent == runs[r].sent + n
<1>1. Len(runs) \in Nat /\ r \in 1..Len(runs) /\ runs[r] \in FeedRow /\ FeedRowOk(r) /\ ReaderOk(w) /\ RunOf(w)
  BY DEF FeedTypes, FeedRowsOk, ReadersOk, ReaderOk, RunOf
<1>2. /\ runs[r].account = a /\ runs[r].trigger = worker[w].trigger /\ runs[r].limit = FeedReserve
  BY <1>1 DEF RunOf
<1>3. spent \in Nat /\ spent <= FeedReserve /\ FeedReserve \in Nat
  <2>1. runs[r].sent \in Nat BY <1>1 DEF FeedRow
  <2> QED BY <2>1, FeedSizes
<1> HIDE DEF spent
<1>4. PICK entry : entry = [runs[r] EXCEPT !.sent = spent, !.limit = spent, !.etag = etag, !.state = q] OBVIOUS
<1>5. runs' = [runs EXCEPT ![r] = entry] /\ worker' = [worker EXCEPT ![w] = F!Resting]
  BY <1>4 DEF F!Finish, F!Rest, spent
<1>6. /\ entry.trigger = runs[r].trigger /\ entry.account = runs[r].account /\ entry.at = runs[r].at
      /\ entry.limit = spent /\ entry.sent = spent /\ entry.etag = etag /\ entry.state = q /\ entry \in FeedRow
  BY <1>1, <1>3, <1>4 DEF FeedRow
<1>7. PICK k : k = r OBVIOUS
<1>8. runs'[k] = entry BY <1>1, <1>5, <1>7 DEF FeedTypes
<1>9. FeedRowOk(k)' BY <1>2, <1>3, <1>6, <1>8 DEF FeedRowOk
<1>10. F!Resting \in Reader /\ F!Resting.run = 0 /\ F!Resting.pc = "rest" BY DEF F!Resting, Reader
<1>11. ReaderOk(w)'
  <2>1. worker'[w] = F!Resting BY <1>5 DEF FeedTypes
  <2> QED BY <2>1, <1>10 DEF ReaderOk, F!Resting
<1>12. /\ k = worker[w].run /\ k \in 1..Len(runs) /\ runs' = [runs EXCEPT ![k] = entry]
       /\ entry.trigger = runs[k].trigger /\ entry.account = runs[k].account /\ entry.at = runs[k].at
       /\ entry.limit <= runs[k].limit
  BY <1>1, <1>2, <1>3, <1>5, <1>6, <1>7
<1> QED BY <1>5, <1>6, <1>9, <1>10, <1>11, <1>12, FeedRowWritten

LEMMA FeedRestStep ==
  ASSUME F!Assumptions, FeedInv, NEW w \in Workers, F!Rest(w), UNCHANGED <<feedClock, listed, stored, runs, given>>
  PROVE  FeedInv'
<1>1. F!Resting \in Reader /\ F!Resting.run = 0 /\ F!Resting.pc = "rest" BY DEF F!Resting, Reader
<1>2. worker'[w] = F!Resting BY DEF F!Rest, FeedInv, FeedTypes
<1>3. ReaderOk(w)' BY <1>1, <1>2 DEF ReaderOk, F!Resting
<1> QED BY <1>1, <1>3, NothingGrows, ReaderMoves DEF F!Rest

LEMMA PostSettles ==
  ASSUME F!Assumptions, FeedInv, NEW a \in F!Account, NEW R, R \subseteq 1..listed[a], UNCHANGED listed,
         \/ stored' = [stored EXCEPT ![a] = @ \cup R] /\ UNCHANGED given
         \/ given' = [given EXCEPT ![a] = @ \cup R] /\ UNCHANGED stored
  PROVE  Grows /\ Settled(a)' = Settled(a) \cup R
<1> USE DEF FeedInv
<1>1. /\ \A c \in F!Account : listed[c] \in Posts /\ stored[c] \in SUBSET Posts /\ given[c] \in SUBSET Posts
      /\ \A c \in F!Account : stored[c] \cup given[c] \subseteq 1..listed[c]
      /\ Posts \subseteq Nat
  BY DEF FeedTypes, F!TypeOK, Posts
<1>2. R \subseteq Posts
  <2>1. listed[a] \in 1..MaxPost /\ MaxPost \in Nat BY <1>1, FeedSizes DEF Posts
  <2> QED BY <2>1 DEF Posts
<1>3. CASE stored' = [stored EXCEPT ![a] = @ \cup R] /\ UNCHANGED given
  <2>1. stored'[a] = stored[a] \cup R /\ \A c \in F!Account \ {a} : stored'[c] = stored[c]
    BY <1>3 DEF FeedTypes
  <2>2. stored' \in [F!Account -> SUBSET Posts] BY <1>2, <1>3 DEF FeedTypes
  <2>3. \A c \in F!Account : stored[c] \subseteq stored'[c] /\ stored'[c] \cup given[c] \subseteq 1..listed[c]
    BY <1>1, <2>1
  <2>4. \A c \in F!Account : listed[c] <= listed[c]
    <3>1. \A c \in F!Account : listed[c] \in Nat BY <1>1
    <3> QED BY <3>1
  <2> QED BY <1>1, <1>3, <2>1, <2>2, <2>3, <2>4 DEF Grows, Settled, FeedTypes
<1>4. CASE given' = [given EXCEPT ![a] = @ \cup R] /\ UNCHANGED stored
  <2>1. given'[a] = given[a] \cup R /\ \A c \in F!Account \ {a} : given'[c] = given[c]
    BY <1>4 DEF FeedTypes
  <2>2. given' \in [F!Account -> SUBSET Posts] BY <1>2, <1>4 DEF FeedTypes
  <2>3. \A c \in F!Account : given[c] \subseteq given'[c] /\ stored[c] \cup given'[c] \subseteq 1..listed[c]
    BY <1>1, <2>1
  <2>4. \A c \in F!Account : listed[c] <= listed[c]
    <3>1. \A c \in F!Account : listed[c] \in Nat BY <1>1
    <3> QED BY <3>1
  <2> QED BY <1>1, <1>4, <2>1, <2>2, <2>3, <2>4 DEF Grows, Settled, FeedTypes
<1> QED BY <1>3, <1>4

-----------------------------------------------------------------------------
\* The steps.

LEMMA LatestRun ==
  ASSUME FeedInv, NEW t, NEW a, NEW last, last = F!Latest(t, a)
  PROVE  \/ last = 0
         \/ /\ last \in 1..Len(runs) /\ runs[last] \in FeedRow /\ FeedRowOk(last)
            /\ runs[last].trigger = t /\ runs[last].account = a
<1>1. Len(runs) \in Nat BY DEF FeedInv, FeedTypes
<1>2. CASE F!RunIds({t}, a) = {} BY <1>2 DEF F!Latest
<1>3. CASE F!RunIds({t}, a) # {}
  <2>1. F!RunIds({t}, a) \subseteq Nat /\ \A i \in F!RunIds({t}, a) : i <= Len(runs) BY <1>1 DEF F!RunIds
  <2>2. \E x \in F!RunIds({t}, a) : \A y \in F!RunIds({t}, a) : x >= y BY <2>1, <1>1, <1>3, HasLargest
  <2>3. F!Max(F!RunIds({t}, a)) \in F!RunIds({t}, a) BY <2>2 DEF F!Max
  <2>4. last \in F!RunIds({t}, a) BY <2>3, <1>3 DEF F!Latest
  <2> QED BY <2>4 DEF F!RunIds, FeedInv, FeedTypes, FeedRowsOk
<1> QED BY <1>2, <1>3

LEMMA Executing ==
  ASSUME F!Assumptions, FeedInv, NEW w \in Workers
  PROVE  /\ worker[w] \in Reader /\ ReaderOk(w) /\ FeedReserve \in Nat \ {0}
         /\ worker[w].pc # "rest" => worker[w].account \in F!Account /\ worker[w].trigger \in F!Trigger
         /\ worker[w].pc \in {"read", "posts", "advance"} =>
              /\ worker[w].run \in 1..Len(runs) /\ F!Sent(w) = runs[worker[w].run].sent
              /\ F!Sent(w) \in Nat /\ F!Sent(w) <= FeedReserve /\ F!Sent(w) + 0 <= FeedReserve
         /\ worker[w].pc = "read" => F!Sent(w) = 0
         /\ worker[w].pc \in {"read", "posts"} => worker[w].trigger # "web_backfill"
         /\ worker[w].pc = "advance" => worker[w].trigger = "web_backfill"
<1>1. worker[w] \in Reader /\ ReaderOk(w) BY DEF FeedInv, FeedTypes, ReadersOk
<1>2. FeedReserve \in Nat \ {0} BY FeedSizes
<1>3. ASSUME worker[w].pc \in {"read", "posts", "advance"}
      PROVE  /\ worker[w].run \in 1..Len(runs) /\ F!Sent(w) = runs[worker[w].run].sent
             /\ F!Sent(w) \in Nat /\ F!Sent(w) <= FeedReserve /\ F!Sent(w) + 0 <= FeedReserve
  <2>1. worker[w].run \in 1..Len(runs) /\ runs[worker[w].run].limit = FeedReserve
    BY <1>1, <1>3 DEF ReaderOk, RunOf
  <2>2. runs[worker[w].run] \in FeedRow /\ FeedRowOk(worker[w].run)
    BY <2>1 DEF FeedInv, FeedTypes, FeedRowsOk
  <2>3. runs[worker[w].run].sent \in Nat BY <2>2 DEF FeedRow
  <2>4. runs[worker[w].run].sent <= FeedReserve BY <2>1, <2>2 DEF FeedRowOk
  <2>5. runs[worker[w].run].sent + 0 <= FeedReserve BY <2>3, <2>4
  <2> QED BY <2>1, <2>3, <2>4, <2>5 DEF F!Sent
<1> QED BY <1>1, <1>2, <1>3 DEF ReaderOk, F!Sent

\* What a selection tells a worker.
LEMMA ReaderSelects ==
  ASSUME F!Assumptions, FeedInv, UNCHANGED <<feedClock, listed, stored, runs, given>>, NEW w \in Workers,
         worker[w].pc = "rest", NEW a \in F!Account, NEW t \in F!Trigger, NEW m \in Nat, NEW q,
         NEW next \in Reader, worker' = [worker EXCEPT ![w] = next],
         next.pc = "selected", next.account = a, next.trigger = t, next.prev = m, next.state = q,
         next.run = 0, next.todo = {},
         t # "web_backfill" => m <= MaxPost /\ 1..m \subseteq Settled(a),
         t = "web_backfill" => QueueOk(q, a) /\ (m # 0 => m \in 1..Len(runs) /\ runs[m].trigger = "web_backfill")
  PROVE  FeedInv'
<1>1. Grows BY NothingGrows
<1>2. worker'[w] = next BY DEF FeedInv, FeedTypes
<1>3. a \in F!Account' BY <1>1, GrowsTypes
<1>4. t # "web_backfill" => 1..m \subseteq Settled(a)' BY DEF Settled
<1>5. t = "web_backfill" => QueueOk(q, a)' BY <1>1, GrowsTypes
<1>6. ReaderOk(w)' BY <1>2, <1>3, <1>4, <1>5 DEF ReaderOk, F!Trigger
<1> QED BY <1>1, <1>6, ReaderMoves

LEMMA SelectCheckStep ==
  ASSUME F!Assumptions, FeedInv, NEW w \in Workers, NEW a, F!SelectCheck(w, a) PROVE FeedInv'
<1>1. PICK t, last : t = F!TriggerOf(a) /\ last = F!Latest(t, a) OBVIOUS
<1>2. a \in F!Account /\ worker[w].pc = "rest" /\ UNCHANGED <<feedClock, listed, stored, runs, given>>
  BY DEF F!SelectCheck
<1>3. t \in F!Trigger /\ t # "web_backfill" BY <1>1 DEF F!TriggerOf, F!Trigger
<1>4. PICK m : m = IF last = 0 THEN 0 ELSE runs[last].etag OBVIOUS
<1>5. m \in Nat /\ m <= MaxPost /\ 1..m \subseteq Settled(a)
  <2>1. MaxPost \in Nat BY FeedSizes
  <2>2. CASE last = 0 BY <2>1, <2>2, <1>4
  <2>3. CASE last # 0
    <3>1. /\ runs[last] \in FeedRow /\ FeedRowOk(last)
          /\ runs[last].trigger = t /\ runs[last].account = a
      BY <1>1, <2>3, LatestRun
    <3>2. runs[last].etag \in 0..MaxPost BY <3>1 DEF FeedRow
    <3> QED BY <2>1, <2>3, <3>1, <3>2, <1>3, <1>4 DEF FeedRowOk
  <2> QED BY <2>2, <2>3
<1>6. PICK next : next = [F!Resting EXCEPT !.pc = "selected", !.account = a, !.trigger = t, !.prev = m]
  OBVIOUS
<1>7. /\ next \in Reader /\ next.pc = "selected" /\ next.account = a /\ next.trigger = t /\ next.prev = m
      /\ next.run = 0 /\ next.todo = {}
  BY <1>2, <1>3, <1>5, <1>6 DEF F!Resting, Reader
<1>8. worker' = [worker EXCEPT ![w] = next]
  BY <1>1, <1>4, <1>6 DEF F!SelectCheck
<1>9. PICK q : q = next.state OBVIOUS
<1> QED BY <1>2, <1>3, <1>5, <1>7, <1>8, <1>9, ReaderSelects

LEMMA SelectBackfillStep ==
  ASSUME F!Assumptions, FeedInv, NEW w \in Workers, NEW a, F!SelectBackfill(w, a) PROVE FeedInv'
<1>1. PICK last : last = F!Latest("web_backfill", a) OBVIOUS
<1>2. a \in F!Account /\ worker[w].pc = "rest" /\ UNCHANGED <<feedClock, listed, stored, runs, given>>
  BY DEF F!SelectBackfill
<1>3. PICK q : q = IF last = 0 THEN F!FirstState ELSE runs[last].state OBVIOUS
<1>4. /\ q \in Queue /\ QueueOk(q, a)
      /\ last # 0 => last \in 1..Len(runs) /\ runs[last].trigger = "web_backfill"
      /\ last \in Nat
  <2>1. CASE last = 0
    <3>1. F!FirstState \in Queue /\ F!FirstState.urls = {} /\ F!FirstState.seen = {}
      BY DEF F!FirstState, Queue
    <3> QED BY <2>1, <3>1, <1>3 DEF QueueOk
  <2>2. CASE last # 0
    BY <1>1, <1>3, <2>2, LatestRun DEF FeedRowOk, QueueOk
  <2> QED BY <2>1, <2>2
<1>5. PICK t \in F!Trigger : t = "web_backfill" BY DEF F!Trigger
<1>6. PICK next : next = [F!Resting EXCEPT !.pc = "selected", !.account = a, !.trigger = t, !.prev = last,
                                         !.state = q]
  OBVIOUS
<1>7. /\ next \in Reader /\ next.pc = "selected" /\ next.account = a /\ next.trigger = t
      /\ next.prev = last /\ next.state = q /\ next.run = 0 /\ next.todo = {}
  BY <1>2, <1>4, <1>5, <1>6 DEF F!Resting, Reader
<1>8. worker' = [worker EXCEPT ![w] = next]
  BY <1>1, <1>3, <1>5, <1>6 DEF F!SelectBackfill
<1> QED BY <1>2, <1>4, <1>5, <1>7, <1>8, ReaderSelects

LEMMA RowsKept ==
  ASSUME FeedInv
  PROVE  /\ runs \in Seq(FeedRow)
         /\ \A i \in 1..Len(runs) : runs[i].trigger = "web_backfill" => QueueOk(runs[i].state, runs[i].account)
BY DEF FeedInv, FeedTypes, FeedRowsOk, FeedRowOk

LEMMA ClaimSiteCheckStep ==
  ASSUME F!Assumptions, FeedInv, NEW w \in Workers, F!ClaimSiteCheck(w) PROVE FeedInv'
<1>1. /\ worker[w].pc = "selected" /\ worker[w].trigger = "web_feed"
      /\ UNCHANGED <<feedClock, listed, stored, given>>
  BY DEF F!ClaimSiteCheck
<1>2. CASE F!Affordable(F!FeedPool) /\ ~F!CheckedRecently(w)
  <2>1. F!Start(w, runs, "read") BY <1>2 DEF F!ClaimSiteCheck
  <2>2. F!Limits(F!RunsOn({"web_feed", "web_backfill"}, F!Today)) + FeedReserve <= FeedBudget
    BY <1>2 DEF F!Affordable, F!FeedPool
  <2> QED BY <1>1, <2>1, <2>2, RowsKept, RunStarts
<1>3. CASE ~(F!Affordable(F!FeedPool) /\ ~F!CheckedRecently(w))
  BY <1>1, <1>3, FeedRestStep DEF F!ClaimSiteCheck
<1> QED BY <1>2, <1>3

LEMMA ClaimFeedCheckStep ==
  ASSUME F!Assumptions, FeedInv, NEW w \in Workers, F!ClaimFeedCheck(w) PROVE FeedInv'
<1>1. /\ worker[w].pc = "selected" /\ worker[w].trigger = "podcast_feed"
      /\ UNCHANGED <<feedClock, listed, stored, given>>
  BY DEF F!ClaimFeedCheck
<1>2. CASE F!Affordable({"podcast_feed"}) /\ ~F!CheckedRecently(w)
  <2>1. F!Start(w, runs, "read") BY <1>2 DEF F!ClaimFeedCheck
  <2>2. F!Limits(F!RunsOn({"podcast_feed"}, F!Today)) + FeedReserve <= FeedBudget
    BY <1>2 DEF F!Affordable
  <2> QED BY <1>1, <2>1, <2>2, RowsKept, RunStarts
<1>3. CASE ~(F!Affordable({"podcast_feed"}) /\ ~F!CheckedRecently(w))
  BY <1>1, <1>3, FeedRestStep DEF F!ClaimFeedCheck
<1> QED BY <1>2, <1>3

\* The queue moves to the new row; the row it came from keeps none.
LEMMA ClaimBackfillStep ==
  ASSUME F!Assumptions, FeedInv, NEW w \in Workers, F!ClaimBackfill(w) PROVE FeedInv'
<1> DEFINE m == worker[w].prev
           left == [runs[m].state EXCEPT !.urls = {}, !.seen = {}]
           moved == IF m = 0 THEN runs ELSE [runs EXCEPT ![m].state = left]
           granted == /\ \A i \in F!BackfillsOn(worker[w].account, F!Today) : ~F!Within(i, SitemapInterval)
                      /\ F!Affordable({"web_feed", "web_backfill"})
                      /\ F!Limits(F!BackfillsOn(worker[w].account, F!Today)) + FeedReserve <= SiteBudget
<1>1. /\ worker[w].pc = "selected" /\ worker[w].trigger = "web_backfill"
      /\ UNCHANGED <<feedClock, listed, stored, given>>
  BY DEF F!ClaimBackfill
<1>2. CASE granted
  <2>1. F!Start(w, moved, "advance") BY <1>2 DEF F!ClaimBackfill
  <2>2. F!Limits(F!RunsOn({"web_feed", "web_backfill"}, F!Today)) + FeedReserve <= FeedBudget
    BY <1>2 DEF F!Affordable
  <2>3. Len(runs) \in Nat /\ runs \in Seq(FeedRow) BY DEF FeedInv, FeedTypes
  <2>4. /\ moved \in Seq(FeedRow) /\ Len(moved) = Len(runs)
        /\ \A i \in 1..Len(runs) :
             /\ moved[i].trigger = runs[i].trigger /\ moved[i].account = runs[i].account
             /\ moved[i].at = runs[i].at /\ moved[i].limit = runs[i].limit
             /\ moved[i].sent = runs[i].sent /\ moved[i].etag = runs[i].etag
             /\ moved[i].trigger = "web_backfill" => QueueOk(moved[i].state, moved[i].account)
    <3>1. CASE m = 0 BY <2>3, <3>1, RowsKept
    <3>2. CASE m # 0
      <4>1. m \in 1..Len(runs) /\ runs[m].trigger = "web_backfill"
        BY <1>1, <3>2 DEF FeedInv, ReadersOk, ReaderOk
      <4>2. runs[m] \in FeedRow /\ QueueOk(runs[m].state, runs[m].account) BY <4>1, RowsKept, <2>3
      <4>3. left \in Queue /\ left.urls = {} /\ left.seen = {} BY <4>2 DEF QueueOk, Queue
      <4>4. QueueOk(left, runs[m].account) BY <4>3 DEF QueueOk
      <4> HIDE DEF left
      <4>5. [runs[m] EXCEPT !.state = left] \in FeedRow BY <4>2, <4>3 DEF FeedRow
      <4>6. moved = [runs EXCEPT ![m] = [runs[m] EXCEPT !.state = left]] BY <3>2, <2>3, <4>1
      <4>7. /\ moved \in Seq(FeedRow) /\ Len(moved) = Len(runs)
            /\ moved[m] = [runs[m] EXCEPT !.state = left]
            /\ \A i \in 1..Len(runs) : i # m => moved[i] = runs[i]
        BY <4>1, <4>5, <4>6, <2>3
      <4> HIDE DEF moved, m
      <4>8. /\ moved[m].trigger = runs[m].trigger /\ moved[m].account = runs[m].account
            /\ moved[m].at = runs[m].at /\ moved[m].limit = runs[m].limit
            /\ moved[m].sent = runs[m].sent /\ moved[m].etag = runs[m].etag /\ moved[m].state = left
        BY <4>2, <4>7 DEF FeedRow
      <4> QED BY <4>4, <4>7, <4>8, RowsKept
    <3> QED BY <3>1, <3>2
  <2> HIDE DEF moved
  <2> QED BY <1>1, <1>2, <2>1, <2>2, <2>4, RunStarts
<1>3. CASE ~granted
  BY <1>1, <1>3, FeedRestStep DEF F!ClaimBackfill
<1> QED BY <1>2, <1>3

LEMMA ReadFeedStep ==
  ASSUME F!Assumptions, FeedInv, NEW w \in Workers, NEW n \in 1..FeedReserve, F!ReadFeed(w, n) PROVE FeedInv'
<1>1. PICK a : a = worker[w].account OBVIOUS
<1>2. /\ worker[w].pc = "read" /\ F!Send(w, n) /\ UNCHANGED <<feedClock, listed, stored, given>>
      /\ worker' = [worker EXCEPT ![w].pc = "posts", ![w].todo = 1..listed[a], ![w].prev = listed[a]]
  BY <1>1 DEF F!ReadFeed
<1>3. a \in F!Account /\ worker[w].trigger # "web_backfill" /\ F!Sent(w) = 0
  BY <1>1, <1>2, Executing
<1>4. listed[a] \in Nat /\ listed[a] <= MaxPost /\ 1..listed[a] \subseteq Posts /\ Grows
  BY <1>2, <1>3, FeedSizes, NothingGrows DEF FeedInv, FeedTypes, Posts
<1>5. PICK next : next = [worker[w] EXCEPT !.pc = "posts", !.todo = 1..listed[a], !.prev = listed[a]]
  OBVIOUS
<1>6. /\ next \in Reader /\ next.pc = "posts" /\ next.todo = 1..listed[a] /\ next.prev = listed[a]
      /\ next.account = a /\ next.trigger = worker[w].trigger /\ next.run = worker[w].run
  BY <1>1, <1>4, <1>5, Executing DEF Reader
<1>7. worker' = [worker EXCEPT ![w] = next] BY <1>2, <1>5 DEF FeedInv, FeedTypes
<1>8. n \in Nat /\ runs[worker[w].run].sent + n <= FeedReserve
  BY <1>3, FeedSizes DEF F!Sent
<1>9. next.todo \subseteq 1..listed'[a] BY <1>2, <1>6
<1>10. PICK q : q = next.state OBVIOUS
<1> QED BY <1>1, <1>2, <1>3, <1>4, <1>6, <1>7, <1>8, <1>9, <1>10, RunGoesOn

LEMMA NotReadStep ==
  ASSUME F!Assumptions, FeedInv, NEW w \in Workers, NEW n \in 1..FeedReserve, F!NotRead(w, n) PROVE FeedInv'
<1>1. PICK a, m, q : a = worker[w].account /\ m = worker[w].prev /\ q = None OBVIOUS
<1>2. worker[w].pc = "read" /\ F!Finish(w, n, m, q) /\ UNCHANGED <<feedClock, listed, stored, given>>
  BY <1>1 DEF F!NotRead
<1>3. /\ a \in F!Account /\ worker[w].trigger # "web_backfill" /\ F!Sent(w) = 0
      /\ worker[w] \in Reader /\ ReaderOk(w)
  BY <1>1, <1>2, Executing
<1>4. m \in 0..MaxPost /\ 1..m \subseteq Settled(a)
  <2>1. m \in Nat BY <1>1, <1>3 DEF Reader
  <2> QED BY <2>1, <1>1, <1>2, <1>3, FeedSizes DEF ReaderOk
<1>5. Grows /\ Settled(a)' = Settled(a) BY <1>2, NothingGrows DEF Settled
<1>6. n \in Nat /\ runs[worker[w].run].sent + n <= FeedReserve
  BY <1>3, FeedSizes DEF F!Sent
<1> QED BY <1>1, <1>2, <1>3, <1>4, <1>5, <1>6, RunFinishes

\* A post is taken from what was read, and settled.
LEMMA PostTaken ==
  ASSUME F!Assumptions, FeedInv, NEW w \in Workers, NEW p, worker[w].pc = "posts", p \in worker[w].todo,
         NEW a, a = worker[w].account, UNCHANGED <<feedClock, listed, runs>>,
         \/ stored' = [stored EXCEPT ![a] = @ \cup {p}] /\ UNCHANGED given
         \/ given' = [given EXCEPT ![a] = @ \cup {p}] /\ UNCHANGED stored,
         worker' = [worker EXCEPT ![w].todo = @ \ {p}]
  PROVE  FeedInv'
<1>1. /\ a \in F!Account /\ worker[w].trigger # "web_backfill" /\ F!Sent(w) + 0 <= FeedReserve
      /\ worker[w] \in Reader /\ ReaderOk(w)
  BY Executing
<1>2. /\ worker[w].prev <= MaxPost /\ worker[w].todo \subseteq 1..listed[a]
      /\ 1..worker[w].prev \subseteq Settled(a) \cup worker[w].todo
  BY <1>1 DEF ReaderOk
<1>3. PICK R : R = {p} OBVIOUS
<1>4. R \subseteq 1..listed[a] BY <1>2, <1>3
<1>5. Grows /\ Settled(a)' = Settled(a) \cup {p} BY <1>1, <1>3, <1>4, PostSettles
<1>6. PICK next : next = [worker[w] EXCEPT !.todo = @ \ {p}] OBVIOUS
<1>7. /\ next \in Reader /\ next.pc = "posts" /\ next.todo = worker[w].todo \ {p}
      /\ next.prev = worker[w].prev /\ next.account = a /\ next.trigger = worker[w].trigger
      /\ next.run = worker[w].run
  BY <1>1, <1>6 DEF Reader
<1>8. worker' = [worker EXCEPT ![w] = next] BY <1>6 DEF FeedInv, FeedTypes
<1>9. next.todo \subseteq 1..listed'[a] /\ 1..next.prev \subseteq Settled(a)' \cup next.todo
  BY <1>2, <1>5, <1>7
<1>10. PICK q : q = next.state OBVIOUS
<1>11. runs[worker[w].run].sent + 0 <= FeedReserve /\ 0 \in Nat BY <1>1 DEF F!Sent
<1> QED BY <1>1, <1>2, <1>5, <1>7, <1>8, <1>9, <1>10, <1>11, RunGoesOn

LEMMA NewestIsRead ==
  ASSUME F!Assumptions, FeedInv, NEW w \in Workers, NEW p, F!Newest(w, p)
  PROVE  worker[w].pc = "posts" /\ p \in worker[w].todo
<1>1. worker[w].pc = "posts" /\ worker[w].todo # {} /\ p = F!Max(worker[w].todo) BY DEF F!Newest
<1>2. worker[w].todo \subseteq Posts BY Executing DEF Reader
<1>3. MaxPost \in Nat /\ Posts \subseteq Nat /\ \A x \in Posts : x <= MaxPost BY FeedSizes DEF Posts
<1>4. \E x \in worker[w].todo : \A y \in worker[w].todo : x >= y BY <1>1, <1>2, <1>3, HasLargest
<1> QED BY <1>1, <1>4 DEF F!Max

LEMMA IngestStep ==
  ASSUME F!Assumptions, FeedInv, NEW w \in Workers, NEW p,
         F!IngestPost(w, p) \/ F!IngestEpisode(w, p) \/ F!IngestFails(w, p)
  PROVE  FeedInv'
<1>1. F!Newest(w, p) BY DEF F!IngestPost, F!IngestEpisode, F!IngestFails
<1>2. PICK a : a = worker[w].account OBVIOUS
<1>3. /\ \/ stored' = [stored EXCEPT ![a] = @ \cup {p}] /\ UNCHANGED given
         \/ given' = [given EXCEPT ![a] = @ \cup {p}] /\ UNCHANGED stored
      /\ worker' = [worker EXCEPT ![w].todo = @ \ {p}]
      /\ UNCHANGED <<feedClock, listed, runs>>
  BY <1>2 DEF F!IngestPost, F!IngestEpisode, F!IngestFails
<1> QED BY <1>1, <1>2, <1>3, NewestIsRead, PostTaken

LEMMA SaveCheckStep ==
  ASSUME F!Assumptions, FeedInv, NEW w \in Workers, F!SaveCheck(w) PROVE FeedInv'
<1>1. PICK a, m, q : a = worker[w].account /\ m = worker[w].prev /\ q = None OBVIOUS
<1>2. /\ worker[w].pc = "posts" /\ worker[w].todo = {} /\ F!Finish(w, 0, m, q)
      /\ UNCHANGED <<feedClock, listed, stored, given>>
  BY <1>1 DEF F!SaveCheck
<1>3. /\ a \in F!Account /\ worker[w].trigger # "web_backfill" /\ F!Sent(w) + 0 <= FeedReserve
      /\ worker[w] \in Reader /\ ReaderOk(w)
  BY <1>1, <1>2, Executing
<1>4. m \in 0..MaxPost /\ 1..m \subseteq Settled(a)
  <2>1. m \in Nat BY <1>1, <1>3 DEF Reader
  <2> QED BY <2>1, <1>1, <1>2, <1>3, FeedSizes DEF ReaderOk
<1>5. Grows /\ Settled(a)' = Settled(a) BY <1>2, NothingGrows DEF Settled
<1>6. 0 \in Nat /\ runs[worker[w].run].sent + 0 <= FeedReserve BY <1>3 DEF F!Sent
<1> QED BY <1>1, <1>2, <1>3, <1>4, <1>5, <1>6, RunFinishes

-----------------------------------------------------------------------------
\* The steps of the sitemap backfill.

LEMMA Advancing ==
  ASSUME F!Assumptions, FeedInv, NEW w \in Workers, worker[w].pc = "advance",
         NEW a, a = worker[w].account, NEW q, q = worker[w].state
  PROVE  /\ a \in F!Account /\ worker[w].trigger = "web_backfill" /\ QueueOk(q, a) /\ q \in Queue
         /\ worker[w] \in Reader
         /\ runs[worker[w].run].sent + 0 <= FeedReserve
         /\ ~F!Capped(w) => runs[worker[w].run].sent + 1 <= FeedReserve
<1>1. /\ a \in F!Account /\ worker[w].trigger = "web_backfill" /\ worker[w] \in Reader /\ ReaderOk(w)
      /\ F!Sent(w) \in Nat /\ FeedReserve \in Nat /\ F!Sent(w) + 0 <= FeedReserve /\ F!Sent(w) = runs[worker[w].run].sent
  BY Executing
<1>2. QueueOk(q, a) BY <1>1 DEF ReaderOk
<1> QED BY <1>1, <1>2 DEF F!Capped, QueueOk

\* The backfill goes on with another queue.
LEMMA BackfillGoesOn ==
  ASSUME F!Assumptions, FeedInv, NEW w \in Workers, worker[w].pc = "advance", Grows, UNCHANGED feedClock,
         NEW n \in {0, 1}, n = 0 \/ ~F!Capped(w), F!Send(w, n) \/ UNCHANGED runs,
         NEW q, NEW a, a = worker[w].account, QueueOk(q, a)',
         NEW answer \in {"unknown", "allows", "unreachable"}, NEW next,
         next = [worker[w] EXCEPT !.state = q, !.robots = answer], worker' = [worker EXCEPT ![w] = next]
  PROVE  FeedInv'
<1>1. /\ a \in F!Account /\ worker[w].trigger = "web_backfill" /\ worker[w] \in Reader
      /\ runs[worker[w].run].sent + n <= FeedReserve
  BY Advancing
<1>2. q \in Queue
  BY GrowsTypes DEF QueueOk
<1>3. /\ next \in Reader /\ next.pc = "advance" /\ next.account = a /\ next.trigger = worker[w].trigger
      /\ next.run = worker[w].run /\ next.state = q
  BY <1>1, <1>2 DEF Reader
<1>4. n \in Nat OBVIOUS
<1> QED BY <1>1, <1>3, <1>4, RunGoesOn

\* The backfill's run ends with another queue.
LEMMA BackfillEnds ==
  ASSUME F!Assumptions, FeedInv, NEW w \in Workers, worker[w].pc = "advance", Grows, UNCHANGED feedClock,
         NEW n \in {0, 1}, n = 0 \/ ~F!Capped(w), NEW q, F!Finish(w, n, 0, q),
         NEW a, a = worker[w].account, QueueOk(q, a)'
  PROVE  FeedInv'
<1>1. /\ a \in F!Account /\ worker[w].trigger = "web_backfill"
      /\ runs[worker[w].run].sent + n <= FeedReserve
  BY Advancing
<1>2. q \in Queue BY GrowsTypes DEF QueueOk
<1>3. n \in Nat /\ 0 \in 0..MaxPost BY FeedSizes
<1> QED BY <1>1, <1>2, <1>3, RunFinishes

LEMMA StopRunStep ==
  ASSUME F!Assumptions, FeedInv, NEW w \in Workers, F!StopRun(w) PROVE FeedInv'
<1>1. PICK a, q : a = worker[w].account /\ q = worker[w].state OBVIOUS
<1>2. worker[w].pc = "advance" /\ UNCHANGED <<feedClock, listed, stored, given>> BY DEF F!StopRun
<1>3. Grows /\ QueueOk(q, a)' BY <1>1, <1>2, Advancing, NothingGrows, GrowsTypes
<1>4. F!Finish(w, 0, 0, q) \/ (~F!Capped(w) /\ F!Finish(w, 1, 0, q)) BY <1>1 DEF F!StopRun
<1> QED BY <1>1, <1>2, <1>3, <1>4, BackfillEnds

LEMMA ReadRobotsStep ==
  ASSUME F!Assumptions, FeedInv, NEW w \in Workers, NEW answer, F!ReadRobots(w, answer) PROVE FeedInv'
<1>1. PICK a, s : a = worker[w].account /\ s = worker[w].state OBVIOUS
<1>2. /\ worker[w].pc = "advance" /\ ~F!Capped(w) /\ F!Send(w, 1) /\ answer \in {"unknown", "allows", "unreachable"}
      /\ UNCHANGED <<feedClock, listed, stored, given>>
      /\ worker' = [worker EXCEPT ![w].robots = answer,
                                  ![w].state.phase = IF @ = "discover" THEN "sitemaps" ELSE @]
  BY DEF F!ReadRobots
<1>3. QueueOk(s, a) /\ s \in Queue /\ worker[w] \in Reader BY <1>1, <1>2, Advancing
<1>4. PICK q : q = [s EXCEPT !.phase = IF @ = "discover" THEN "sitemaps" ELSE @] OBVIOUS
<1>5. q \in Queue /\ q.urls = s.urls /\ q.seen = s.seen BY <1>3, <1>4 DEF Queue
<1>6. QueueOk(q, a) BY <1>3, <1>5 DEF QueueOk
<1>7. Grows /\ QueueOk(q, a)' BY <1>1, <1>2, <1>6, Advancing, NothingGrows, GrowsTypes
<1>8. PICK next : next = [worker[w] EXCEPT !.state = q, !.robots = answer] OBVIOUS
<1>9. worker' = [worker EXCEPT ![w] = next]
  BY <1>1, <1>2, <1>3, <1>4, <1>8 DEF FeedInv, FeedTypes, Reader, Queue
<1> QED BY <1>1, <1>2, <1>7, <1>8, <1>9, BackfillGoesOn

LEMMA ReadSitemapsStep ==
  ASSUME F!Assumptions, FeedInv, NEW w \in Workers, F!ReadSitemaps(w) PROVE FeedInv'
<1>1. PICK a, s : a = worker[w].account /\ s = worker[w].state OBVIOUS
<1>2. /\ worker[w].pc = "advance" /\ ~F!Capped(w) /\ F!Send(w, 1) /\ UNCHANGED <<feedClock, listed, stored, given>>
      /\ worker' = [worker EXCEPT ![w].state = [phase |-> "posts", urls |-> @.urls \cup 1..listed[a],
                                                seen |-> @.seen \cup 1..listed[a]]]
  BY <1>1 DEF F!ReadSitemaps, F!Advance
<1>3. QueueOk(s, a) /\ s \in Queue /\ worker[w] \in Reader /\ a \in F!Account BY <1>1, <1>2, Advancing
<1>4. PICK q : q = [phase |-> "posts", urls |-> s.urls \cup 1..listed[a], seen |-> s.seen \cup 1..listed[a]]
  OBVIOUS
<1>5. 1..listed[a] \subseteq Posts
  <2>1. listed[a] \in 1..MaxPost /\ MaxPost \in Nat BY <1>3, FeedSizes DEF FeedInv, FeedTypes, Posts
  <2> QED BY <2>1 DEF Posts
<1>6. q \in Queue /\ q.urls = s.urls \cup 1..listed[a] /\ q.seen = s.seen \cup 1..listed[a]
  BY <1>3, <1>4, <1>5 DEF Queue
<1>7. QueueOk(q, a) BY <1>3, <1>6 DEF QueueOk
<1>8. Grows /\ QueueOk(q, a)' BY <1>1, <1>2, <1>3, <1>7, NothingGrows, GrowsTypes
<1>9. PICK answer : answer \in {"unknown", "allows", "unreachable"} /\ answer = worker[w].robots
  BY <1>3 DEF Reader
<1>10. PICK next : next = [worker[w] EXCEPT !.state = q, !.robots = answer] OBVIOUS
<1>11. worker' = [worker EXCEPT ![w] = next]
  BY ZenonT(30), <1>1, <1>2, <1>3, <1>4, <1>9, <1>10 DEF FeedInv, FeedTypes, Reader
<1>12. answer \in {"unknown", "allows", "unreachable"} BY <1>9
<1>13. worker[w].pc = "advance" /\ ~F!Capped(w) /\ F!Send(w, 1) /\ UNCHANGED feedClock BY <1>2
<1> QED BY <1>1, <1>13, <1>8, <1>10, <1>11, <1>12, BackfillGoesOn

LEMMA SkipSitemapsStep ==
  ASSUME F!Assumptions, FeedInv, NEW w \in Workers, NEW n \in {0, 1}, F!SkipSitemaps(w, n) PROVE FeedInv'
<1>1. PICK a, s : a = worker[w].account /\ s = worker[w].state OBVIOUS
<1>2. /\ worker[w].pc = "advance" /\ (n = 0 \/ ~F!Capped(w)) /\ F!Send(w, n)
      /\ UNCHANGED <<feedClock, listed, stored, given>>
      /\ worker' = [worker EXCEPT ![w].state.phase = "posts"]
  BY DEF F!SkipSitemaps, F!Advance
<1>3. QueueOk(s, a) /\ s \in Queue /\ worker[w] \in Reader /\ a \in F!Account BY <1>1, <1>2, Advancing
<1>4. PICK q : q = [s EXCEPT !.phase = "posts"] OBVIOUS
<1>5. q \in Queue /\ q.urls = s.urls /\ q.seen = s.seen BY <1>3, <1>4 DEF Queue
<1>6. QueueOk(q, a) BY <1>3, <1>5 DEF QueueOk
<1>7. Grows /\ QueueOk(q, a)' BY <1>1, <1>2, <1>3, <1>6, NothingGrows, GrowsTypes
<1>8. PICK answer : answer \in {"unknown", "allows", "unreachable"} /\ answer = worker[w].robots
  BY <1>3 DEF Reader
<1>9. PICK next : next = [worker[w] EXCEPT !.state = q, !.robots = answer] OBVIOUS
<1>10. worker' = [worker EXCEPT ![w] = next]
  BY <1>1, <1>2, <1>3, <1>4, <1>8, <1>9 DEF FeedInv, FeedTypes, Reader
<1>11. answer \in {"unknown", "allows", "unreachable"} BY <1>8
<1>12. worker[w].pc = "advance" /\ (n = 0 \/ ~F!Capped(w)) /\ F!Send(w, n) /\ UNCHANGED feedClock BY <1>2
<1> QED BY <1>1, <1>12, <1>7, <1>9, <1>10, <1>11, BackfillGoesOn

\* A page that leaves the queue is settled.
LEMMA PageSettles ==
  ASSUME F!Assumptions, FeedInv, NEW w \in Workers, worker[w].pc = "advance", UNCHANGED listed,
         NEW p, p \in worker[w].state.urls, NEW a, a = worker[w].account,
         \/ stored' = [stored EXCEPT ![a] = @ \cup {p}] /\ UNCHANGED given
         \/ given' = [given EXCEPT ![a] = @ \cup {p}] /\ UNCHANGED stored,
         NEW q, q = F!Without(w, p)
  PROVE  Grows /\ QueueOk(q, a)'
<1>1. PICK s, R : s = worker[w].state /\ R = {p} OBVIOUS
<1>2. QueueOk(s, a) /\ s \in Queue /\ a \in F!Account BY <1>1, Advancing
<1>3. R \subseteq 1..listed[a] BY <1>1, <1>2 DEF QueueOk
<1>4. Grows /\ Settled(a)' = Settled(a) \cup {p} BY <1>1, <1>2, <1>3, PostSettles
<1>5. q = [s EXCEPT !.urls = @ \ {p}] BY <1>1 DEF F!Without
<1>6. q \in Queue /\ q.urls = s.urls \ {p} /\ q.seen = s.seen BY <1>2, <1>5 DEF Queue
<1>7. q.urls \subseteq 1..listed[a] /\ q.seen \subseteq q.urls \cup Settled(a)'
  BY <1>2, <1>4, <1>6 DEF QueueOk
<1> QED BY <1>4, <1>6, <1>7, GrowsTypes DEF QueueOk

LEMMA FetchPostStep ==
  ASSUME F!Assumptions, FeedInv, NEW w \in Workers, NEW p, F!FetchPost(w, p) PROVE FeedInv'
<1>1. PICK a, q : a = worker[w].account /\ q = F!Without(w, p) OBVIOUS
<1>2. /\ worker[w].pc = "advance" /\ p \in worker[w].state.urls /\ ~F!Capped(w) /\ F!Send(w, 1)
      /\ stored' = [stored EXCEPT ![a] = @ \cup {p}] /\ UNCHANGED <<feedClock, listed, given>>
      /\ worker' = [worker EXCEPT ![w].state = q]
  BY <1>1 DEF F!FetchPost, F!Advance
<1>3. Grows /\ QueueOk(q, a)' BY <1>1, <1>2, PageSettles
<1>4. worker[w] \in Reader BY Executing
<1>5. PICK answer : answer \in {"unknown", "allows", "unreachable"} /\ answer = worker[w].robots
  BY <1>4 DEF Reader
<1>6. PICK next : next = [worker[w] EXCEPT !.state = q, !.robots = answer] OBVIOUS
<1>7. worker' = [worker EXCEPT ![w] = next]
  BY <1>2, <1>4, <1>5, <1>6 DEF FeedInv, FeedTypes, Reader
<1>8. answer \in {"unknown", "allows", "unreachable"} BY <1>5
<1>9. worker[w].pc = "advance" /\ ~F!Capped(w) /\ F!Send(w, 1) /\ UNCHANGED feedClock BY <1>2
<1> QED BY <1>1, <1>9, <1>3, <1>6, <1>7, <1>8, BackfillGoesOn

LEMMA RateLimitedStep ==
  ASSUME F!Assumptions, FeedInv, NEW w \in Workers, NEW p, F!RateLimited(w, p) PROVE FeedInv'
<1>1. PICK a, s : a = worker[w].account /\ s = worker[w].state OBVIOUS
<1>2. /\ worker[w].pc = "advance" /\ ~F!Capped(w) /\ UNCHANGED <<feedClock, listed, stored, given>>
      /\ F!Finish(w, 1, 0, [s EXCEPT !.urls = @])
  BY <1>1 DEF F!RateLimited, F!Advance, F!AfterRateLimit
<1>3. QueueOk(s, a) /\ s \in Queue BY <1>1, <1>2, Advancing
<1>4. PICK q : q = [s EXCEPT !.urls = @] OBVIOUS
<1>5. q \in Queue /\ q.urls = s.urls /\ q.seen = s.seen BY <1>3, <1>4 DEF Queue
<1>6. QueueOk(q, a) BY <1>3, <1>5 DEF QueueOk
<1>7. Grows /\ QueueOk(q, a)' BY <1>1, <1>2, <1>6, Advancing, NothingGrows, GrowsTypes
<1> QED BY <1>1, <1>2, <1>4, <1>7, BackfillEnds

LEMMA GiveUpPostStep ==
  ASSUME F!Assumptions, FeedInv, NEW w \in Workers, NEW p, F!GiveUpPost(w, p) PROVE FeedInv'
<1>1. PICK a, q : a = worker[w].account /\ q = F!Without(w, p) OBVIOUS
<1>2. /\ worker[w].pc = "advance" /\ p \in worker[w].state.urls
      /\ (~F!Capped(w) /\ F!Send(w, 1)) \/ UNCHANGED runs
      /\ given' = [given EXCEPT ![a] = @ \cup {p}] /\ UNCHANGED <<feedClock, listed, stored>>
      /\ worker' = [worker EXCEPT ![w].state = q]
  BY <1>1 DEF F!GiveUpPost, F!Advance
<1>3. Grows /\ QueueOk(q, a)' BY <1>1, <1>2, PageSettles
<1>4. worker[w] \in Reader BY Executing
<1>5. PICK answer : answer \in {"unknown", "allows", "unreachable"} /\ answer = worker[w].robots
  BY <1>4 DEF Reader
<1>6. PICK next : next = [worker[w] EXCEPT !.state = q, !.robots = answer] OBVIOUS
<1>7. worker' = [worker EXCEPT ![w] = next]
  BY <1>2, <1>4, <1>5, <1>6 DEF FeedInv, FeedTypes, Reader
<1>8. answer \in {"unknown", "allows", "unreachable"} BY <1>5
<1>9. worker[w].pc = "advance" /\ ((~F!Capped(w) /\ F!Send(w, 1)) \/ UNCHANGED runs) /\ UNCHANGED feedClock
  BY <1>2
<1> QED BY <1>1, <1>9, <1>3, <1>6, <1>7, <1>8, BackfillGoesOn

LEMMA BackfillFailsStep ==
  ASSUME F!Assumptions, FeedInv, NEW w \in Workers, NEW p, F!BackfillFails(w, p) PROVE FeedInv'
<1>1. PICK a, q : a = worker[w].account /\ q = F!Without(w, p) OBVIOUS
<1>2. /\ worker[w].pc = "advance" /\ p \in worker[w].state.urls /\ ~F!Capped(w) /\ F!Finish(w, 1, 0, q)
      /\ given' = [given EXCEPT ![a] = @ \cup {p}] /\ UNCHANGED <<feedClock, listed, stored>>
  BY <1>1 DEF F!BackfillFails, F!Advance
<1>3. Grows /\ QueueOk(q, a)' BY <1>1, <1>2, PageSettles
<1> QED BY <1>1, <1>2, <1>3, BackfillEnds

LEMMA KnownPostsStep ==
  ASSUME F!Assumptions, FeedInv, NEW w \in Workers, F!KnownPosts(w) PROVE FeedInv'
<1>1. PICK a, s : a = worker[w].account /\ s = worker[w].state OBVIOUS
<1>2. /\ worker[w].pc = "advance" /\ UNCHANGED <<feedClock, listed, stored, runs, given>>
      /\ worker' = [worker EXCEPT ![w].state.urls = @ \ (s.urls \cap stored[a])]
  BY <1>1 DEF F!KnownPosts, F!Advance
<1>3. QueueOk(s, a) /\ s \in Queue /\ worker[w] \in Reader /\ a \in F!Account BY <1>1, <1>2, Advancing
<1>4. PICK q : q = [s EXCEPT !.urls = @ \ (s.urls \cap stored[a])] OBVIOUS
<1>5. q \in Queue /\ q.urls = s.urls \ (s.urls \cap stored[a]) /\ q.seen = s.seen
  BY <1>3, <1>4 DEF Queue
<1>6. QueueOk(q, a) BY <1>3, <1>5 DEF QueueOk, Settled
<1>7. Grows /\ QueueOk(q, a)' BY <1>1, <1>2, <1>3, <1>6, NothingGrows, GrowsTypes
<1>8. PICK answer : answer \in {"unknown", "allows", "unreachable"} /\ answer = worker[w].robots
  BY <1>3 DEF Reader
<1>9. PICK next : next = [worker[w] EXCEPT !.state = q, !.robots = answer] OBVIOUS
<1>10. worker' = [worker EXCEPT ![w] = next]
  BY <1>1, <1>2, <1>3, <1>4, <1>8, <1>9 DEF FeedInv, FeedTypes, Reader
<1>11. answer \in {"unknown", "allows", "unreachable"} BY <1>8
<1>12. worker[w].pc = "advance" /\ UNCHANGED <<feedClock, runs>> BY <1>2
<1> QED BY <1>1, <1>12, <1>7, <1>9, <1>10, <1>11, BackfillGoesOn

LEMMA QueueEmptyStep ==
  ASSUME F!Assumptions, FeedInv, NEW w \in Workers, F!QueueEmpty(w) PROVE FeedInv'
<1>1. PICK a, s : a = worker[w].account /\ s = worker[w].state OBVIOUS
<1>2. /\ worker[w].pc = "advance" /\ UNCHANGED <<feedClock, listed, stored, given>>
      /\ F!Finish(w, 0, 0, [s EXCEPT !.phase = "done"])
  BY <1>1 DEF F!QueueEmpty, F!Advance
<1>3. QueueOk(s, a) /\ s \in Queue BY <1>1, <1>2, Advancing
<1>4. PICK q : q = [s EXCEPT !.phase = "done"] OBVIOUS
<1>5. q \in Queue /\ q.urls = s.urls /\ q.seen = s.seen BY <1>3, <1>4 DEF Queue
<1>6. QueueOk(q, a) BY <1>3, <1>5 DEF QueueOk
<1>7. Grows /\ QueueOk(q, a)' BY <1>1, <1>2, <1>6, Advancing, NothingGrows, GrowsTypes
<1> QED BY <1>1, <1>2, <1>4, <1>7, BackfillEnds

LEMMA PublishStep ==
  ASSUME F!Assumptions, FeedInv, NEW a, F!Publish(a) PROVE FeedInv'
<1>1. /\ a \in F!Account /\ listed[a] < MaxPost /\ listed' = [listed EXCEPT ![a] = @ + 1]
      /\ UNCHANGED <<feedClock, stored, runs, worker, given>>
  BY DEF F!Publish
<1>2. /\ listed \in [F!Account -> Posts] /\ stored \in [F!Account -> SUBSET Posts]
      /\ given \in [F!Account -> SUBSET Posts] /\ MaxPost \in Nat /\ feedClock \in 0..FeedTicks
      /\ \A c \in F!Account : stored[c] \cup given[c] \subseteq 1..listed[c]
  BY FeedSizes DEF FeedInv, FeedTypes, F!TypeOK
<1>3. listed[a] \in Nat /\ listed[a] + 1 \in Posts BY <1>1, <1>2 DEF Posts
<1>4. listed' \in [F!Account -> Posts] BY <1>1, <1>2, <1>3
<1>5. ASSUME NEW c \in F!Account
      PROVE  /\ listed[c] <= listed'[c] /\ stored[c] \cup given[c] \subseteq 1..listed'[c]
  <2>1. listed[c] \in Nat /\ (listed'[c] = listed[c] \/ listed'[c] = listed[c] + 1)
    BY <1>1, <1>2, <1>3 DEF Posts
  <2>2. 1..listed[c] \subseteq 1..listed'[c] BY <2>1
  <2> QED BY <1>2, <2>1, <2>2
<1>6. Grows BY <1>1, <1>2, <1>4, <1>5 DEF Grows
<1>7. feedClock' \in 0..FeedTicks BY <1>1, <1>2
<1> QED BY <1>1, <1>6, <1>7, FeedStays

LEMMA FeedInvStep == ASSUME F!Assumptions, FeedInv, [F!Next]_F!vars PROVE FeedInv'
<1>1. feedClock \in 0..FeedTicks /\ FeedTicks \in Nat BY FeedSizes DEF FeedInv, F!TypeOK
<1>2. CASE F!Tick
  <2>1. feedClock' \in 0..FeedTicks BY <1>1, <1>2 DEF F!Tick
  <2> QED BY <1>2, <2>1, NothingGrows, FeedStays DEF F!Tick
<1>3. CASE UNCHANGED F!vars
  <2>1. feedClock' \in 0..FeedTicks BY <1>1, <1>3 DEF F!vars
  <2> QED BY <1>3, <2>1, NothingGrows, FeedStays DEF F!vars
<1>4. ASSUME NEW w \in Workers, F!WorkerDies(w) PROVE FeedInv'
  BY <1>4, FeedRestStep DEF F!WorkerDies
<1>5. ASSUME NEW w \in Workers, NEW n \in 0..1, F!SkipSitemaps(w, n) PROVE FeedInv'
  <2>1. n \in {0, 1} OBVIOUS
  <2> QED BY <1>5, <2>1, SkipSitemapsStep
<1> QED
  BY <1>2, <1>3, <1>4, <1>5, PublishStep, SelectCheckStep, SelectBackfillStep, ClaimSiteCheckStep,
     ClaimFeedCheckStep, ClaimBackfillStep, ReadFeedStep, NotReadStep, IngestStep, SaveCheckStep, StopRunStep,
     ReadRobotsStep, ReadSitemapsStep, FetchPostStep, RateLimitedStep, GiveUpPostStep, BackfillFailsStep,
     KnownPostsStep, QueueEmptyStep, Zenon DEF F!Next

LEMMA FeedBudgetHolds == ASSUME F!Assumptions, FeedInv PROVE F!WithinDailyBudget
<1> USE DEF FeedInv
<1>1. ASSUME NEW ids, ids \subseteq 1..Len(runs)
      PROVE  F!Requests(ids) \in Nat /\ F!Limits(ids) \in Nat /\ F!Requests(ids) <= F!Limits(ids)
  <2> DEFINE spent == {q \in ids \X (1..FeedReserve) : q[2] <= runs[q[1]].sent}
             granted   == {q \in ids \X (1..FeedReserve) : q[2] <= runs[q[1]].limit}
  <2>1. spent \subseteq granted
    <3>1. ASSUME NEW q \in ids \X (1..FeedReserve), q[2] <= runs[q[1]].sent PROVE q[2] <= runs[q[1]].limit
      <4>1. q[1] \in ids /\ q[2] \in 1..FeedReserve /\ FeedReserve \in Nat BY FeedSizes
      <4>2. q[1] \in 1..Len(runs) BY <1>1, <4>1
      <4>3. q[2] \in Nat BY <4>1
      <4>4. runs[q[1]] \in FeedRow /\ FeedRowOk(q[1]) BY <4>2 DEF FeedTypes, FeedRowsOk
      <4>5. runs[q[1]].sent \in Nat /\ runs[q[1]].limit \in Nat /\ runs[q[1]].sent <= runs[q[1]].limit
        BY <4>4 DEF FeedRow, FeedRowOk
      <4> QED BY <3>1, <4>5, <4>3
    <3> QED BY <3>1
  <2>2. spent \subseteq ids \X (1..FeedReserve) /\ granted \subseteq ids \X (1..FeedReserve) OBVIOUS
  <2>3. F!Requests(ids) = Cardinality(spent) /\ F!Limits(ids) = Cardinality(granted)
    BY SameCounts DEF F!Requests, F!Limits
  <2> HIDE DEF spent, granted
  <2>4. IsFiniteSet(granted) /\ Cardinality(spent) \in Nat /\ Cardinality(granted) \in Nat
    BY <1>1, <2>2, TokensFinite
  <2>5. Cardinality(spent) <= Cardinality(granted) BY <2>1, <2>4, FS_Subset
  <2> QED BY <2>3, <2>4, <2>5
<1> SUFFICES ASSUME NEW d \in 0..(FeedTicks \div FeedDay)
             PROVE  /\ F!Requests(F!RunsOn({"web_feed", "web_backfill"}, d)) <= FeedBudget
                    /\ F!Requests(F!RunsOn({"podcast_feed"}, d)) <= FeedBudget
                    /\ \A a \in Sites : F!Requests(F!BackfillsOn(a, d)) <= SiteBudget
  BY DEF F!WithinDailyBudget
<1>2. d \in Nat /\ FeedBudget \in Nat /\ SiteBudget \in Nat
  <2>1. FeedTicks \div FeedDay \in Nat BY FeedSizes, DivBounds
  <2> QED BY <2>1, FeedSizes
<1>3. \A triggers : F!RunsOn(triggers, d) \subseteq 1..Len(runs) BY DEF F!RunsOn
<1>4. \A a : F!BackfillsOn(a, d) \subseteq 1..Len(runs) BY DEF F!BackfillsOn, F!RunsOn
<1>5. ASSUME NEW triggers, F!Limits(F!RunsOn(triggers, d)) <= FeedBudget PROVE F!Requests(F!RunsOn(triggers, d)) <= FeedBudget
  BY <1>1, <1>2, <1>3, <1>5
<1>6. ASSUME NEW a \in Sites PROVE F!Requests(F!BackfillsOn(a, d)) <= SiteBudget
  <2>1. F!Limits(F!BackfillsOn(a, d)) <= SiteBudget BY <1>2 DEF PoolsWithin
  <2> QED BY <2>1, <1>1, <1>2, <1>4
<1> QED BY <1>2, <1>5, <1>6 DEF PoolsWithin

LEMMA PostsAreAccountedFor == ASSUME FeedInv PROVE F!PostsAccountedFor
<1> SUFFICES ASSUME NEW i \in 1..Len(runs)
             PROVE  /\ runs[i].trigger # "web_backfill" =>
                          1..runs[i].etag \subseteq stored[runs[i].account] \cup given[runs[i].account]
                    /\ runs[i].trigger = "web_backfill" =>
                          runs[i].state.seen \subseteq
                            runs[i].state.urls \cup stored[runs[i].account] \cup given[runs[i].account]
  BY DEF F!PostsAccountedFor
<1>1. FeedRowOk(i) BY DEF FeedInv, FeedRowsOk
<1> QED BY <1>1 DEF FeedRowOk, QueueOk, Settled

-----------------------------------------------------------------------------
(* PriceHistory.  What the tables say agrees, before and after the run, and *)
(* every request of the plan fits the feed. *)

Day == 1..LastDay
PriceCheck == [status : {"ok", "pending", "failed", "deferred"}, from : 0..LastDay,
               to : 0..LastDay, chart : 0..LastDay, due : Nat]
PriceWindow == [from : Day, to : Day]
PriceTarget == [printing : Printings, windows : SUBSET PriceWindow, chart : BOOLEAN,
                from : Day, to : Day]
PriceRequest == [from : Day, to : Day, targets : Seq(PriceTarget)]
DaySets == [Printings -> SUBSET Day]
PriceState == [stored : DaySets, taken : DaySets, check : [Printings -> {None} \cup PriceCheck],
               asked : DaySets, owed : DaySets, refused : DaySets]
PriceRun == [todo : SUBSET PriceTarget, batches : Seq(PriceRequest), open : BOOLEAN,
             written : Nat, deferred : BOOLEAN, day : Nat, before : PriceState]

LEMMA PriceSizes ==
  ASSUME P!Assumptions
  PROVE  /\ StartBefore \in Nat /\ ChartOverlap \in Nat
         /\ StartAfter \in Nat \ {0} /\ CloseBefore \in Nat \ {0} /\ MaxDays \in Nat \ {0}
         /\ BatchSize \in Nat \ {0} /\ MaxPoints \in Nat \ {0} /\ ChartDays \in Nat \ {0}
         /\ RefreshDays \in Nat \ {0} /\ LastDay \in Nat \ {0}
         /\ ChartDays <= MaxDays + 1 /\ IsFiniteSet(Printings) /\ ChartPrintings \subseteq Printings
         /\ \A c \in PriceCalls : c.printing \in Printings /\ c.day \in Nat \ {0} /\ c.horizon \in Nat \ {0}
BY DEF P!Assumptions, P!IsFiniteSet, IsFiniteSet

\* What the tables say of the printings is in agreement: what has a price or a row
\* the source had, what has a row or was owed has a price or was refused, and what
\* counts as fetched was asked for.
TablesAgree(s, t, c, a, o, r) ==
  /\ {s, t, a, o, r} \subseteq DaySets /\ c \in [Printings -> {None} \cup PriceCheck]
  /\ \A p \in Printings :
       /\ s[p] \subseteq t[p] /\ t[p] \subseteq offered[p]
       /\ t[p] \subseteq s[p] \cup r[p] /\ o[p] \subseteq s[p] \cup r[p]
       /\ c[p] # None /\ c[p].from # 0 => c[p].from .. c[p].to \subseteq a[p]
TablesOk == TablesAgree(prices, taken, check, asked, owed, refused)
BeforeOk == TablesAgree(run.before.stored, run.before.taken, run.before.check, run.before.asked,
                        run.before.owed, run.before.refused)

Fits(t) == t.to - t.from <= MaxDays

\* A request the source accepts.
RequestFits(b) == Fits(b) /\ b.targets # <<>> /\ Len(b.targets) <= BatchSize

\* The days the run has made rows of.
NewDays == {x \in Printings \X Day : x[2] \in taken[x[1]] \ run.before.taken[x[1]]}

RunOk ==
  /\ run \in PriceRun
  /\ \A t \in run.todo : Fits(t)
  /\ \A i \in 1..Len(run.batches) : RequestFits(run.batches[i])
  /\ run.open => run.batches # <<>>
  /\ BeforeOk
  /\ \A p \in Printings : run.before.taken[p] \subseteq taken[p]
  /\ run.written <= Cardinality(NewDays)

PriceInv ==
  /\ today \in Day /\ calls \subseteq PriceCalls
  /\ offered \in DaySets /\ \A p \in Printings : offered[p] \subseteq 1..(today - 1)
  /\ TablesOk
  /\ run # None => RunOk

LEMMA PriceStart == ASSUME P!Assumptions, P!Init PROVE PriceInv
BY PriceSizes DEF P!Init, PriceInv, TablesAgree, TablesOk, DaySets, Day

(* What is asked. *)

LEMMA HasLeast ==
  ASSUME NEW R, R \subseteq Nat, R # {} PROVE \E x \in R : \A y \in R : x <= y
<1>1. PICK k \in R : \A j \in R : ~ (<<j, k>> \in OpToRel(<, Nat))
  BY NatLessThanWellFounded, WFMin
<1>2. \A j \in R : ~ (j < k) BY <1>1, Zenon DEF OpToRel
<1> QED BY <1>2

LEMMA WindowFits ==
  ASSUME P!Assumptions, PriceInv, NEW p \in Printings, NEW w \in P!CallWindows(p)
  PROVE  w \in PriceWindow /\ w.to <= today - 1 /\ w.from >= today - 1 - MaxDays
<1>1. today \in Nat /\ today <= LastDay /\ calls \subseteq PriceCalls BY PriceSizes DEF PriceInv, Day
<1>2. PICK from \in Int, to \in Int : w = P!Clip(from, to)
  <2>1. CASE \E c \in calls : w = P!Clip(c.day - StartBefore, c.day + StartAfter)
    <3>1. PICK c \in calls : w = P!Clip(c.day - StartBefore, c.day + StartAfter) BY <2>1
    <3>2. c.day \in Nat BY <1>1, PriceSizes
    <3>3. c.day - StartBefore \in Int /\ c.day + StartAfter \in Int BY <3>2, PriceSizes
    <3> QED BY <3>1, <3>3
  <2>2. CASE \E c \in calls : w = P!Clip(P!End(c) - CloseBefore, P!End(c))
    <3>1. PICK c \in calls : w = P!Clip(P!End(c) - CloseBefore, P!End(c)) BY <2>2
    <3>2. c.day \in Nat /\ c.horizon \in Nat BY <1>1, PriceSizes
    <3>3. P!End(c) \in Int /\ P!End(c) - CloseBefore \in Int BY <3>2, PriceSizes DEF P!End
    <3> QED BY <3>1, <3>3
  <2> QED BY <2>1, <2>2 DEF P!CallWindows
<1>3. w.from <= w.to BY DEF P!CallWindows
<1> QED BY <1>1, <1>2, <1>3, PriceSizes DEF P!Clip, P!Max2, P!Min2, PriceWindow, Day

\* A target's range spans its windows.
LEMMA TargetFits ==
  ASSUME P!Assumptions, PriceInv, NEW p \in Printings, NEW chart \in BOOLEAN,
         NEW W, W # {}, \A w \in W : w \in PriceWindow /\ w.to <= today - 1 /\ w.from >= today - 1 - MaxDays
  PROVE  P!Target(p, W, chart) \in PriceTarget /\ Fits(P!Target(p, W, chart))
<1> DEFINE froms == {w.from : w \in W}
           tos == {w.to : w \in W}
           t == P!Target(p, W, chart)
<1>1. today \in Nat /\ today <= LastDay BY PriceSizes DEF PriceInv, Day
<1>2. \A d \in froms : d \in Day /\ d >= today - 1 - MaxDays BY DEF PriceWindow
<1>3. \A d \in tos : d \in Day /\ d <= today - 1 BY DEF PriceWindow
<1>4. froms # {} /\ tos # {} OBVIOUS
<1> HIDE DEF froms, tos
<1>5. froms \subseteq Nat /\ tos \subseteq Nat BY <1>2, <1>3 DEF Day
<1>6. \E d \in froms : \A x \in froms : d <= x BY <1>4, <1>5, HasLeast
<1>7. \E d \in tos : \A x \in tos : d >= x
  <2>1. \A x \in tos : x <= today BY <1>3, <1>5, <1>1
  <2> QED BY <1>1, <1>4, <1>5, <2>1, HasLargest
<1>8. t = [printing |-> p, windows |-> W, chart |-> chart,
           from |-> CHOOSE d \in froms : \A x \in froms : d <= x,
           to |-> CHOOSE d \in tos : \A x \in tos : d >= x]
  BY DEF P!Target, froms, tos
<1>9. t.from \in froms /\ t.to \in tos BY <1>6, <1>7, <1>8
<1>10. t.to - t.from <= MaxDays
  <2>1. t.from >= today - 1 - MaxDays /\ t.to <= today - 1 /\ t.from \in Nat /\ t.to \in Nat
    BY <1>2, <1>3, <1>5, <1>9
  <2> QED BY <2>1, <1>1, PriceSizes
<1>11. t \in PriceTarget BY <1>2, <1>3, <1>8, <1>9 DEF PriceTarget
<1> QED BY <1>10, <1>11 DEF Fits

LEMMA CallTargetsFit ==
  ASSUME P!Assumptions, PriceInv, NEW t \in P!CallTargets
  PROVE  t \in PriceTarget /\ Fits(t)
<1>1. PICK p \in Printings : P!Wanted(p) /\ t = P!Target(p, P!CallWindows(p), FALSE) BY DEF P!CallTargets
<1>2. P!CallWindows(p) # {} BY <1>1 DEF P!Wanted
<1>3. \A w \in P!CallWindows(p) :
        w \in PriceWindow /\ w.to <= today - 1 /\ w.from >= today - 1 - MaxDays
  BY WindowFits
<1> QED BY <1>1, <1>2, <1>3, TargetFits

LEMMA ChartTargetsFit ==
  ASSUME P!Assumptions, PriceInv, NEW t \in P!ChartTargets
  PROVE  t \in PriceTarget /\ Fits(t)
<1>1. PICK p \in ChartPrintings :
        /\ today > 1 /\ (check[p] # None => check[p].chart \in {0} \cup 1 .. today - RefreshDays - 1)
        /\ t = P!Target(p, {P!ChartRange(p)}, TRUE)
  BY DEF P!ChartTargets
<1>2. p \in Printings /\ today \in Nat /\ today <= LastDay BY PriceSizes DEF PriceInv, Day
<1> DEFINE first == P!Max2(1, today - ChartDays)
           last == IF check[p] = None THEN 0 ELSE check[p].chart
           w == P!ChartRange(p)
<1>3. last \in Nat /\ last <= today /\ (last # 0 => last <= today - RefreshDays - 1)
  BY <1>1, <1>2, PriceSizes
<1>4. first \in Nat /\ first >= 1 /\ first <= today - 1 /\ first >= today - ChartDays
  BY <1>1, <1>2, PriceSizes DEF P!Max2
<1>5. w = [from |-> IF last = 0 THEN first ELSE P!Max2(first, last - ChartOverlap), to |-> today - 1]
  BY DEF P!ChartRange
<1> HIDE DEF first, last, w
<1>6. w.from \in Day /\ w.from >= today - ChartDays /\ w.to = today - 1 /\ w.to \in Day
  BY <1>1, <1>2, <1>3, <1>4, <1>5, PriceSizes DEF P!Max2, Day
<1>7. w \in PriceWindow BY <1>5, <1>6 DEF PriceWindow
<1>8. w.from >= today - 1 - MaxDays BY <1>2, <1>6, PriceSizes DEF Day
<1>9. t = P!Target(p, {w}, TRUE) BY <1>1 DEF w
<1>10. \A x \in {w} : x \in PriceWindow /\ x.to <= today - 1 /\ x.from >= today - 1 - MaxDays
  <2>1. w.to <= today - 1 BY <1>2, <1>6
  <2> QED BY <2>1, <1>7, <1>8
<1>11. {w} # {} OBVIOUS
<1>12. P!Target(p, {w}, TRUE) \in PriceTarget /\ Fits(P!Target(p, {w}, TRUE))
  BY <1>2, <1>10, <1>11, TargetFits
<1> QED BY <1>9, <1>12

\* Joining keeps a request within the source's limits.
LEMMA JoinLastFits ==
  ASSUME P!Assumptions, NEW batches \in Seq(PriceRequest), \A i \in 1..Len(batches) : RequestFits(batches[i]),
         NEW t \in PriceTarget, Fits(t)
  PROVE  LET joined == P!JoinLast(batches, t)
         IN joined \in Seq(PriceRequest) /\ \A i \in 1..Len(joined) : RequestFits(joined[i])
<1> DEFINE n == Len(batches)
           joined == P!JoinLast(batches, t)
<1>1. n \in Nat /\ \A i \in 1..n : batches[i] \in PriceRequest OBVIOUS
<1>2. CASE n > 0 /\ P!Joins(batches[n], t)
  <2> DEFINE last == batches[n]
             more == P!Joined(last, t)
  <2>1. last \in PriceRequest /\ RequestFits(last) BY <1>1, <1>2
  <2>2. joined = [batches EXCEPT ![n] = more] BY <1>2 DEF P!JoinLast
  <2>3. more = [from |-> P!Min2(last.from, t.from), to |-> P!Max2(last.to, t.to),
                targets |-> Append(last.targets, t)]
    BY DEF P!Joined
  <2>4. Len(last.targets) < BatchSize /\ more.to - more.from <= MaxDays BY <1>2 DEF P!Joins
  <2> HIDE DEF last, more, joined
  <2>5. last.targets \in Seq(PriceTarget) /\ last.from \in Day /\ last.to \in Day BY <2>1 DEF PriceRequest
  <2>6. Append(last.targets, t) \in Seq(PriceTarget) /\ Len(Append(last.targets, t)) = Len(last.targets) + 1
    BY <2>5
  <2>7. P!Min2(last.from, t.from) \in Day /\ P!Max2(last.to, t.to) \in Day
    BY <2>5 DEF P!Min2, P!Max2, PriceTarget
  <2>8. more \in PriceRequest BY <2>3, <2>6, <2>7 DEF PriceRequest
  <2>9. RequestFits(more)
    <3>1. Len(last.targets) \in Nat BY <2>5
    <3>2. Len(more.targets) = Len(last.targets) + 1 BY <2>3, <2>6
    <3>3. Len(more.targets) <= BatchSize BY <3>1, <3>2, <2>4, PriceSizes
    <3>4. more.targets # <<>> BY <3>1, <3>2
    <3> QED BY <3>3, <3>4, <2>4 DEF RequestFits, Fits
  <2>10. joined \in Seq(PriceRequest) /\ Len(joined) = n BY <2>2, <2>8, <1>2
  <2>11. \A i \in 1..n : joined[i] = IF i = n THEN more ELSE batches[i] BY <2>2
  <2> QED BY <2>9, <2>10, <2>11 DEF joined
<1>3. CASE ~(n > 0 /\ P!Joins(batches[n], t))
  <2> DEFINE new == [from |-> t.from, to |-> t.to, targets |-> <<t>>]
  <2>1. joined = Append(batches, new) BY <1>3 DEF P!JoinLast
  <2>2. new \in PriceRequest BY DEF PriceRequest, PriceTarget
  <2>3. RequestFits(new) BY PriceSizes DEF RequestFits, Fits
  <2> HIDE DEF new, joined
  <2>4. joined \in Seq(PriceRequest) /\ Len(joined) = n + 1 BY <2>1, <2>2
  <2>5. \A i \in 1..(n + 1) : joined[i] = IF i = n + 1 THEN new ELSE batches[i] BY <2>1
  <2> QED BY <2>3, <2>4, <2>5, <1>1 DEF joined
<1> QED BY <1>2, <1>3

(* The run. *)

LEMMA StartRunStep == ASSUME P!Assumptions, PriceInv, P!StartRun PROVE PriceInv'
<1> DEFINE before == [stored |-> prices, taken |-> taken, check |-> check, asked |-> asked,
                      owed |-> owed, refused |-> refused]
<1>1. /\ run' = [todo |-> P!CallTargets \cup P!ChartTargets, batches |-> <<>>, open |-> FALSE,
                 written |-> 0, deferred |-> FALSE, day |-> today, before |-> before]
      /\ UNCHANGED <<today, calls, offered, prices, taken, check, asked, owed, refused>>
  BY DEF P!StartRun
<1>2. TablesOk BY DEF PriceInv
<1>3. before \in PriceState BY <1>2 DEF TablesAgree, TablesOk, PriceState
<1>4. \A t \in run'.todo : t \in PriceTarget /\ Fits(t) BY <1>1, CallTargetsFit, ChartTargetsFit
<1>5. today \in Nat BY PriceSizes DEF PriceInv, Day
<1>6. run' \in PriceRun
  <2>1. run'.todo \subseteq PriceTarget BY <1>4
  <2>2. <<>> \in Seq(PriceRequest) OBVIOUS
  <2> HIDE DEF before
  <2> QED BY <1>1, <1>3, <1>5, <2>1, <2>2 DEF PriceRun
<1>7. TablesOk' BY <1>1, <1>2 DEF TablesAgree, TablesOk
<1>8. BeforeOk'
  BY <1>1, <1>7 DEF TablesAgree, TablesOk, BeforeOk
<1>9. NewDays' = {} BY <1>1 DEF NewDays
<1>10. Cardinality(NewDays') = 0 BY <1>9, FS_EmptySet
<1>11. RunOk' BY <1>1, <1>4, <1>6, <1>8, <1>10 DEF RunOk
<1> QED BY <1>1, <1>7, <1>11 DEF PriceInv

LEMMA PlanTargetStep ==
  ASSUME P!Assumptions, PriceInv, NEW p \in Printings, P!PlanTarget(p) PROVE PriceInv'
<1>1. RunOk /\ TablesOk BY DEF PriceInv, P!PlanTarget
<1>2. PICK t \in run.todo : run' = [run EXCEPT !.todo = @ \ {t}, !.batches = P!JoinLast(@, t)]
  BY DEF P!PlanTarget
<1>3. UNCHANGED <<today, calls, offered, prices, taken, check, asked, owed, refused>> BY DEF P!PlanTarget
<1> DEFINE joined == P!JoinLast(run.batches, t)
<1>4. t \in PriceTarget /\ Fits(t) BY <1>1 DEF RunOk, PriceRun
<1>5. run.batches \in Seq(PriceRequest) BY <1>1 DEF RunOk, PriceRun
<1>6. joined \in Seq(PriceRequest) /\ \A i \in 1..Len(joined) : RequestFits(joined[i])
  BY <1>1, <1>4, <1>5, JoinLastFits DEF RunOk
<1>7. run' = [run EXCEPT !.todo = @ \ {t}, !.batches = joined] BY <1>2
<1>8. joined # <<>>
  <2> DEFINE n == Len(run.batches)
             last == [run.batches EXCEPT ![n] = P!Joined(@, t)]
             new == [from |-> t.from, to |-> t.to, targets |-> <<t>>]
  <2>1. n \in Nat BY <1>5
  <2>2. CASE n > 0 /\ P!Joins(run.batches[n], t)
    <3>1. joined = last BY <2>2 DEF P!JoinLast
    <3>2. DOMAIN last = 1..n BY <1>5
    <3> HIDE DEF joined, last
    <3>3. n \in DOMAIN joined BY <2>1, <2>2, <3>1, <3>2
    <3> QED BY <3>3
  <2>3. CASE ~(n > 0 /\ P!Joins(run.batches[n], t))
    <3>1. joined = Append(run.batches, new) BY <2>3 DEF P!JoinLast
    <3> HIDE DEF joined, new
    <3>2. Len(joined) = n + 1
      <4> DEFINE Both == {run.batches[k] : k \in 1..n} \cup {new}
      <4>1. run.batches \in Seq(Both) /\ new \in Both BY <1>5
      <4> QED BY <3>1, <4>1
    <3> QED BY <2>1, <3>2
  <2> QED BY <2>2, <2>3
<1> HIDE DEF joined
<1>9. run' \in PriceRun BY <1>1, <1>6, <1>7 DEF RunOk, PriceRun
<1>10. /\ run'.todo \subseteq run.todo /\ run'.batches = joined /\ run'.before = run.before
       /\ run'.written = run.written
  BY <1>1, <1>7 DEF RunOk, PriceRun
<1>11. TablesOk' BY <1>1, <1>3 DEF TablesAgree, TablesOk
<1>12. BeforeOk'
  BY <1>1, <1>3, <1>10 DEF TablesAgree, TablesOk, BeforeOk, RunOk
<1>13. NewDays' = NewDays BY <1>3, <1>10 DEF NewDays
<1>14. RunOk' BY <1>1, <1>3, <1>6, <1>8, <1>9, <1>10, <1>12, <1>13 DEF RunOk
<1> QED BY <1>3, <1>11, <1>14 DEF PriceInv

LEMMA PriceRequestStep == ASSUME P!Assumptions, PriceInv, P!Request PROVE PriceInv'
<1>1. RunOk /\ TablesOk BY DEF PriceInv, P!Request
<1>2. /\ run' = [run EXCEPT !.open = TRUE] /\ run.batches # <<>>
      /\ UNCHANGED <<today, calls, offered, prices, taken, check, asked, owed, refused>>
  BY DEF P!Request
<1>3. run' \in PriceRun BY <1>1, <1>2 DEF RunOk, PriceRun
<1>4. /\ run'.todo = run.todo /\ run'.batches = run.batches /\ run'.before = run.before
      /\ run'.written = run.written
  BY <1>1, <1>2 DEF RunOk, PriceRun
<1>5. TablesOk' BY <1>1, <1>2 DEF TablesAgree, TablesOk
<1>6. BeforeOk'
  BY <1>1, <1>2, <1>4 DEF TablesAgree, TablesOk, BeforeOk, RunOk
<1>7. NewDays' = NewDays BY <1>2, <1>4 DEF NewDays
<1>8. RunOk' BY <1>1, <1>2, <1>3, <1>4, <1>6, <1>7 DEF RunOk
<1> QED BY <1>2, <1>5, <1>8 DEF PriceInv

\* The request in progress and its next target.
LEMMA InRequest ==
  ASSUME RunOk, run.open
  PROVE  /\ P!Batch \in PriceRequest /\ RequestFits(P!Batch) /\ P!Next1 \in PriceTarget
         /\ P!RangeOf(P!Next1) \in PriceWindow
<1>1. run.batches \in Seq(PriceRequest) /\ run.batches # <<>> BY DEF RunOk, PriceRun
<1>2. 1 \in 1..Len(run.batches) BY <1>1
<1>3. P!Batch \in PriceRequest /\ RequestFits(P!Batch) BY <1>1, <1>2 DEF P!Batch, RunOk
<1>4. P!Batch.targets \in Seq(PriceTarget) /\ P!Batch.targets # <<>> /\ P!Batch.from \in Day /\ P!Batch.to \in Day
  BY <1>3 DEF PriceRequest, RequestFits
<1>5. 1 \in 1..Len(P!Batch.targets) BY <1>4
<1>6. P!Next1 \in PriceTarget BY <1>4, <1>5 DEF P!Next1
<1>7. P!RangeOf(P!Next1) \in PriceWindow BY <1>4, <1>6 DEF P!RangeOf, PriceWindow, PriceTarget
<1> QED BY <1>3, <1>6, <1>7

\* Being done with a target leaves requests the source accepts.
LEMMA AdvancedFits ==
  ASSUME P!Assumptions, RunOk, run.open, NEW r \in PriceRun, r.batches = run.batches, r.todo = run.todo
  PROVE  LET next == P!Advanced(r)
         IN /\ next \in PriceRun /\ next.todo = r.todo /\ next.written = r.written /\ next.before = r.before
            /\ \A i \in 1..Len(next.batches) : RequestFits(next.batches[i])
            /\ next.open => next.batches # <<>>
<1> DEFINE next == P!Advanced(r)
           rest == Tail(run.batches)
           first == P!Batch
<1>1. run.batches \in Seq(PriceRequest) /\ run.batches # <<>> BY DEF RunOk, PriceRun
<1>2. first \in PriceRequest /\ RequestFits(first) BY InRequest
<1>3. first.targets \in Seq(PriceTarget) /\ first.targets # <<>> BY <1>2 DEF PriceRequest, RequestFits
<1>4. first = run.batches[1] BY DEF P!Batch
<1>5. CASE Len(first.targets) = 1
  <2>1. next = [r EXCEPT !.batches = Tail(@), !.open = FALSE] BY <1>5 DEF P!Advanced
  <2>2. rest \in Seq(PriceRequest) /\ \A i \in 1..Len(rest) : rest[i] = run.batches[i + 1] /\ i + 1 \in 1..Len(run.batches)
    BY <1>1
  <2> HIDE DEF next
  <2>3. next \in PriceRun /\ next.open = FALSE /\ next.batches = rest
    BY <2>1, <2>2 DEF PriceRun
  <2>4. next.todo = r.todo /\ next.written = r.written /\ next.before = r.before BY <2>1 DEF PriceRun
  <2> QED BY <2>2, <2>3, <2>4 DEF RunOk, next
<1>6. CASE Len(first.targets) # 1
  <2> DEFINE less == [first EXCEPT !.targets = Tail(@)]
  <2>1. next = [r EXCEPT !.batches[1].targets = Tail(@)] BY <1>6 DEF P!Advanced
  <2>2. next = [r EXCEPT !.batches = [run.batches EXCEPT ![1] = less]]
    BY <2>1, <1>1, <1>4 DEF PriceRun, PriceRequest
  <2>3. Tail(first.targets) \in Seq(PriceTarget) /\ Len(Tail(first.targets)) = Len(first.targets) - 1
    BY <1>3
  <2>4. Len(first.targets) \in Nat /\ Len(first.targets) > 1
    <3> DEFINE targets == first.targets
    <3>1. targets \in Seq(PriceTarget) /\ targets # <<>> /\ Len(targets) # 1 BY <1>3, <1>6
    <3> HIDE DEF targets
    <3>2. Len(targets) \in Nat /\ Len(targets) # 0 /\ Len(targets) # 1 BY <3>1
    <3>3. \A k \in Nat : k # 0 /\ k # 1 => k > 1 OBVIOUS
    <3>4. Len(targets) > 1 BY <3>2, <3>3, Zenon
    <3> QED BY <3>2, <3>4 DEF targets
  <2>5. less \in PriceRequest BY <1>2, <2>3 DEF PriceRequest
  <2>6. RequestFits(less)
    <3>1. less.targets = Tail(first.targets) /\ less.from = first.from /\ less.to = first.to
      BY <1>2 DEF PriceRequest
    <3>2. less.targets # <<>>
      <4> DEFINE targets == less.targets
      <4>1. targets \in Seq(PriceTarget) /\ Len(targets) > 0 BY <3>1, <2>3, <2>4
      <4> HIDE DEF targets
      <4>2. targets # <<>> BY <4>1
      <4> QED BY <4>2 DEF targets
    <3>3. Len(less.targets) <= BatchSize BY <3>1, <2>3, <2>4, <1>2, PriceSizes DEF RequestFits
    <3> QED BY <3>1, <3>2, <3>3, <1>2 DEF RequestFits, Fits
  <2> DEFINE batches == [run.batches EXCEPT ![1] = less]
  <2> HIDE DEF next, less
  <2>7. batches \in Seq(PriceRequest) /\ Len(batches) = Len(run.batches) /\ batches # <<>>
    BY <1>1, <2>5
  <2>8. \A i \in 1..Len(run.batches) : batches[i] = IF i = 1 THEN less ELSE run.batches[i] BY <1>1
  <2>9. next = [r EXCEPT !.batches = batches] BY <2>2
  <2> HIDE DEF batches
  <2>10. next \in PriceRun /\ next.batches = batches BY <2>7, <2>9 DEF PriceRun
  <2>11. next.todo = r.todo /\ next.written = r.written /\ next.before = r.before BY <2>9 DEF PriceRun
  <2> QED BY <2>6, <2>7, <2>8, <2>10, <2>11 DEF RunOk, next
<1> QED BY <1>5, <1>6

\* The range of a check row grows only over days that were asked for.
LEMMA SavedCheck ==
  ASSUME P!Assumptions, RunOk, TablesOk, run.open,
         NEW status \in {"ok", "pending", "failed", "deferred"}, P!SaveCheck(P!Next1, status)
  PROVE  LET p == P!Next1.printing
             range == P!RangeOf(P!Next1)
             saved == check'[p]
         IN /\ check' \in [Printings -> {None} \cup PriceCheck]
            /\ \A q \in Printings \ {p} : check'[q] = check[q]
            /\ saved.from # 0 =>
                 saved.from .. saved.to \subseteq asked[p] \cup (IF status = "ok" THEN range.from .. range.to ELSE {})
<1> DEFINE t == P!Next1
           p == P!Next1.printing
           range == P!RangeOf(P!Next1)
           prev == IF check[p] = None THEN [from |-> 0, to |-> 0, chart |-> 0] ELSE check[p]
           joinsBefore == prev.from # 0 /\ P!Covers(prev, range)
           joinsAfter == prev.from # 0 /\ P!CoversAfter(prev, range)
           from == IF status # "ok" THEN prev.from
                   ELSE IF joinsBefore THEN P!Min2(prev.from, range.from) ELSE range.from
           to == IF status # "ok" THEN prev.to ELSE IF joinsAfter THEN prev.to ELSE range.to
           chart == IF status = "ok" /\ t.chart THEN P!Max2(prev.chart, t.to) ELSE prev.chart
           due == run.day + P!Waits(status)
           saved == [status |-> status, from |-> from, to |-> to, chart |-> chart, due |-> due]
<1>1. t \in PriceTarget /\ range \in PriceWindow BY InRequest
<1>2. p \in Printings /\ t.to \in Day /\ range.from \in Day /\ range.to \in Day
  BY <1>1 DEF PriceTarget, PriceWindow
<1>3. check \in [Printings -> {None} \cup PriceCheck] BY DEF TablesAgree, TablesOk
<1>4. check' = [check EXCEPT ![p] = saved] BY DEF P!SaveCheck
<1>5. /\ prev.from \in 0..LastDay /\ prev.to \in 0..LastDay /\ prev.chart \in 0..LastDay
      /\ prev.from # 0 => prev.from .. prev.to \subseteq asked[p]
  <2>1. CASE check[p] = None BY <2>1, PriceSizes
  <2>2. CASE check[p] # None
    <3>1. check[p] \in PriceCheck BY <1>2, <1>3, <2>2
    <3>2. prev = check[p] BY <2>2
    <3> HIDE DEF prev
    <3> QED BY <1>2, <2>2, <3>1, <3>2 DEF PriceCheck, TablesAgree, TablesOk
  <2> QED BY <2>1, <2>2
<1>6. run.day \in Nat /\ P!Waits(status) \in Nat BY DEF RunOk, PriceRun, P!Waits
<1> HIDE DEF prev, range, p, t
<1>7. joinsBefore => prev.from < range.from /\ prev.to >= range.from BY DEF P!Covers
<1>8. joinsAfter => prev.to > range.to /\ prev.from <= range.to BY DEF P!CoversAfter
<1> HIDE DEF joinsBefore, joinsAfter
<1>9. from \in 0..LastDay /\ to \in 0..LastDay BY <1>2, <1>5, PriceSizes DEF Day, P!Min2
<1>10. chart \in 0..LastDay BY <1>2, <1>5, PriceSizes DEF Day, P!Max2
<1>11. from # 0 => from .. to \subseteq asked[p] \cup (IF status = "ok" THEN range.from .. range.to ELSE {})
  <2>1. CASE status # "ok"
    <3>1. from = prev.from /\ to = prev.to BY <2>1
    <3> HIDE DEF from, to
    <3> QED BY <1>5, <2>1, <3>1
  <2>2. CASE status = "ok"
    <3> SUFFICES ASSUME NEW d \in from .. to PROVE d \in asked[p] \/ d \in range.from .. range.to
      BY <2>2
    <3>1. from = (IF joinsBefore THEN prev.from ELSE range.from) /\ to = (IF joinsAfter THEN prev.to ELSE range.to)
      BY <1>2, <1>5, <1>7, <2>2, PriceSizes DEF P!Min2, Day
    <3> HIDE DEF from, to
    <3>2. d \in Int /\ d >= from /\ d <= to BY <1>9
    <3>3. prev.from # 0 /\ d \in prev.from .. prev.to => d \in asked[p] BY <1>5
    <3>4. joinsBefore \/ joinsAfter => prev.from # 0 BY DEF joinsBefore, joinsAfter
    <3>5. d >= range.from /\ d <= range.to => d \in range.from .. range.to BY <3>2, <1>2 DEF Day
    <3>6. (joinsBefore \/ joinsAfter) /\ d >= prev.from /\ d <= prev.to => d \in asked[p]
      BY <3>2, <3>3, <3>4, <1>5
    <3>7. CASE d < range.from BY <1>2, <1>5, <1>7, <1>8, <3>1, <3>2, <3>6, <3>7 DEF Day
    <3>8. CASE d > range.to BY <1>2, <1>5, <1>7, <1>8, <3>1, <3>2, <3>6, <3>8 DEF Day
    <3> QED BY <1>2, <3>2, <3>5, <3>7, <3>8 DEF Day
  <2> QED BY <2>1, <2>2
<1> HIDE DEF from, to, chart, due
<1>12. due \in Nat BY <1>6 DEF due
<1>13. saved \in PriceCheck BY <1>9, <1>10, <1>12 DEF PriceCheck
<1>14. check' \in [Printings -> {None} \cup PriceCheck] BY <1>3, <1>4, <1>13
<1>15. check'[p] = saved /\ \A q \in Printings \ {p} : check'[q] = check[q] BY <1>2, <1>3, <1>4
<1> QED BY <1>11, <1>14, <1>15 DEF p, range

\* What an answer that stores nothing leaves behind.
LEMMA NothingStored ==
  ASSUME P!Assumptions, PriceInv, run # None, run.open, NEW status \in {"pending", "failed", "deferred"},
         P!SaveCheck(P!Next1, status),
         NEW r \in PriceRun, r.batches = run.batches, r.todo = run.todo, r.before = run.before,
         r.written = run.written, run' = P!Advanced(r),
         UNCHANGED <<today, calls, offered, prices, taken, asked, owed, refused>>
  PROVE  PriceInv'
<1>1. RunOk /\ TablesOk BY DEF PriceInv
<1>2. /\ run' \in PriceRun /\ run'.todo = run.todo /\ run'.written = run.written /\ run'.before = run.before
      /\ \A i \in 1..Len(run'.batches) : RequestFits(run'.batches[i])
      /\ run'.open => run'.batches # <<>>
  BY <1>1, AdvancedFits
<1>3. TablesOk'
  <2>1. /\ check' \in [Printings -> {None} \cup PriceCheck]
        /\ \A q \in Printings \ {P!Next1.printing} : check'[q] = check[q]
        /\ check'[P!Next1.printing].from # 0 =>
             check'[P!Next1.printing].from .. check'[P!Next1.printing].to \subseteq asked[P!Next1.printing]
    BY <1>1, SavedCheck
  <2>2. \A q \in Printings : check'[q] # None /\ check'[q].from # 0 =>
          check'[q].from .. check'[q].to \subseteq asked[q]
    BY <1>1, <2>1 DEF TablesAgree, TablesOk
  <2> QED BY <1>1, <2>1, <2>2 DEF TablesAgree, TablesOk
<1>4. BeforeOk'
  BY <1>1, <1>2 DEF TablesAgree, TablesOk, BeforeOk, RunOk
<1>5. NewDays' = NewDays BY <1>2 DEF NewDays
<1>6. RunOk' BY <1>1, <1>2, <1>4, <1>5 DEF RunOk
<1> QED BY <1>3, <1>6 DEF PriceInv

LEMMA HistoryNotOkStep ==
  ASSUME P!Assumptions, PriceInv, NEW status \in {"pending", "failed"}, P!HistoryNotOk(status)
  PROVE  PriceInv'
<1>1. run # None /\ run.open /\ P!SaveCheck(P!Next1, status) /\ run' = P!Advanced(run)
  BY DEF P!HistoryNotOk
<1>2. run \in PriceRun BY <1>1 DEF PriceInv, RunOk
<1>3. UNCHANGED <<today, calls, offered, prices, taken, asked, owed, refused>> BY DEF P!HistoryNotOk
<1> QED BY <1>1, <1>2, <1>3, NothingStored

LEMMA HistoryDeferredStep == ASSUME P!Assumptions, PriceInv, P!HistoryDeferred PROVE PriceInv'
<1> DEFINE r == [run EXCEPT !.deferred = TRUE]
<1>1. run # None /\ run.open /\ P!SaveCheck(P!Next1, "deferred") /\ run' = P!Advanced(r)
  BY DEF P!HistoryDeferred
<1>2. run \in PriceRun BY <1>1 DEF PriceInv, RunOk
<1>3. /\ r \in PriceRun /\ r.batches = run.batches /\ r.todo = run.todo /\ r.before = run.before
      /\ r.written = run.written
  BY <1>2 DEF PriceRun
<1>4. UNCHANGED <<today, calls, offered, prices, taken, asked, owed, refused>> BY DEF P!HistoryDeferred
<1> HIDE DEF r
<1> QED BY <1>1, <1>3, <1>4, NothingStored

\* A printing's fresh days are days, and none of them had a row.
LEMMA FreshDays ==
  ASSUME P!Assumptions, PriceInv, NEW t \in PriceTarget
  PROVE  /\ P!Fresh(t) \subseteq P!Points(t) /\ P!Points(t) \subseteq offered[t.printing]
         /\ P!Fresh(t) \cap taken[t.printing] = {} /\ P!Points(t) \subseteq P!Fresh(t) \cup taken[t.printing]
         /\ P!Fresh(t) \subseteq Day
         /\ IsFiniteSet(P!Fresh(t)) /\ P!Cardinality(P!Fresh(t)) = Cardinality(P!Fresh(t))
         /\ Cardinality(P!Fresh(t)) \in Nat
<1>1. P!Fresh(t) \subseteq P!Points(t) /\ P!Points(t) \subseteq offered[t.printing]
  BY DEF P!Fresh, P!Points, P!Returned
<1>2. offered[t.printing] \subseteq Day BY DEF PriceInv, DaySets, PriceTarget
<1>3. IsFiniteSet(Day) BY FS_Interval, PriceSizes DEF Day
<1>4. IsFiniteSet(P!Fresh(t)) BY <1>1, <1>2, <1>3, FS_Subset
<1>5. P!Cardinality(P!Fresh(t)) = Cardinality(P!Fresh(t)) BY DEF P!Cardinality, Cardinality
<1>6. P!Fresh(t) \cap taken[t.printing] = {} /\ P!Points(t) \subseteq P!Fresh(t) \cup taken[t.printing]
  BY DEF P!Fresh
<1> QED BY <1>1, <1>2, <1>4, <1>5, <1>6, FS_CardinalityType

LEMMA NewDaysFinite == ASSUME P!Assumptions PROVE IsFiniteSet(NewDays)
<1>1. IsFiniteSet(Day) BY FS_Interval, PriceSizes DEF Day
<1>2. IsFiniteSet(Printings \X Day) BY <1>1, PriceSizes, FS_Product
<1>3. NewDays \subseteq Printings \X Day BY DEF NewDays
<1> QED BY <1>2, <1>3, FS_Subset

\* New rows of one printing are counted once.
LEMMA MoreNewDays ==
  ASSUME P!Assumptions, RunOk, NEW p \in Printings, NEW fresh \in SUBSET Day, IsFiniteSet(fresh),
         fresh \cap taken[p] = {}, taken \in DaySets,
         taken' = [taken EXCEPT ![p] = @ \cup fresh], run'.before = run.before
  PROVE  Cardinality(NewDays') = Cardinality(NewDays) + Cardinality(fresh)
<1> DEFINE added == {p} \X fresh
<1>1. \A q \in Printings : taken'[q] = IF q = p THEN taken[q] \cup fresh ELSE taken[q] BY DEF DaySets
<1>2. run.before.taken[p] \subseteq taken[p] BY DEF RunOk
<1>3. NewDays' = NewDays \cup added
  <2>1. ASSUME NEW x \in NewDays' PROVE x \in NewDays \cup added BY <1>1 DEF NewDays
  <2>2. ASSUME NEW x \in NewDays \cup added PROVE x \in NewDays' BY <1>1, <1>2 DEF NewDays
  <2> QED BY <2>1, <2>2
<1>4. NewDays \cap added = {} BY DEF NewDays
<1>5. IsFiniteSet(added) /\ Cardinality(added) = Cardinality(fresh)
  <2>1. IsFiniteSet({p}) /\ Cardinality({p}) = 1 BY FS_Singleton
  <2>2. Cardinality(fresh) \in Nat BY FS_CardinalityType
  <2>3. IsFiniteSet(added) /\ Cardinality(added) = Cardinality({p}) * Cardinality(fresh) BY <2>1, FS_Product
  <2>4. \A k \in Nat : 1 * k = k OBVIOUS
  <2> QED BY <2>1, <2>2, <2>3, <2>4
<1> HIDE DEF added
<1>6. Cardinality(NewDays \cap added) = 0 BY <1>4, FS_EmptySet
<1>7. IsFiniteSet(NewDays) BY NewDaysFinite
<1>8. Cardinality(NewDays) \in Nat /\ Cardinality(added) \in Nat BY <1>5, <1>7, FS_CardinalityType
<1>9. Cardinality(NewDays \cup added) = Cardinality(NewDays) + Cardinality(added) - Cardinality(NewDays \cap added)
  BY <1>5, <1>7, FS_Union
<1> QED BY <1>3, <1>5, <1>6, <1>8, <1>9

LEMMA HistoryOkStep == ASSUME P!Assumptions, PriceInv, P!HistoryOk PROVE PriceInv'
<1> DEFINE t == P!Next1
           p == P!Next1.printing
           range == P!RangeOf(P!Next1)
           r(unprocessed) == [run EXCEPT !.written = @ + P!Cardinality(P!Fresh(t) \ unprocessed)]
<1>1. /\ run # None /\ run.open /\ P!SaveCheck(t, "ok")
      /\ asked' = [asked EXCEPT ![p] = @ \cup (range.from .. range.to)]
      /\ owed' = [owed EXCEPT ![p] = @ \cup P!Points(t)]
      /\ UNCHANGED <<today, calls, offered>>
  BY DEF P!HistoryOk
<1>2. PICK unpriced \in SUBSET P!Fresh(t), unprocessed \in SUBSET P!Fresh(t), dropped \in SUBSET P!Fresh(t) :
        /\ unprocessed \subseteq unpriced /\ dropped \subseteq unprocessed
        /\ taken' = [taken EXCEPT ![p] = @ \cup (P!Fresh(t) \ dropped)]
        /\ prices' = [prices EXCEPT ![p] = @ \cup (P!Fresh(t) \ unpriced)]
        /\ refused' = [refused EXCEPT ![p] = (@ \ P!Fresh(t)) \cup unpriced]
        /\ run' = P!Advanced(r(unprocessed))
  BY DEF P!HistoryOk
<1>3. RunOk /\ TablesOk BY <1>1 DEF PriceInv
<1>4. t \in PriceTarget /\ range \in PriceWindow BY <1>1, <1>3, InRequest
<1>5. p \in Printings /\ range.from \in Day /\ range.to \in Day BY <1>4 DEF PriceTarget, PriceWindow
<1>6. range.from .. range.to \subseteq Day BY <1>5, PriceSizes DEF Day
<1>7. run \in PriceRun /\ run.written \in Nat BY <1>3 DEF RunOk, PriceRun
<1> DEFINE fresh == P!Fresh(t)
           points == P!Points(t)
           rows == fresh \ dropped
           counted == fresh \ unprocessed
           next == r(unprocessed)
<1>8. /\ fresh \subseteq points /\ points \subseteq offered[p] /\ fresh \cap taken[p] = {}
      /\ points \subseteq fresh \cup taken[p] /\ fresh \subseteq Day /\ IsFiniteSet(fresh)
  BY <1>4, FreshDays
<1>9. /\ IsFiniteSet(rows) /\ Cardinality(rows) \in Nat /\ IsFiniteSet(counted)
      /\ Cardinality(counted) \in Nat /\ Cardinality(counted) <= Cardinality(rows)
      /\ P!Cardinality(counted) = Cardinality(counted)
  <2>1. IsFiniteSet(rows) BY <1>8, FS_Subset
  <2>2. counted \subseteq rows BY <1>2
  <2>3. IsFiniteSet(counted) /\ Cardinality(counted) <= Cardinality(rows) BY <2>1, <2>2, FS_Subset
  <2>4. P!Cardinality(counted) = Cardinality(counted) BY DEF P!Cardinality, Cardinality
  <2> QED BY <2>1, <2>3, <2>4, FS_CardinalityType
<1>10. /\ next \in PriceRun /\ next.batches = run.batches /\ next.todo = run.todo /\ next.before = run.before
       /\ next.written = run.written + Cardinality(counted)
  <2> DEFINE n == P!Cardinality(counted)
  <2>1. n \in Nat /\ run.written + n \in Nat /\ n = Cardinality(counted) BY <1>7, <1>9
  <2>2. next = [run EXCEPT !.written = run.written + n] BY <1>7 DEF PriceRun
  <2> HIDE DEF n, next, counted
  <2> QED BY <1>7, <2>1, <2>2 DEF PriceRun
<1>11. run' = P!Advanced(next) BY <1>2
<1> HIDE DEF next, r
<1>12. /\ run' \in PriceRun /\ run'.todo = run.todo /\ run'.written = next.written /\ run'.before = run.before
       /\ \A i \in 1..Len(run'.batches) : RequestFits(run'.batches[i])
       /\ run'.open => run'.batches # <<>>
  BY <1>1, <1>3, <1>10, <1>11, AdvancedFits
<1>13. /\ check' \in [Printings -> {None} \cup PriceCheck]
       /\ \A q \in Printings \ {p} : check'[q] = check[q]
       /\ check'[p].from # 0 => check'[p].from .. check'[p].to \subseteq asked[p] \cup (range.from .. range.to)
  BY <1>1, <1>3, SavedCheck
<1>14. /\ taken' = [taken EXCEPT ![p] = @ \cup rows]
       /\ prices' = [prices EXCEPT ![p] = @ \cup (fresh \ unpriced)]
       /\ refused' = [refused EXCEPT ![p] = (@ \ fresh) \cup unpriced]
       /\ owed' = [owed EXCEPT ![p] = @ \cup points]
       /\ unpriced \subseteq fresh /\ unprocessed \subseteq unpriced /\ dropped \subseteq unprocessed
  BY <1>1, <1>2
<1> DEFINE days == range.from .. range.to
<1>15. days \subseteq Day /\ asked' = [asked EXCEPT ![p] = @ \cup days] BY <1>1, <1>6
<1>16. prices \in DaySets /\ taken \in DaySets /\ asked \in DaySets /\ owed \in DaySets /\ refused \in DaySets
  BY <1>3 DEF TablesAgree, TablesOk
<1>17. points \subseteq Day BY <1>8, <1>5 DEF PriceInv, DaySets
<1>18. \A q \in Printings :
         /\ taken[q] \subseteq offered[q] /\ prices[q] \subseteq taken[q]
         /\ taken[q] \subseteq prices[q] \cup refused[q] /\ owed[q] \subseteq prices[q] \cup refused[q]
  BY <1>3 DEF TablesAgree, TablesOk
<1> HIDE DEF fresh, points, range, p, t, days
<1>19. prices' \in DaySets /\ taken' \in DaySets /\ asked' \in DaySets /\ owed' \in DaySets /\ refused' \in DaySets
  <2>1. prices' \in DaySets BY <1>8, <1>14, <1>16 DEF DaySets
  <2>2. taken' \in DaySets BY <1>8, <1>14, <1>16 DEF DaySets
  <2>3. asked' \in DaySets BY <1>15, <1>16 DEF DaySets
  <2>4. owed' \in DaySets BY <1>14, <1>16, <1>17 DEF DaySets
  <2>5. refused' \in DaySets BY <1>8, <1>14, <1>16 DEF DaySets
  <2> QED BY <2>1, <2>2, <2>3, <2>4, <2>5
<1> HIDE DEF rows
<1>20. \A q \in Printings :
         /\ prices'[q] = IF q = p THEN prices[q] \cup (fresh \ unpriced) ELSE prices[q]
         /\ taken'[q] = IF q = p THEN taken[q] \cup rows ELSE taken[q]
         /\ refused'[q] = IF q = p THEN (refused[q] \ fresh) \cup unpriced ELSE refused[q]
         /\ owed'[q] = IF q = p THEN owed[q] \cup points ELSE owed[q]
         /\ asked'[q] = IF q = p THEN asked[q] \cup days ELSE asked[q]
  BY <1>14, <1>15, <1>16 DEF DaySets
<1>21. ASSUME NEW q \in Printings
       PROVE  /\ prices'[q] \subseteq taken'[q] /\ taken'[q] \subseteq offered'[q]
              /\ taken'[q] \subseteq prices'[q] \cup refused'[q] /\ owed'[q] \subseteq prices'[q] \cup refused'[q]
  <2>1. offered' = offered BY <1>1
  <2>2. CASE q = p
    <3>1. rows = fresh \ dropped BY DEF rows
    <3>2. /\ prices'[q] = prices[q] \cup (fresh \ unpriced) /\ taken'[q] = taken[q] \cup (fresh \ dropped)
          /\ refused'[q] = (refused[q] \ fresh) \cup unpriced /\ owed'[q] = owed[q] \cup points
      BY <1>20, <2>2, <3>1
    <3>3. fresh \cap taken[q] = {} /\ points \subseteq fresh \cup taken[q] /\ fresh \subseteq points
          /\ points \subseteq offered[q]
      BY <1>8, <2>2
    <3>4. prices'[q] \subseteq taken'[q] /\ taken'[q] \subseteq offered[q] BY <1>14, <1>18, <3>2, <3>3
    <3>5. taken'[q] \subseteq prices'[q] \cup refused'[q] BY <1>14, <1>18, <3>2, <3>3
    <3>6. owed'[q] \subseteq prices'[q] \cup refused'[q] BY <1>14, <1>18, <3>2, <3>3
    <3> QED BY <2>1, <3>4, <3>5, <3>6
  <2>3. CASE q # p BY <1>18, <1>20, <2>1, <2>3
  <2> QED BY <2>2, <2>3
<1>22. ASSUME NEW q \in Printings, check'[q] # None, check'[q].from # 0
       PROVE  check'[q].from .. check'[q].to \subseteq asked'[q]
  <2>1. CASE q = p BY <1>13, <1>20, <1>22, <2>1 DEF days
  <2>2. CASE q # p
    <3>1. check'[q] = check[q] /\ asked'[q] = asked[q] BY <1>13, <1>20, <2>2
    <3> QED BY <1>3, <1>22, <3>1 DEF TablesAgree, TablesOk
  <2> QED BY <2>1, <2>2
<1>23. TablesOk' BY <1>13, <1>19, <1>21, <1>22 DEF TablesAgree, TablesOk
<1>24. BeforeOk' BY <1>1, <1>3, <1>12 DEF TablesAgree, BeforeOk, RunOk
<1>25. \A q \in Printings : run'.before.taken[q] \subseteq taken'[q] BY <1>3, <1>12, <1>20 DEF RunOk
<1>26. Cardinality(NewDays') = Cardinality(NewDays) + Cardinality(rows)
  <2>1. rows \subseteq Day /\ rows \cap taken[p] = {} BY <1>8 DEF rows
  <2>2. IsFiniteSet(rows) BY <1>9 DEF rows
  <2> QED BY <1>3, <1>5, <1>12, <1>14, <1>16, <2>1, <2>2, MoreNewDays DEF p
<1>27. run'.written <= Cardinality(NewDays')
  <2>1. Cardinality(rows) \in Nat /\ Cardinality(counted) \in Nat /\ Cardinality(counted) <= Cardinality(rows)
    BY <1>9 DEF rows, fresh, t
  <2>2. run.written <= Cardinality(NewDays) /\ Cardinality(NewDays) \in Nat
    BY <1>3, NewDaysFinite, FS_CardinalityType DEF RunOk
  <2>3. run'.written = run.written + Cardinality(counted) BY <1>10, <1>12
  <2> HIDE DEF counted
  <2> QED BY <1>7, <1>26, <2>1, <2>2, <2>3
<1>28. RunOk' BY <1>3, <1>12, <1>24, <1>25, <1>27 DEF RunOk
<1> QED BY <1>1, <1>23, <1>28 DEF PriceInv

LEMMA RunEnds ==
  ASSUME P!Assumptions, PriceInv, P!EndRun \/ P!RunDies PROVE PriceInv'
<1>1. run' = None /\ UNCHANGED <<today, calls, offered>> BY DEF P!EndRun, P!RunDies
<1>2. TablesOk'
  <2>1. CASE P!EndRun
    <3>1. UNCHANGED <<offered, prices, taken, check, asked, owed, refused>> BY <2>1 DEF P!EndRun
    <3> QED BY <3>1 DEF PriceInv, TablesAgree, TablesOk
  <2>2. CASE P!RunDies
    <3>1. /\ prices' = run.before.stored /\ taken' = run.before.taken /\ check' = run.before.check
          /\ asked' = run.before.asked /\ owed' = run.before.owed /\ refused' = run.before.refused
          /\ run # None
      BY <2>2 DEF P!RunDies
    <3>2. BeforeOk
      BY <3>1 DEF PriceInv, RunOk
    <3> QED BY <1>1, <3>1, <3>2 DEF TablesAgree, TablesOk, BeforeOk
  <2> QED BY <2>1, <2>2
<1> QED BY <1>1, <1>2 DEF PriceInv

\* The world moves between two runs.
LEMMA WorldMoves ==
  ASSUME P!Assumptions, PriceInv, run = None, UNCHANGED <<prices, taken, check, run, asked, owed, refused>>,
         today' \in Day, calls' \subseteq PriceCalls,
         offered' \in DaySets, \A p \in Printings : offered[p] \subseteq offered'[p] /\ offered'[p] \subseteq 1..(today' - 1)
  PROVE  PriceInv'
<1>1. TablesOk' BY DEF PriceInv, TablesAgree, TablesOk
<1> QED BY <1>1 DEF PriceInv

LEMMA WorldStep ==
  ASSUME P!Assumptions, PriceInv,
         P!NextDay \/ (\E c \in PriceCalls : P!CallFound(c)) \/ (\E p \in Printings : P!SourceFills(p))
  PROVE  PriceInv'
<1>1. /\ today \in Day /\ today \in Nat /\ today <= LastDay /\ calls \subseteq PriceCalls
      /\ offered \in DaySets /\ \A p \in Printings : offered[p] \subseteq 1..(today - 1)
  BY PriceSizes DEF PriceInv, Day
<1>2. CASE P!NextDay
  <2>1. /\ run = None /\ UNCHANGED <<calls, offered, prices, taken, check, run, asked, owed, refused>>
        /\ today' = today + 1 /\ today < LastDay
    BY <1>2 DEF P!NextDay
  <2>2. today' \in Day BY <1>1, <2>1, PriceSizes DEF Day
  <2>3. 1..(today - 1) \subseteq 1..(today' - 1) BY <1>1, <2>1
  <2> QED BY <1>1, <2>1, <2>2, <2>3, WorldMoves
<1>3. ASSUME NEW c \in PriceCalls, P!CallFound(c) PROVE PriceInv'
  <2>1. /\ run = None /\ UNCHANGED <<today, offered, prices, taken, check, run, asked, owed, refused>>
        /\ calls' = calls \cup {c}
    BY <1>3 DEF P!CallFound
  <2> QED BY <1>1, <2>1, WorldMoves
<1>4. ASSUME NEW p \in Printings, P!SourceFills(p) PROVE PriceInv'
  <2>1. /\ run = None /\ UNCHANGED <<today, calls, prices, taken, check, run, asked, owed, refused>>
        /\ offered' = [offered EXCEPT ![p] = 1 .. today - 1]
    BY <1>4 DEF P!SourceFills
  <2>2. 1 .. today - 1 \subseteq Day BY <1>1, PriceSizes DEF Day
  <2>3. offered' \in DaySets BY <1>1, <2>1, <2>2 DEF DaySets
  <2>4. \A q \in Printings : offered'[q] = IF q = p THEN 1 .. today - 1 ELSE offered[q]
    BY <1>1, <2>1 DEF DaySets
  <2> QED BY <1>1, <2>1, <2>3, <2>4, WorldMoves
<1> QED BY <1>2, <1>3, <1>4

LEMMA PriceInvStep == ASSUME P!Assumptions, PriceInv, [P!Next]_P!vars PROVE PriceInv'
<1>1. CASE P!StartRun BY <1>1, StartRunStep
<1>2. CASE P!Request BY <1>2, PriceRequestStep
<1>3. CASE P!HistoryOk BY <1>3, HistoryOkStep
<1>4. CASE P!HistoryDeferred BY <1>4, HistoryDeferredStep
<1>5. CASE P!EndRun \/ P!RunDies BY <1>5, RunEnds
<1>6. CASE P!NextDay \/ (\E c \in PriceCalls : P!CallFound(c)) \/ (\E p \in Printings : P!SourceFills(p))
  BY <1>6, WorldStep
<1>7. ASSUME NEW p \in Printings, P!PlanTarget(p) PROVE PriceInv' BY <1>7, PlanTargetStep
<1>8. ASSUME NEW status \in {"pending", "failed"}, P!HistoryNotOk(status) PROVE PriceInv'
  BY <1>8, HistoryNotOkStep
<1>9. CASE UNCHANGED P!vars
  <2>1. UNCHANGED <<today, calls, offered, prices, taken, check, run, asked, owed, refused>> BY <1>9 DEF P!vars
  <2>2. TablesOk' BY <2>1 DEF PriceInv, TablesAgree, TablesOk
  <2>3. CASE run # None
    <3>1. RunOk BY <2>3 DEF PriceInv
    <3>2. BeforeOk'
      BY <2>1, <3>1 DEF RunOk, TablesAgree, TablesOk, BeforeOk
    <3>3. NewDays' = NewDays BY <2>1 DEF NewDays
    <3>4. RunOk' BY <2>1, <3>1, <3>2, <3>3 DEF RunOk
    <3> QED BY <2>1, <2>2, <3>4 DEF PriceInv
  <2>4. CASE run = None BY <2>1, <2>2, <2>4 DEF PriceInv
  <2> QED BY <2>3, <2>4
<1> QED
  BY <1>1, <1>2, <1>3, <1>4, <1>5, <1>6, <1>7, <1>8, <1>9, Zenon DEF P!Next

LEMMA PricesKeepAccount == P!Spec => []PriceInv
<1>1. P!Init => PriceInv
  BY SourceAssumptions, PriceStart
<1>2. PriceInv /\ [P!Next]_P!vars => PriceInv'
  BY SourceAssumptions, PriceInvStep
<1> QED
  BY <1>1, <1>2, PTL DEF P!Spec

LEMMA PricesPart == Spec => P!Spec \/ [](part # "prices")
<1>1. Init => (part = "prices" /\ P!Init) \/ part # "prices"
  BY DEF Init
<1>2. part = "prices" /\ [Next]_sourceVars => (part = "prices")' /\ [P!Next]_P!vars
  BY Zenon
    DEF Next, sourceVars, priceVars, P!Next, P!vars, Only, OnlySync, OnlyFeed, OnlyYoutube, OnlyLocal,
        OnlyPrices, OnlyChecks, OnlyTiktok
<1>3. part # "prices" /\ [Next]_sourceVars => (part # "prices")'
  BY Zenon
    DEF Next, sourceVars, Only, OnlySync, OnlyFeed, OnlyYoutube, OnlyLocal, OnlyPrices, OnlyChecks,
        OnlyTiktok
<1> QED
  BY <1>1, <1>2, <1>3, PTL DEF Spec, P!Spec

LEMMA YoutubePart == Spec => Y!Spec \/ [](part # "youtube")
<1>1. Init => (part = "youtube" /\ Y!Init) \/ part # "youtube"
  BY DEF Init
<1>2. part = "youtube" /\ [Next]_sourceVars => (part = "youtube")' /\ [Y!Next]_Y!vars
  BY Zenon
    DEF Next, sourceVars, youtubeVars, Y!Next, Y!vars, Only, OnlySync, OnlyFeed, OnlyYoutube, OnlyLocal, OnlyPrices, OnlyChecks, OnlyTiktok
<1>3. part # "youtube" /\ [Next]_sourceVars => (part # "youtube")'
  BY Zenon
    DEF Next, sourceVars, Only, OnlySync, OnlyFeed, OnlyYoutube, OnlyLocal, OnlyPrices, OnlyChecks, OnlyTiktok
<1> QED
  BY <1>1, <1>2, <1>3, PTL DEF Spec, Y!Spec

LEMMA FeedPart == Spec => F!Spec \/ [](part # "feed")
<1>1. Init => (part = "feed" /\ F!Init) \/ part # "feed"
  BY DEF Init
<1>2. part = "feed" /\ [Next]_sourceVars => (part = "feed")' /\ [F!Next]_F!vars
  BY Zenon
    DEF Next, sourceVars, feedVars, F!Next, F!vars, Only, OnlySync, OnlyFeed, OnlyYoutube, OnlyLocal, OnlyPrices, OnlyChecks, OnlyTiktok
<1>3. part # "feed" /\ [Next]_sourceVars => (part # "feed")'
  BY Zenon
    DEF Next, sourceVars, Only, OnlySync, OnlyFeed, OnlyYoutube, OnlyLocal, OnlyPrices, OnlyChecks, OnlyTiktok
<1> QED
  BY <1>1, <1>2, <1>3, PTL DEF Spec, F!Spec

LEMMA BackfillsKeepBudget == Y!Spec => []BackfillInv
<1>1. Y!Init => BackfillInv
  BY SourceAssumptions, BackfillStart
<1>2. BackfillInv /\ [Y!Next]_Y!vars => BackfillInv'
  BY SourceAssumptions, BackfillInvStep
<1> QED
  BY <1>1, <1>2, PTL DEF Y!Spec

LEMMA FeedsKeepAccount == F!Spec => []FeedInv
<1>1. F!Init => FeedInv
  BY SourceAssumptions, FeedStart
<1>2. FeedInv /\ [F!Next]_F!vars => FeedInv'
  BY SourceAssumptions, FeedInvStep
<1> QED
  BY <1>1, <1>2, PTL DEF F!Spec

-----------------------------------------------------------------------------
(* The properties of the run. *)

\* No day spends more than the provider's budget, whatever the order in which
\* lookups, visits and searches of any number of syncs, feed and sitemap runs,
\* backfill batches and transcript checks reserve, send and give back, and however
\* many of their requests fail: a request is sent on a reservation of its own
\* (budgetedDiscoveryTransport) or within what its run's row reserves, and what the
\* rows of a day reserve never exceeds the budget.  (A backfill's requests after
\* saveRun gave its reservation back are the ghost's, as the property says.)
THEOREM BudgetsHold == Spec => []WithinDailyBudget
<1>1. SyncInv => S!WithinDailyBudget
  BY SyncBudgetHolds
<1>2. FeedInv => F!WithinDailyBudget
  BY SourceAssumptions, FeedBudgetHolds
<1>3. BackfillInv => Y!WithinDailyBudget
  BY SourceAssumptions, BackfillBudgetHolds
<1>4. CheckInv => C!WithinDailyBudget
  BY SourceAssumptions, CheckBudgetHolds
<1>5. /\ S!WithinDailyBudget \/ part # "sync"
      /\ F!WithinDailyBudget \/ part # "feed"
      /\ Y!WithinDailyBudget \/ part # "youtube"
      /\ C!WithinDailyBudget \/ part # "checks"
      => WithinDailyBudget
  BY DEF WithinDailyBudget
<1> QED
  BY <1>1, <1>2, <1>3, <1>4, <1>5, SyncPart, FeedPart, YoutubePart, ChecksPart,
     SyncsKeepDecisions, FeedsKeepAccount, BackfillsKeepBudget, ChecksKeepBudget, PTL

\* Every post below the validators of a feed check, every page a sitemap run has
\* seen, and every video below a completed listing is stored or was passed over
\* by a run that answered so: a worker that dies, or two that overlap, lose none.
THEOREM PublishedIsAccountedFor == Spec => []PostsAccountedFor
<1>1. FeedInv => F!PostsAccountedFor
  BY PostsAreAccountedFor
<1>2. ListingInv => T!VideosAccountedFor
  BY VideosAreAccountedFor
<1>3. /\ F!PostsAccountedFor \/ part # "feed"
      /\ T!VideosAccountedFor \/ part # "tiktok"
      => PostsAccountedFor
  BY DEF PostsAccountedFor
<1> QED
  BY <1>1, <1>2, <1>3, FeedPart, TiktokPart, FeedsKeepAccount, ListingsKeepAccount, PTL

\* A page the state of a channel is past has all its videos stored, whichever
\* batch read it and however many of them died.
THEOREM PagesPastAreStored == Spec => []VideosStored
<1>1. BackfillInv => Y!VideosStored
  BY VideosStoredHolds
<1>2. Y!VideosStored \/ part # "youtube" => VideosStored
  BY DEF VideosStored
<1> QED
  BY <1>1, <1>2, YoutubePart, BackfillsKeepBudget, PTL

\* saveCheck: the range a check row calls fetched was asked for without a hole, and
\* every day that an answer held and a window of the time wanted has a price, or the
\* market ingest itself made none of it (refused, failed, quarantined or flagged),
\* however targets share requests, runs are cut short by the points cap and
\* transactions roll back.
THEOREM FetchedDaysAreStored == Spec => []FetchedIsStored
<1>1. PriceInv => P!FetchedIsStored
  BY DEF PriceInv, TablesAgree, TablesOk, P!FetchedIsStored
<1>2. P!FetchedIsStored \/ part # "prices" => FetchedIsStored
  BY DEF FetchedIsStored
<1> QED
  BY <1>1, <1>2, PricesPart, PricesKeepAccount, PTL

\* The requests of the plan, and what is left of it, are within the feed's limits.
PlanFits ==
  part = "prices" /\ run # None => \A i \in 1..Len(run.batches) : RequestFits(run.batches[i])

\* planPriceHistoryRequests: every request of a run holds a target and stays within
\* the feed's limits of items and days, whatever calls and chart printings it joins.
THEOREM RequestsFitTheFeed == Spec => []PlanFits
<1>1. PriceInv => PlanFits
  BY DEF PriceInv, RunOk, PlanFits
<1>2. part # "prices" => PlanFits
  BY DEF PlanFits
<1> QED
  BY <1>1, <1>2, PricesPart, PricesKeepAccount, PTL

\* A run writes a printing's day once at most.
LEMMA PriceTypes == ASSUME P!Assumptions, PriceInv PROVE P!TypeOK
<1>1. today \in 1..LastDay /\ calls \subseteq PriceCalls BY DEF PriceInv, Day
<1>2. ASSUME NEW p \in Printings
      PROVE  /\ prices[p] \subseteq taken[p] /\ taken[p] \subseteq offered[p]
             /\ offered[p] \subseteq 1..(LastDay - 1)
             /\ check[p] # None =>
                  /\ check[p].status \in {"ok", "pending", "failed", "deferred"}
                  /\ check[p].from \in 0..LastDay /\ check[p].to \in 0..LastDay /\ check[p].chart \in 0..LastDay
  <2>1. /\ prices[p] \subseteq taken[p] /\ taken[p] \subseteq offered[p]
        /\ offered[p] \subseteq 1..(today - 1) /\ check[p] \in {None} \cup PriceCheck
    BY DEF PriceInv, TablesAgree, TablesOk
  <2>2. 1..(today - 1) \subseteq 1..(LastDay - 1) BY <1>1, PriceSizes
  <2> QED BY <2>1, <2>2 DEF PriceCheck
<1>3. ASSUME run # None PROVE run.written \in 0..(LastDay * P!Cardinality(Printings))
  <2>1. run.written <= Cardinality(NewDays) /\ run.written \in Nat BY <1>3 DEF PriceInv, RunOk, PriceRun
  <2>2. IsFiniteSet(Day) /\ Cardinality(Day) = LastDay
    <3>1. LastDay \in Int /\ 1 \in Int /\ ~(1 > LastDay) /\ LastDay - 1 + 1 = LastDay BY PriceSizes
    <3>2. /\ IsFiniteSet(1..LastDay)
          /\ Cardinality(1..LastDay) = IF 1 > LastDay THEN 0 ELSE LastDay - 1 + 1
      BY <3>1, FS_Interval, Zenon
    <3> QED BY <3>1, <3>2, Zenon DEF Day
  <2>3. IsFiniteSet(Printings \X Day) /\ Cardinality(Printings \X Day) = Cardinality(Printings) * Cardinality(Day)
    BY <2>2, PriceSizes, FS_Product
  <2>4. NewDays \subseteq Printings \X Day BY DEF NewDays
  <2>5. Cardinality(NewDays) <= Cardinality(Printings \X Day) BY <2>3, <2>4, FS_Subset
  <2>6. Cardinality(NewDays) \in Nat /\ Cardinality(Printings) \in Nat
    BY NewDaysFinite, PriceSizes, FS_CardinalityType
  <2>7. P!Cardinality(Printings) = Cardinality(Printings) BY DEF P!Cardinality, Cardinality
  <2>8. \A k, n \in Nat : k * n = n * k /\ k * n \in Nat OBVIOUS
  <2>9. Cardinality(Printings \X Day) = LastDay * Cardinality(Printings) BY <2>2, <2>3, <2>6, <2>8, PriceSizes
  <2> QED BY <2>1, <2>5, <2>6, <2>7, <2>8, <2>9, PriceSizes
<1> QED BY <1>1, <1>2, <1>3 DEF P!TypeOK

\* Whichever module moves, its variables hold values of their kinds.
THEOREM SourceTypes == Spec => []TypesOK
<1>1. (SyncInv => S!TypeOK) /\ (FeedInv => F!TypeOK) /\ (BackfillInv => Y!TypeOK)
  BY DEF SyncInv, FeedInv, BackfillInv
<1>2. (HelperInv => L!TypeOK) /\ (CheckInv => C!TypeOK) /\ (ListingInv => T!TypeOK)
  BY DEF HelperInv, CheckInv, ListingInv
<1>3. PriceInv => P!TypeOK
  BY SourceAssumptions, PriceTypes
<1>4. Init => part \in {"sync", "feed", "youtube", "local", "prices", "checks", "tiktok"}
  BY DEF Init
<1>5. /\ part \in {"sync", "feed", "youtube", "local", "prices", "checks", "tiktok"}
      /\ [Next]_sourceVars
      => (part \in {"sync", "feed", "youtube", "local", "prices", "checks", "tiktok"})'
  BY Zenon
    DEF Next, sourceVars, Only, OnlySync, OnlyFeed, OnlyYoutube, OnlyLocal, OnlyPrices, OnlyChecks,
        OnlyTiktok
<1>6. /\ part \in {"sync", "feed", "youtube", "local", "prices", "checks", "tiktok"}
      /\ S!TypeOK \/ part # "sync"
      /\ F!TypeOK \/ part # "feed"
      /\ Y!TypeOK \/ part # "youtube"
      /\ L!TypeOK \/ part # "local"
      /\ P!TypeOK \/ part # "prices"
      /\ C!TypeOK \/ part # "checks"
      /\ T!TypeOK \/ part # "tiktok"
      => TypesOK
  BY DEF TypesOK
<1> QED
  BY <1>1, <1>2, <1>3, <1>4, <1>5, <1>6, SyncPart, FeedPart, YoutubePart, LocalPart, PricesPart,
     ChecksPart, TiktokPart, SyncsKeepDecisions, FeedsKeepAccount, BackfillsKeepBudget,
     HelpersKeepClaims, PricesKeepAccount, ChecksKeepBudget, ListingsKeepAccount, PTL DEF Spec

=============================================================================
