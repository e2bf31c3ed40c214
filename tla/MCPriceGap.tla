------------------------------- MODULE MCPriceGap -------------------------------
(* One printing outside the chart universe with two calls, and a source that *)
(* answers with prices the market ingest takes; `seen` keeps the days of each *)
(* answer that the source had.                                               *)
EXTENDS PriceHistory
CONSTANT printing1
VARIABLE seen
TwoCalls == {[printing |-> printing1, day |-> 1, horizon |-> 5],
             [printing |-> printing1, day |-> 3, horizon |-> 3]}

GapInit == Init /\ seen = [p \in Printing |-> {}]
Other ==
  \/ StartRun \/ (\E p \in Printing : PlanTarget(p)) \/ Request \/ HistoryDeferred \/ EndRun
  \/ \E status \in {"pending", "failed"} : HistoryNotOk(status)
  \/ \E c \in Calls : CallFound(c)
  \/ \E p \in Printing : SourceFills(p)
  \/ NextDay
GapNext ==
  \/ HistoryOk /\ seen' = [seen EXCEPT ![Next1.printing] = @ \cup Returned(Next1)]
  \/ Other /\ UNCHANGED seen
GapSpec == GapInit /\ [][GapNext]_<<vars, seen>>

\* tcc-price-history.ts: "A range fetched successfully has nothing new until a
\* window outside it appears" - so a call that lacks a price has no window
\* within the range with a day whose price the source gave and nobody stored.
NothingNewInRange ==
  \A p \in Printing :
    run = None /\ check[p] # None /\ check[p].status = "ok" =>
      \A w \in CallWindows(p) :
        check[p].from <= w.from /\ w.to <= check[p].to => 
          (w.from .. w.to) \cap seen[p] \subseteq stored[p]

=============================================================================
