---------------------------- MODULE MCIngestQueue ----------------------------
(***************************************************************************)
(* Instances of IngestQueue for TLC; the constants are given in the        *)
(* configurations.                                                         *)
(***************************************************************************)
EXTENDS IngestQueue, FiniteSets

\* Events share nothing but the publishers' and workers' time, so the instance
\* takes one event at most, the valid or the invalid one, and lets the mishaps
\* and two publishers meet on it.
OneAccepted == Cardinality({e \in Event : event[e] # "absent"}) <= 1

FairOneEvent == Init /\ [][Next /\ OneAccepted']_vars /\ Fairness
=============================================================================
