-------------------------- MODULE MCScheduledBatch --------------------------
(***************************************************************************)
(* Instances of ScheduledBatch for TLC.  The constants are given in the    *)
(* configurations.  Time is scaled so that its lengths keep their order:   *)
(* the 180 s window is 1 tick, the owner's grace of 10 minutes 1, a        *)
(* retry's delay of 15 minutes 2, the distance of two slots 3.             *)
(***************************************************************************)
EXTENDS ScheduledBatch, TLC

Processes == Permutations(Worker)
=============================================================================
