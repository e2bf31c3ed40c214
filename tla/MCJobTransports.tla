-------------------------- MODULE MCJobTransports --------------------------
(* The two transports for TLC: sweeps are interchangeable. *)
EXTENDS JobTransports, TLC

ClockSkew == {-1, 0}
SweepSymmetry == Permutations(Sweep)
=============================================================================
