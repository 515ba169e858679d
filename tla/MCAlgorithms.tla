----------------------------- MODULE MCAlgorithms -----------------------------
(* The two pure algorithms for TLC: eight samples of four values, and the     *)
(* days of a century.  They share no state; one rests while the other runs.   *)
EXTENDS TrimmedMean, ClockChip

AlgorithmInit == Init /\ ChipInit

AlgorithmNext ==
  \/ Next /\ day = 0 /\ ~running /\ UNCHANGED chipVars
  \/ ChipNext /\ samples = <<>> /\ UNCHANGED vars

AlgorithmSpec == AlgorithmInit /\ [][AlgorithmNext]_<<vars, chipVars>>

=============================================================================
