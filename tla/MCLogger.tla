------------------------------ MODULE MCLogger ------------------------------
(* Instances of Logger for TLC.  The byte weight 4 makes an index carry into *)
(* its second byte within the first readings, as 256 does in the code.       *)
EXTENDS LoggerQueue

MCByteWeights == {4}
MCGarbage == {0, 5}

=============================================================================
