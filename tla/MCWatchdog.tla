------------------------------ MODULE MCWatchdog ------------------------------
(* Requests so slow that the last of a round of posts, and nothing else,      *)
(* reaches the timeout of the task watchdog.                                  *)
EXTENDS StatusLog

MCLongest == [o \in Operations |-> IF o = "request" THEN 2 ELSE 1]

=============================================================================
