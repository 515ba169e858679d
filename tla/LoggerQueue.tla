---------------------------- MODULE LoggerQueue ----------------------------
(* Logger as a ForwardQueue: the queue is the saved window of the ring.      *)
EXTENDS Logger, Sequences

\* Before setup() has saved both indices for the first time nothing waits.
Waiting ==
  IF nvMark /\ pc \notin {"initW", "initR"} /\ nvR < nvW THEN nvW - nvR ELSE 0

SavedQueue == [k \in 1 .. Waiting |-> At(nvR + k - 1)]

ReadingsTaken == {[k \in 1 .. NumRec |-> <<s, k - 1>>] : s \in 1 .. MaxSamples}

Queue == INSTANCE ForwardQueue
           WITH Item     <- Record,
                Readings <- ReadingsTaken,
                Window   <- IF Batch = 0 THEN 1 ELSE Batch,
                queue    <- SavedQueue,
                received <- received

\* As long as no reset falls into a pair of index saves, no index is torn, the
\* marker is not misread and the backlog does not fill the ring, main.cpp is an
\* at-least-once first-in first-out queue from its meters to the server,
\* through faults, lost answers and resets: QSpec of the queue, step by step.
ForwardsInOrder ==
  Queue!QInit /\ [][mishaps' = {} => [Queue!QNext]_(Queue!qvars)]_vars

=============================================================================
