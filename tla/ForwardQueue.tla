---------------------------- MODULE ForwardQueue ----------------------------
(***************************************************************************)
(* What the logger promises its operator, free of flash, indices and       *)
(* resets: readings wait in a queue in the order they were taken, the      *)
(* server is sent a first part of the queue, as often as it takes, and a   *)
(* record leaves the queue only when the server has it, or all at once     *)
(* when the server says so.  Delivery is in order and at least once.       *)
(***************************************************************************)
EXTENDS Sequences, Integers

CONSTANTS Item,     \* what is queued
          Readings, \* the batches, sequences of items, in which items arrive
          Window    \* the most items one request may carry

VARIABLES queue, received

qvars == <<queue, received>>

ItemsOf(q) == {q[i] : i \in DOMAIN q}

QInit == queue = <<>> /\ received = {}

\* A reading is stored.
Put(b) == queue' = queue \o b /\ UNCHANGED received

\* A request carries the items from..to of the queue to the server; all items
\* before them have been delivered.
Deliver(from, to) ==
  /\ ItemsOf(SubSeq(queue, 1, from - 1)) \subseteq received
  /\ received' = received \union ItemsOf(SubSeq(queue, from, to))
  /\ UNCHANGED queue

\* The first n items, all delivered, leave the queue.
Acknowledge(n) ==
  /\ ItemsOf(SubSeq(queue, 1, n)) \subseteq received
  /\ queue' = SubSeq(queue, n + 1, Len(queue))
  /\ UNCHANGED received

Clear == queue' = <<>> /\ UNCHANGED received

QNext ==
  \/ \E b \in Readings : Put(b)
  \/ \E from \in 1 .. Len(queue) :
       \E to \in from .. Len(queue) : to - from < Window /\ Deliver(from, to)
  \/ \E n \in 1 .. Len(queue) : Acknowledge(n)
  \/ Clear

QSpec == QInit /\ [][QNext]_qvars

QTypeOK == queue \in Seq(Item) /\ received \subseteq Item

=============================================================================
