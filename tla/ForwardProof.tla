---------------------------- MODULE ForwardProof ----------------------------
(***************************************************************************)
(* The logger implements ForwardQueue: every step of main.cpp is a step of *)
(* the queue or leaves it as it is, as long as no mishap is on record.     *)
(* LoggerProof tells what the saved window holds; here it is read as a     *)
(* sequence.                                                               *)
(***************************************************************************)
EXTENDS LoggerProof, LoggerQueue, SequenceTheorems

-----------------------------------------------------------------------------
(* Sequences *)

LEMMA FcnSeq ==
  ASSUME NEW S, NEW n \in Nat, NEW f \in [1 .. n -> S]
  PROVE  f \in Seq(S) /\ Len(f) = n
OBVIOUS

LEMMA Appended ==
  ASSUME NEW S, NEW q \in Seq(S), NEW b \in Seq(S), NEW r \in Seq(S),
         Len(r) = Len(q) + Len(b),
         \A i \in 1 .. Len(q) : r[i] = q[i],
         \A i \in 1 .. Len(b) : r[Len(q) + i] = b[i]
  PROVE  r = q \o b
<1>1. /\ q \o b \in Seq(S) /\ Len(q \o b) = Len(q) + Len(b)
      /\ \A i \in 1 .. Len(q) + Len(b) :
           (q \o b)[i] = IF i <= Len(q) THEN q[i] ELSE b[i - Len(q)]
  BY ConcatProperties
<1>2. Len(q) \in Nat /\ Len(b) \in Nat
  BY LenProperties
<1>3. ASSUME NEW i \in 1 .. Len(r) PROVE r[i] = (q \o b)[i]
  <2>1. CASE i <= Len(q)
    BY <1>1, <1>2, <2>1
  <2>2. CASE i > Len(q)
    <3>1. i - Len(q) \in 1 .. Len(b) /\ i = Len(q) + (i - Len(q))
      BY <1>2, <2>2
    <3>2. r[Len(q) + (i - Len(q))] = b[i - Len(q)]
      BY <3>1
    <3> QED BY <1>1, <1>2, <2>2, <3>1, <3>2
  <2> QED BY <1>2, <2>1, <2>2
<1> QED BY <1>1, <1>3, SeqEqual

LEMMA Dropped ==
  ASSUME NEW S, NEW q \in Seq(S), NEW r \in Seq(S), NEW n \in 0 .. Len(q),
         Len(r) = Len(q) - n, \A i \in 1 .. Len(r) : r[i] = q[n + i]
  PROVE  r = SubSeq(q, n + 1, Len(q))
<1>1. Len(q) \in Nat /\ \A i \in 1 .. Len(q) : q[i] \in S
  BY LenProperties, ElementOfSeq
<1>2. n + 1 \in Int /\ Len(q) \in Int /\ \A i \in n + 1 .. Len(q) : q[i] \in S
  BY <1>1
<1>3. /\ SubSeq(q, n + 1, Len(q)) \in Seq(S)
      /\ Len(SubSeq(q, n + 1, Len(q))) = IF n + 1 <= Len(q) THEN Len(q) - (n + 1) + 1 ELSE 0
      /\ \A i \in 1 .. Len(q) - (n + 1) + 1 : SubSeq(q, n + 1, Len(q))[i] = q[(n + 1) + i - 1]
  BY <1>2, SubSeqProperties
<1>4. Len(r) = Len(SubSeq(q, n + 1, Len(q)))
  BY <1>1, <1>3
<1>5. ASSUME NEW i \in 1 .. Len(r) PROVE r[i] = SubSeq(q, n + 1, Len(q))[i]
  <2>1. i \in 1 .. Len(q) - (n + 1) + 1 /\ (n + 1) + i - 1 = n + i
    BY <1>1
  <2> QED BY <1>3, <2>1
<1> QED BY <1>3, <1>4, <1>5, SeqEqual

LEMMA ItemsOfPart ==
  ASSUME NEW S, NEW q \in Seq(S), NEW m \in 1 .. Len(q) + 1, NEW n \in 0 .. Len(q)
  PROVE  Queue!ItemsOf(SubSeq(q, m, n)) = {q[i] : i \in m .. n}
<1>1. Len(q) \in Nat /\ \A i \in 1 .. Len(q) : q[i] \in S
  BY LenProperties, ElementOfSeq
<1>2. m \in Int /\ n \in Int /\ \A i \in m .. n : q[i] \in S
  BY <1>1
<1>3. /\ SubSeq(q, m, n) \in Seq(S)
      /\ Len(SubSeq(q, m, n)) = IF m <= n THEN n - m + 1 ELSE 0
      /\ \A i \in 1 .. n - m + 1 : SubSeq(q, m, n)[i] = q[m + i - 1]
  BY <1>2, SubSeqProperties
<1>4. DOMAIN SubSeq(q, m, n) = 1 .. n - m + 1
  <2>1. DOMAIN SubSeq(q, m, n) = 1 .. Len(SubSeq(q, m, n))
    BY <1>3, LenProperties
  <2> QED BY <1>2, <1>3, <2>1
<1>5. Queue!ItemsOf(SubSeq(q, m, n)) = {q[m + i - 1] : i \in 1 .. n - m + 1}
  BY <1>3, <1>4 DEF Queue!ItemsOf
<1>6. ASSUME NEW i \in m .. n PROVE q[i] \in {q[m + k - 1] : k \in 1 .. n - m + 1}
  <2>1. i - m + 1 \in 1 .. n - m + 1 /\ m + (i - m + 1) - 1 = i
    BY <1>2
  <2> QED BY <2>1
<1>7. ASSUME NEW k \in 1 .. n - m + 1 PROVE q[m + k - 1] \in {q[i] : i \in m .. n}
  <2>1. m + k - 1 \in m .. n
    BY <1>2
  <2> QED BY <2>1
<1> QED BY <1>5, <1>6, <1>7

-----------------------------------------------------------------------------
(* The saved window as a queue *)

\* The n records of flash content f from index a on.
Win(f, a, n) == [k \in 1 .. n |-> f[Slot(a + k - 1)]]

LEMMA WinType ==
  ASSUME NEW f \in [Slots -> Content], NEW a \in Nat, NEW n \in Nat
  PROVE  /\ Win(f, a, n) \in Seq(Content) /\ Len(Win(f, a, n)) = n
         /\ \A k \in 1 .. n : Win(f, a, n)[k] = f[Slot(a + k - 1)]
<1>1. \A k \in 1 .. n : f[Slot(a + k - 1)] \in Content
  BY SlotInRing
<1>2. Win(f, a, n) \in [1 .. n -> Content]
  BY <1>1 DEF Win
<1>3. Win(f, a, n) \in Seq(Content) /\ Len(Win(f, a, n)) = n
  BY <1>2, FcnSeq
<1> QED BY <1>3 DEF Win

LEMMA WinAppend ==
  ASSUME NEW f \in [Slots -> Content], NEW a \in Nat, NEW n \in Nat,
         NEW b \in Seq(Content), \A k \in 1 .. Len(b) : b[k] = f[Slot(a + n + k - 1)]
  PROVE  Win(f, a, n + Len(b)) = Win(f, a, n) \o b
<1>1. Len(b) \in Nat /\ n + Len(b) \in Nat
  BY LenProperties
<1>2. /\ Win(f, a, n) \in Seq(Content) /\ Len(Win(f, a, n)) = n
      /\ \A k \in 1 .. n : Win(f, a, n)[k] = f[Slot(a + k - 1)]
  BY WinType
<1>3. /\ Win(f, a, n + Len(b)) \in Seq(Content) /\ Len(Win(f, a, n + Len(b))) = n + Len(b)
      /\ \A k \in 1 .. n + Len(b) : Win(f, a, n + Len(b))[k] = f[Slot(a + k - 1)]
  BY <1>1, WinType
<1>4. \A i \in 1 .. n : Win(f, a, n + Len(b))[i] = Win(f, a, n)[i]
  BY <1>1, <1>2, <1>3
<1>5. ASSUME NEW i \in 1 .. Len(b) PROVE Win(f, a, n + Len(b))[n + i] = b[i]
  <2>1. n + i \in 1 .. n + Len(b) /\ a + (n + i) - 1 = a + n + i - 1
    BY <1>1
  <2> QED BY <1>3, <2>1
<1> DEFINE q == Win(f, a, n)
           r == Win(f, a, n + Len(b))
<1>6. /\ q \in Seq(Content) /\ r \in Seq(Content) /\ Len(r) = Len(q) + Len(b)
      /\ \A i \in 1 .. Len(q) : r[i] = q[i]
      /\ \A i \in 1 .. Len(b) : r[Len(q) + i] = b[i]
  BY <1>2, <1>3, <1>4, <1>5
<1> HIDE DEF q, r
<1>7. r = q \o b
  BY <1>6, Appended
<1> QED BY <1>7 DEF q, r

LEMMA WinDrop ==
  ASSUME NEW f \in [Slots -> Content], NEW a \in Nat, NEW n \in Nat, NEW m \in 0 .. n
  PROVE  Win(f, a + m, n - m) = SubSeq(Win(f, a, n), m + 1, Len(Win(f, a, n)))
<1>1. a + m \in Nat /\ n - m \in Nat
  OBVIOUS
<1>2. /\ Win(f, a, n) \in Seq(Content) /\ Len(Win(f, a, n)) = n
      /\ \A k \in 1 .. n : Win(f, a, n)[k] = f[Slot(a + k - 1)]
  BY WinType
<1>3. /\ Win(f, a + m, n - m) \in Seq(Content) /\ Len(Win(f, a + m, n - m)) = n - m
      /\ \A k \in 1 .. n - m : Win(f, a + m, n - m)[k] = f[Slot((a + m) + k - 1)]
  BY <1>1, WinType
<1>4. ASSUME NEW i \in 1 .. n - m PROVE Win(f, a + m, n - m)[i] = Win(f, a, n)[m + i]
  <2>1. m + i \in 1 .. n /\ a + (m + i) - 1 = (a + m) + i - 1
    OBVIOUS
  <2> QED BY <1>2, <1>3, <2>1
<1> QED BY <1>2, <1>3, <1>4, Dropped

LEMMA WinItems ==
  ASSUME NEW f \in [Slots -> Content], NEW a \in Nat, NEW n \in Nat,
         NEW l \in 1 .. n + 1, NEW m \in 0 .. n
  PROVE  Queue!ItemsOf(SubSeq(Win(f, a, n), l, m)) = {f[Slot(i)] : i \in (a + l - 1) .. (a + m - 1)}
<1>1. /\ Win(f, a, n) \in Seq(Content) /\ Len(Win(f, a, n)) = n
      /\ \A k \in 1 .. n : Win(f, a, n)[k] = f[Slot(a + k - 1)]
  BY WinType
<1>2. Queue!ItemsOf(SubSeq(Win(f, a, n), l, m)) = {Win(f, a, n)[i] : i \in l .. m}
  BY <1>1, ItemsOfPart
<1>3. \A i \in l .. m : Win(f, a, n)[i] = f[Slot(a + i - 1)] /\ a + i - 1 \in (a + l - 1) .. (a + m - 1)
  BY <1>1
<1>4. ASSUME NEW i \in (a + l - 1) .. (a + m - 1)
      PROVE  f[Slot(i)] \in {Win(f, a, n)[k] : k \in l .. m}
  <2>1. i - a + 1 \in l .. m /\ a + (i - a + 1) - 1 = i
    OBVIOUS
  <2> QED BY <1>3, <2>1
<1> QED BY <1>2, <1>3, <1>4

LEMMA QueueWin == SavedQueue = Win(flash, nvR, Waiting)
  BY DEF SavedQueue, Win, At

LEMMA QueueWinNext == SavedQueue' = Win(flash', nvR', Waiting')
  BY DEF SavedQueue, Win, At

QueueStep == [Queue!QNext]_(Queue!qvars)

LEMMA WaitingType == ASSUME TypeOK PROVE Waiting \in Nat
  BY DEF TypeOK, Waiting

\* A pair of indices in order, after the first start, holds the whole window.
LEMMA WaitingIs ==
  ASSUME TypeOK, nvMark, pc \notin {"initW", "initR"}, nvR <= nvW PROVE Waiting = nvW - nvR
  BY DEF TypeOK, Waiting

LEMMA EmptyStep ==
  ASSUME Waiting = 0, Waiting' = 0, UNCHANGED received PROVE QueueStep
<1>1. Win(flash', nvR', 0) = Win(flash, nvR, 0)
  BY DEF Win
<1>2. UNCHANGED SavedQueue
  BY <1>1, QueueWin, QueueWinNext
<1> QED BY <1>2 DEF QueueStep, Queue!qvars

LEMMA PlainQueue ==
  ASSUME UNCHANGED <<nvMark, nvW, nvR, flash>>,
         pc \notin {"initW", "initR"} <=> pc' \notin {"initW", "initR"}
  PROVE  UNCHANGED SavedQueue
  BY DEF SavedQueue, Waiting, At

LEMMA PlainStep ==
  ASSUME UNCHANGED <<nvMark, nvW, nvR, flash, received>>,
         pc \notin {"initW", "initR"} <=> pc' \notin {"initW", "initR"}
  PROVE  QueueStep
  BY PlainQueue DEF QueueStep, Queue!qvars

LEMMA KeptStep ==
  ASSUME TypeOK, RingInv, mishaps = {}, WindowKept, pc \in {"erase", "write"},
         pc' \notin {"initW", "initR"}, UNCHANGED <<nvMark, nvW, nvR, received>>
  PROVE  QueueStep
<1>1. nvMark /\ WindowStored /\ stored \subseteq Record
  BY DEF RingInv, StoredInv, GenuineInv
<1>2. Waiting' = Waiting /\ Waiting \in Nat /\ nvR \in Nat /\ nvW \in Nat
  BY WaitingType DEF Waiting, TypeOK
<1>3. ASSUME NEW k \in 1 .. Waiting PROVE flash'[Slot(nvR + k - 1)] = flash[Slot(nvR + k - 1)]
  <2>1. nvR + k - 1 \in nvR .. nvW - 1
    BY <1>2 DEF Waiting
  <2> QED BY <1>1, <2>1 DEF WindowStored, WindowKept, At
<1>4. UNCHANGED SavedQueue
  BY <1>2, <1>3 DEF SavedQueue, At
<1> QED BY <1>4 DEF QueueStep, Queue!qvars

-----------------------------------------------------------------------------
(* The steps of the queue *)

\* A record of the window that is answered with 200, or whose answer is lost.
LEMMA DeliverStep ==
  ASSUME OrderInv, RingInv, mishaps = {}, pc = "send",
         received' = received \union Request, UNCHANGED SavedQueue
  PROVE  QueueStep
<1>1. /\ TypeOK /\ nvMark /\ nvR = rIndex /\ nvW = wIndex /\ num <= wIndex - rIndex
      /\ sent < num /\ (Batch # 0 => sent = 0 /\ num <= Batch)
      /\ rIndex \in Nat /\ wIndex \in Nat /\ num \in Nat /\ sent \in Nat /\ Batch \in Nat
      /\ flash \in [Slots -> Content]
  BY LoggerAssumption DEF OrderInv, TypeInv, TypeOK, IndexInv, Quiet, Steps, SetSteps,
                          RingInv, StoredInv, MAXMETER
<1>2. Waiting = wIndex - rIndex /\ Waiting \in Nat
  BY <1>1, WaitingIs
<1>3. SavedQueue = Win(flash, rIndex, Waiting) /\ Len(SavedQueue) = Waiting
  BY <1>1, <1>2, QueueWin, WinType
<1>4. CASE Batch = 0
  <2>1. sent + 1 \in 1 .. Waiting /\ sent + 1 \in 1 .. Waiting + 1 /\ sent \in 0 .. Waiting
        /\ sent + 1 \in 0 .. Waiting /\ 1 \in 1 .. Waiting + 1 /\ (sent + 1) - 1 = sent
    BY <1>1, <1>2
  <2>2. Queue!ItemsOf(SubSeq(SavedQueue, 1, (sent + 1) - 1)) \subseteq received
    <3>1. Queue!ItemsOf(SubSeq(SavedQueue, 1, sent))
            = {flash[Slot(i)] : i \in (rIndex + 1 - 1) .. (rIndex + sent - 1)}
      BY <1>1, <1>2, <1>3, <2>1, WinItems
    <3>2. \A i \in rIndex .. rIndex + sent - 1 : At(i) \in received
      BY DEF RingInv, DurableInv
    <3>3. rIndex + 1 - 1 = rIndex
      BY <1>1
    <3> QED BY <2>1, <3>1, <3>2, <3>3 DEF At
  <2>3. Queue!ItemsOf(SubSeq(SavedQueue, sent + 1, sent + 1)) = Request
    <3>1. Queue!ItemsOf(SubSeq(SavedQueue, sent + 1, sent + 1))
            = {flash[Slot(i)] : i \in (rIndex + (sent + 1) - 1) .. (rIndex + (sent + 1) - 1)}
      BY <1>1, <1>2, <1>3, <2>1, WinItems
    <3>2. (rIndex + (sent + 1) - 1) .. (rIndex + (sent + 1) - 1) = {rIndex + sent}
      BY <1>1
    <3> QED BY <1>4, <3>1, <3>2 DEF Request, At
  <2>4. Queue!Deliver(sent + 1, sent + 1)
    BY <2>2, <2>3 DEF Queue!Deliver
  <2>5. sent + 1 \in (sent + 1) .. Len(SavedQueue) /\ (sent + 1) - (sent + 1) < 1
        /\ sent + 1 \in 1 .. Len(SavedQueue)
    BY <1>1, <1>2, <1>3, <2>1
  <2> QED BY <1>4, <2>4, <2>5 DEF QueueStep, Queue!QNext
<1>5. CASE Batch # 0
  <2>1. num \in 1 .. Waiting /\ num \in 0 .. Waiting /\ 1 \in 1 .. Waiting + 1 /\ 0 \in 0 .. Waiting
    BY <1>1, <1>2
  <2>2. Queue!ItemsOf(SubSeq(SavedQueue, 1, 1 - 1)) \subseteq received
    <3>1. Queue!ItemsOf(SubSeq(SavedQueue, 1, 0))
            = {flash[Slot(i)] : i \in (rIndex + 1 - 1) .. (rIndex + 0 - 1)}
      BY <1>1, <1>2, <1>3, <2>1, WinItems
    <3>2. (rIndex + 1 - 1) .. (rIndex + 0 - 1) = {} /\ 1 - 1 = 0
      BY <1>1
    <3> QED BY <3>1, <3>2
  <2>3. Queue!ItemsOf(SubSeq(SavedQueue, 1, num)) = Request
    <3>1. Queue!ItemsOf(SubSeq(SavedQueue, 1, num))
            = {flash[Slot(i)] : i \in (rIndex + 1 - 1) .. (rIndex + num - 1)}
      BY <1>1, <1>2, <1>3, <2>1, WinItems
    <3>2. rIndex + 1 - 1 = rIndex
      BY <1>1
    <3> QED BY <1>5, <3>1, <3>2 DEF Request, At
  <2>4. Queue!Deliver(1, num)
    BY <2>2, <2>3 DEF Queue!Deliver
  <2>5. num \in 1 .. Len(SavedQueue) /\ num - 1 < Batch /\ 1 \in 1 .. Len(SavedQueue)
    BY <1>1, <1>2, <1>3, <1>5, <2>1
  <2> QED BY <1>5, <2>4, <2>5 DEF QueueStep, Queue!QNext
<1> QED BY <1>4, <1>5

\* The write index is saved: the reading joins the queue.
LEMMA PutStep ==
  ASSUME OrderInv, RingInv, mishaps = {}, pc = "setW", nvW' = wIndex,
         pc' \notin {"initW", "initR"}, UNCHANGED <<nvMark, nvR, flash, received>>
  PROVE  QueueStep
<1>1. /\ TypeOK /\ nvMark /\ nvR <= nvW /\ wIndex = nvW + NumRec
      /\ wIndex \in Nat /\ nvW \in Nat /\ nvR \in Nat /\ NumRec \in Nat \ {0}
      /\ flash \in [Slots -> Content] /\ samples \in 1 .. MaxSamples
      /\ \A k \in 0 .. NumRec - 1 : At(wIndex - NumRec + k) = <<samples, k>>
  BY BatchBounds DEF OrderInv, TypeInv, TypeOK, IndexInv, RingInv, StoredInv
<1>2. Waiting = nvW - nvR /\ Waiting \in Nat
  BY <1>1, WaitingIs
<1>3. Waiting' = Waiting + NumRec
  BY <1>1, <1>2 DEF Waiting
<1>4. PICK b : b = [k \in 1 .. NumRec |-> <<samples, k - 1>>]
  OBVIOUS
<1>5. b \in Seq(Content) /\ Len(b) = NumRec
  <2>1. \A k \in 1 .. NumRec : k - 1 \in 0 .. NumRec - 1
    BY <1>1
  <2>2. b \in [1 .. NumRec -> Content]
    BY <1>1, <1>4, <2>1 DEF Content, Record
  <2> QED BY <1>1, <2>2, FcnSeq
<1>6. ASSUME NEW k \in 1 .. NumRec PROVE b[k] = flash[Slot(nvR + Waiting + k - 1)]
  <2>1. k - 1 \in 0 .. NumRec - 1 /\ wIndex - NumRec + (k - 1) = nvR + Waiting + k - 1
    BY <1>1, <1>2
  <2>2. At(wIndex - NumRec + (k - 1)) = <<samples, k - 1>>
    BY <1>1, <2>1
  <2>3. At(nvR + Waiting + k - 1) = <<samples, k - 1>>
    BY <2>1, <2>2
  <2> QED BY <1>4, <2>3 DEF At
<1>7. Win(flash, nvR, Waiting + Len(b)) = Win(flash, nvR, Waiting) \o b
  <2>1. \A k \in 1 .. Len(b) : b[k] = flash[Slot(nvR + Waiting + k - 1)]
    BY <1>5, <1>6
  <2>2. flash \in [Slots -> Content] /\ nvR \in Nat /\ Waiting \in Nat /\ b \in Seq(Content)
    BY <1>1, <1>2, <1>5
  <2> QED BY <2>1, <2>2, WinAppend, Zenon
<1>8. SavedQueue' = SavedQueue \o b
  BY <1>3, <1>5, <1>7, QueueWin, QueueWinNext
<1>9. b \in ReadingsTaken
  BY <1>1, <1>4 DEF ReadingsTaken
<1> QED BY <1>8, <1>9 DEF QueueStep, Queue!QNext, Queue!Put

\* The read index is saved: what the server has taken in leaves the queue.
LEMMA AcknowledgeStep ==
  ASSUME OrderInv, RingInv, mishaps = {}, pc = "setR", nvR' = rIndex,
         pc' \notin {"initW", "initR"}, UNCHANGED <<nvMark, nvW, flash, received>>
  PROVE  QueueStep
<1>1. /\ TypeOK /\ nvMark /\ nvR <= rIndex /\ rIndex <= nvW
      /\ nvW \in Nat /\ nvR \in Nat /\ rIndex \in Nat /\ flash \in [Slots -> Content]
  BY DEF OrderInv, TypeInv, TypeOK, IndexInv, RingInv, StoredInv
<1>2. Waiting = nvW - nvR /\ Waiting \in Nat
  BY <1>1, WaitingIs
<1>3. Waiting' = nvW - rIndex
  BY <1>1 DEF Waiting
<1>4. PICK n \in Nat : rIndex = nvR + n
  <2>1. rIndex - nvR \in Nat /\ rIndex = nvR + (rIndex - nvR)
    BY <1>1
  <2> QED BY <2>1
<1>5. n \in 0 .. Waiting /\ Waiting' = Waiting - n /\ 1 \in 1 .. Waiting + 1
  BY <1>1, <1>2, <1>3, <1>4
<1>6. SavedQueue = Win(flash, nvR, Waiting) /\ Len(SavedQueue) = Waiting
  BY <1>1, <1>2, QueueWin, WinType
<1>7. SavedQueue' = SubSeq(SavedQueue, n + 1, Len(SavedQueue))
  <2>1. Win(flash, nvR + n, Waiting - n)
          = SubSeq(Win(flash, nvR, Waiting), n + 1, Len(Win(flash, nvR, Waiting)))
    BY <1>1, <1>2, <1>5, WinDrop
  <2> QED BY <1>4, <1>5, <1>6, <2>1, QueueWinNext
<1>8. Queue!ItemsOf(SubSeq(SavedQueue, 1, n)) \subseteq received
  <2>1. Queue!ItemsOf(SubSeq(SavedQueue, 1, n))
          = {flash[Slot(i)] : i \in (nvR + 1 - 1) .. (nvR + n - 1)}
    BY <1>1, <1>2, <1>5, <1>6, WinItems
  <2>2. (nvR + 1 - 1) .. (nvR + n - 1) = nvR .. rIndex - 1
    BY <1>1, <1>4
  <2>3. \A i \in nvR .. rIndex - 1 : At(i) \in received
    BY DEF RingInv, DurableInv
  <2> QED BY <2>1, <2>2, <2>3 DEF At
<1>9. CASE n = 0
  <2>1. nvR' = nvR
    BY <1>1, <1>4, <1>9
  <2> QED BY <2>1, PlainStep
<1>10. CASE n # 0
  <2>1. n \in 1 .. Len(SavedQueue)
    BY <1>5, <1>6, <1>10
  <2>2. Queue!Acknowledge(n)
    BY <1>7, <1>8 DEF Queue!Acknowledge
  <2> QED BY <2>1, <2>2 DEF QueueStep, Queue!QNext
<1> QED BY <1>9, <1>10

-----------------------------------------------------------------------------
(* Every step of the logger is a step of the queue *)

LEMMA MishapsGrow == [Next]_vars => mishaps \subseteq mishaps'
<1> SUFFICES ASSUME [Next]_vars PROVE mishaps \subseteq mishaps'
  OBVIOUS
<1>1. CASE Boot
  BY <1>1 DEF Boot, RestoreIndices, InitNvram, InitSaveW, InitSaveR, hist
<1>2. CASE LoopTop \/ NotDue \/ ReadFails \/ ReadOk \/ Forward
  BY <1>2 DEF LoopTop, NotDue, ReadFails, ReadOk, Forward, PostBegin, PostSkip,
              Accept, Refuse, SaveR, hist
<1>3. CASE Store
  BY <1>3 DEF Store, EraseEntered, WriteOk, SaveW, DropReading, SkipSector,
              SkipSaveR, SkipSaveW, hist
<1>4. CASE Check
  BY <1>4 DEF Check, CheckNothing, Restart, ResetCommand, ResetSaveW, ResetSaveR, hist
<1>5. CASE Reset
  BY <1>5 DEF Reset, ResetInSave, ResetInErase, ResetInWrite
<1>6. CASE UNCHANGED vars
  BY <1>6 DEF vars, hist
<1> QED BY <1>1, <1>2, <1>3, <1>4, <1>5, <1>6 DEF Next, Loop

LEMMA QueueBoot ==
  ASSUME OrderInv, RingInv, mishaps' = {}, Boot PROVE QueueStep
<1>1. CASE RestoreIndices
  BY <1>1, PlainStep DEF RestoreIndices, nv, hist
<1>2. CASE InitNvram
  <2>1. ~nvMark /\ pc' = "initW" /\ UNCHANGED received
    BY <1>2 DEF InitNvram
  <2> QED BY <2>1, EmptyStep DEF Waiting
<1>3. CASE InitSaveW
  BY <1>3, EmptyStep DEF InitSaveW, Waiting, hist
<1>4. CASE InitSaveR
  <2>1. pc = "initR" /\ UNCHANGED received /\ nvR' = 0 /\ nvW' = 0
    BY <1>4 DEF InitSaveR, hist, OrderInv, IndexInv
  <2> QED BY <2>1, EmptyStep DEF Waiting
<1> QED BY <1>1, <1>2, <1>3, <1>4 DEF Boot

LEMMA QueueStore ==
  ASSUME OrderInv, RingInv, mishaps = {}, mishaps' = {}, Store PROVE QueueStep
<1>0. /\ TypeOK /\ wIndex \in Nat /\ rIndex \in Nat /\ nvW \in Nat /\ nvR \in Nat
  BY DEF OrderInv, TypeInv, TypeOK
<1>1. CASE EraseEntered
  <2>1. WindowKept
    <3>1. CASE UNCHANGED flash
      BY <3>1 DEF WindowKept, At
    <3>2. CASE /\ flash' = Blanked(flash, ErasedBy(wIndex, NumRec))
               /\ mishaps' = IF Overruns THEN mishaps \union {"overrun"} ELSE mishaps
      <4>1. ~Overruns
        BY <3>2
      <4> QED BY <1>1, <3>2, <4>1, EraseKeeps DEF EraseEntered, Blanked
    <3> QED BY <1>1, <3>1, <3>2 DEF EraseEntered
  <2> QED BY <1>0, <1>1, <2>1, KeptStep DEF EraseEntered, nv
<1>2. CASE WriteOk
  BY <1>0, <1>2, ProgramKeeps, KeptStep DEF WriteOk, nv, hist
<1>3. CASE SaveW
  BY <1>3, PutStep DEF SaveW
<1>4. CASE DropReading \/ SkipSector
  BY <1>0, <1>4, WriteFailsKeeps, KeptStep DEF DropReading, SkipSector, nv, hist
<1>5. CASE SkipSaveR
  <2>1. nvR = nvW /\ nvW <= rIndex /\ nvR' = rIndex /\ UNCHANGED <<nvW, received>>
    BY <1>5 DEF SkipSaveR, RingInv, StoredInv, hist
  <2>2. Waiting = 0 /\ Waiting' = 0
    BY <1>0, <2>1 DEF Waiting
  <2> QED BY <2>1, <2>2, EmptyStep
<1>6. CASE SkipSaveW
  <2>1. nvW <= nvR /\ nvW' = wIndex /\ nvR = rIndex /\ wIndex = rIndex
        /\ UNCHANGED <<nvR, received>>
    BY <1>6 DEF SkipSaveW, RingInv, StoredInv, OrderInv, IndexInv, hist
  <2>2. Waiting = 0 /\ Waiting' = 0
    BY <1>0, <2>1 DEF Waiting
  <2> QED BY <2>1, <2>2, EmptyStep
<1> QED BY <1>1, <1>2, <1>3, <1>4, <1>5, <1>6 DEF Store

\* A request under way is delivered or not; the window stays.
LEMMA SendStep ==
  ASSUME OrderInv, RingInv, mishaps = {}, pc = "send",
         received' \in {received, received \union Request},
         pc' \notin {"initW", "initR"}, UNCHANGED <<nvMark, nvW, nvR, flash>>
  PROVE  QueueStep
<1>1. UNCHANGED SavedQueue
  BY PlainQueue
<1>2. CASE received' = received
  BY <1>2, PlainStep
<1>3. CASE received' = received \union Request
  BY <1>1, <1>3, DeliverStep
<1> QED BY <1>2, <1>3

LEMMA QueueForward ==
  ASSUME OrderInv, RingInv, mishaps = {}, Forward PROVE QueueStep
<1>1. CASE PostBegin \/ PostSkip
  BY <1>1, PlainStep DEF PostBegin, PostSkip, nv, hist
<1>2. CASE Accept
  BY <1>2, SendStep DEF Accept, nv
<1>3. CASE Refuse
  BY <1>3, SendStep DEF Refuse, nv
<1>4. CASE SaveR
  BY <1>4, AcknowledgeStep DEF SaveR, hist
<1> QED BY <1>1, <1>2, <1>3, <1>4 DEF Forward

LEMMA QueueCheck ==
  ASSUME OrderInv, RingInv, Check PROVE QueueStep
<1>0. nvR \in Nat
  BY DEF OrderInv, TypeInv, TypeOK
<1>1. CASE CheckNothing \/ Restart \/ ResetCommand
  BY <1>1, PlainStep DEF CheckNothing, Restart, ResetCommand, Reboot, nv, hist
<1>2. CASE ResetSaveW
  <2>1. nvW' = 0 /\ UNCHANGED <<nvR, received>>
    BY <1>2 DEF ResetSaveW, OrderInv, IndexInv
  <2>2. Waiting' = 0
    BY <1>0, <2>1 DEF Waiting
  <2>3. SavedQueue' = <<>>
    BY <2>2, QueueWinNext DEF Win
  <2> QED BY <2>1, <2>3 DEF QueueStep, Queue!QNext, Queue!Clear
<1>3. CASE ResetSaveR
  <2>1. nvW = 0 /\ nvW' = 0 /\ nvR' = 0 /\ UNCHANGED received
    BY <1>3 DEF ResetSaveR, OrderInv, IndexInv, hist
  <2>2. Waiting = 0 /\ Waiting' = 0
    BY <1>0, <2>1 DEF Waiting
  <2> QED BY <2>1, <2>2, EmptyStep
<1> QED BY <1>1, <1>2, <1>3 DEF Check

LEMMA QueueResetSave ==
  ASSUME OrderInv, RingInv, mishaps = {}, mishaps' = {}, pc' = "boot",
         ResetInSave, UNCHANGED <<nvMark, flash, received>>
  PROVE  QueueStep
<1>0. wIndex \in Nat /\ rIndex \in Nat /\ nvW \in Nat /\ nvR \in Nat
  BY DEF OrderInv, TypeInv, TypeOK
<1>1. CASE pc \in SavesW
  <2>1. UNCHANGED nvR /\ Harmless(pc, nvW, nvW', wIndex)
    BY <1>1 DEF ResetInSave, SavesW, SavesR
  <2>2. CASE pc \in {"setW", "resetW"} /\ nvW' = nvW
    BY <2>1, <2>2, PlainStep
  <2>3. CASE pc = "setW" /\ nvW' = wIndex
    BY <2>1, <2>3, PutStep
  <2>4. CASE pc = "skipW" /\ nvW' = wIndex
    <3>1. nvW <= nvR /\ nvR = wIndex
      BY <2>4 DEF RingInv, StoredInv, OrderInv, IndexInv
    <3>2. Waiting = 0 /\ Waiting' = 0
      BY <1>0, <2>1, <2>4, <3>1 DEF Waiting
    <3> QED BY <3>2, EmptyStep
  <2> QED BY <1>1, <2>1, <2>2, <2>3, <2>4 DEF Harmless, SavesW
<1>2. CASE pc \in SavesR
  <2>1. UNCHANGED nvW /\ Harmless(pc, nvR, nvR', rIndex)
    BY <1>2 DEF ResetInSave, SavesW, SavesR
  <2>2. CASE pc \in {"setR", "skipR"} /\ nvR' = nvR
    BY <2>1, <2>2, PlainStep
  <2>3. CASE pc = "setR" /\ nvR' = rIndex
    BY <2>1, <2>3, AcknowledgeStep
  <2>4. CASE pc \in {"resetR", "initR"} /\ nvR' = rIndex
    <3>1. nvW = 0 /\ rIndex = 0
      BY <2>4 DEF OrderInv, IndexInv
    <3>2. Waiting = 0 /\ Waiting' = 0
      BY <1>0, <2>1, <2>4, <3>1 DEF Waiting
    <3> QED BY <3>2, EmptyStep
  <2> QED BY <1>2, <2>1, <2>2, <2>3, <2>4 DEF Harmless, SavesR
<1> QED BY <1>1, <1>2 DEF ResetInSave

LEMMA QueueReset ==
  ASSUME OrderInv, RingInv, mishaps = {}, mishaps' = {}, Reset PROVE QueueStep
<1>0. pc' = "boot" /\ UNCHANGED nvMark /\ TypeOK
  BY DEF Reset, Reboot, OrderInv, TypeInv
<1>1. CASE ResetInSave /\ UNCHANGED <<flash, received>>
  BY <1>0, <1>1, QueueResetSave
<1>2. CASE ResetInErase /\ UNCHANGED <<nvW, nvR, stored, received>>
  <2>1. WindowKept
    <3>1. CASE UNCHANGED flash
      BY <3>1 DEF WindowKept, At
    <3>2. CASE ~Overruns
      BY <1>2, <3>1, <3>2, EraseKeeps DEF ResetInErase
    <3> QED BY <1>2, <3>1, <3>2 DEF ResetInErase
  <2> QED BY <1>0, <1>2, <2>1, KeptStep DEF ResetInErase
<1>3. CASE ResetInWrite /\ UNCHANGED <<nvW, nvR, stored, received, mishaps>>
  BY <1>0, <1>3, ProgramKeeps, KeptStep DEF ResetInWrite
<1>4. CASE /\ pc = "send"
           /\ received' \in {received, received \union Request}
           /\ UNCHANGED <<nvW, nvR, flash, stored, mishaps>>
  BY <1>0, <1>4, SendStep
<1>5. CASE /\ pc \in Steps \ (SetSteps \union {"erase", "write", "send"})
           /\ UNCHANGED <<nvW, nvR, flash, stored, received, mishaps>>
  BY <1>0, <1>5, PlainStep DEF SetSteps
<1> QED BY <1>1, <1>2, <1>3, <1>4, <1>5 DEF Reset

\* main.cpp with its ring implements the queue: a reading is appended when the
\* write index is saved, requests carry the front of the saved window in order,
\* records leave it only after the server has them, and a reset is no step of the
\* queue at all, as long as no mishap is on record.
THEOREM ImplementsQueue == Spec => ForwardsInOrder
<1>1. Init => Queue!QInit
  <2> SUFFICES ASSUME Init PROVE Queue!QInit
    OBVIOUS
  <2>1. Waiting = 0 /\ received = {}
    BY DEF Init, Waiting
  <2>2. SavedQueue = <<>>
    BY <2>1, QueueWin DEF Win
  <2> QED BY <2>1, <2>2 DEF Queue!QInit
<1>2. OrderInv /\ RingInv /\ [Next]_vars => [mishaps' = {} => QueueStep]_vars
  <2> SUFFICES ASSUME OrderInv, RingInv, [Next]_vars, mishaps' = {} PROVE QueueStep
    OBVIOUS
  <2>0. mishaps = {}
    BY MishapsGrow
  <2>1. CASE Boot
    BY <2>1, QueueBoot
  <2>2. CASE Store
    BY <2>0, <2>2, QueueStore
  <2>3. CASE Forward
    BY <2>0, <2>3, QueueForward
  <2>4. CASE Check
    BY <2>4, QueueCheck
  <2>5. CASE LoopTop \/ NotDue \/ ReadFails \/ ReadOk
    BY <2>5, PlainStep DEF LoopTop, NotDue, ReadFails, ReadOk, nv, hist
  <2>6. CASE Reset
    BY <2>0, <2>6, QueueReset
  <2>7. CASE UNCHANGED vars
    BY <2>7, PlainStep DEF vars, nv, hist
  <2> QED BY <2>1, <2>2, <2>3, <2>4, <2>5, <2>6, <2>7 DEF Next, Loop
<1>3. Spec => [][mishaps' = {} => QueueStep]_vars
  BY <1>2, RingInvariant, PTL DEF Spec
<1> QED
  BY <1>1, <1>3 DEF Spec, ForwardsInOrder, QueueStep

=============================================================================
