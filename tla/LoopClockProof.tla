--------------------------- MODULE LoopClockProof ---------------------------
(***************************************************************************)
(* The clock on any network, and on one that answers in time.              *)
(*                                                                         *)
(* However late the answers are and whichever request they are taken for,  *)
(* the chip clock never runs ahead by more than the wait for one answer.   *)
(* The argument: an answer is stamped before it is taken, and the time of  *)
(* the request it is added to is at most the wait before that.  So the sum *)
(* exceeds the true time by the wait at most, and goes on doing so while   *)
(* the true time and millis() advance together.                            *)
(*                                                                         *)
(* However the clock is corrected, a reading is due at the latest an       *)
(* interval after the last one or the last step back.  The argument: what  *)
(* the clock shows less lastTime is at least the true time since then,     *)
(* unless lastTime is zero, which is long ago on any clock.                *)
(*                                                                         *)
(* As long as no answer was late, the clock is right up to the wait for an *)
(* answer, and readings are an interval apart up to that.  The argument:   *)
(* the socket then holds at most the answer to the present request, whose  *)
(* stamp is not before the request, so nothing the clock is set from is    *)
(* old.                                                                    *)
(***************************************************************************)
EXTENDS LoopClock, SequenceTheorems, TLAPS

\* The epoch runs ahead of the true time by the wait for one answer at most.
EpochBounded == epoch - lastUpdate <= boot + Polls

ClockTypes ==
  /\ time \in Int /\ boot \in Int
  /\ polls \in 0 .. Polls
  /\ mailbox \in Seq(Int)
  /\ epoch \in Int /\ lastUpdate \in Int
  /\ rtc \in Int

\* The inductive invariant of NeverAhead.
ClockInv ==
  /\ ClockTypes
  /\ \A n \in 1 .. Len(mailbox) : mailbox[n] <= time
  /\ lastUpdate # 0 \/ pc = "adjust" => EpochBounded
  /\ NeverAhead

\* An answer goes to the end of the queue.
LEMMA QueueAppend ==
  ASSUME NEW s \in Seq(Int), NEW e \in Int, NEW limit \in Int,
         \A n \in 1 .. Len(s) : s[n] <= limit, e <= limit
  PROVE  /\ Append(s, e) \in Seq(Int)
         /\ \A n \in 1 .. Len(Append(s, e)) : Append(s, e)[n] <= limit
  OBVIOUS

\* An answer is taken from the front of the queue.
LEMMA QueueTake ==
  ASSUME NEW s \in Seq(Int), s # <<>>, NEW limit \in Int,
         \A n \in 1 .. Len(s) : s[n] <= limit
  PROVE  /\ Head(s) \in Int /\ Head(s) <= limit
         /\ Tail(s) \in Seq(Int)
         /\ \A n \in 1 .. Len(Tail(s)) : Tail(s)[n] <= limit
  OBVIOUS

LEMMA ClockInit == Init => ClockInv
  BY ClockAssumption
  DEF ClockAssumption, Init, ClockInv, ClockTypes, EpochBounded, NeverAhead

LEMMA ClockStep == ClockInv /\ [Next]_vars => ClockInv'
<1> SUFFICES ASSUME ClockInv, [Next]_vars PROVE ClockInv'
  OBVIOUS
<1> USE ClockAssumption DEF ClockAssumption
<1>1. CASE UpToDate
  BY <1>1 DEF UpToDate, UpdateDue, Updated, ntp, net, clock, hist,
              ClockInv, ClockTypes, EpochBounded, NeverAhead
<1>2. CASE Send
  BY <1>2 DEF Send, clock, hist, ClockInv, ClockTypes, EpochBounded, NeverAhead
<1>3. CASE PollFinds
  <2>1. /\ mailbox # <<>> /\ polls < Polls
        /\ time' = time + 1
        /\ epoch' = Head(mailbox) /\ mailbox' = Tail(mailbox)
        /\ lastUpdate' = (time - boot + 1) - (polls + 2)
        /\ UNCHANGED <<boot, polls, rtc, tAdj>>
    BY <1>3 DEF PollFinds, Found, RequestedAt, Millis, clock
  <2>2. /\ Head(mailbox) \in Int /\ Head(mailbox) <= time
        /\ Tail(mailbox) \in Seq(Int)
        /\ \A n \in 1 .. Len(Tail(mailbox)) : Tail(mailbox)[n] <= time
    BY <2>1, QueueTake DEF ClockInv, ClockTypes
  <2>3. ClockTypes'
    BY <2>1, <2>2 DEF ClockInv, ClockTypes
  <2>4. \A n \in 1 .. Len(mailbox') : mailbox'[n] <= time'
    <3>1. ASSUME NEW n \in 1 .. Len(Tail(mailbox)) PROVE Tail(mailbox)[n] <= time + 1
      <4>1. Tail(mailbox)[n] <= time /\ Tail(mailbox)[n] \in Int
        BY <2>2
      <4> QED BY <4>1 DEF ClockInv, ClockTypes
    <3> QED BY <2>1, <3>1
  <2>5. EpochBounded'
    BY <2>1, <2>2 DEF EpochBounded, ClockInv, ClockTypes
  <2> QED BY <2>1, <2>3, <2>4, <2>5 DEF ClockInv, NeverAhead
<1>4. CASE PollEmpty
  BY <1>4 DEF PollEmpty, net, clock, hist, ClockInv, ClockTypes, EpochBounded, NeverAhead
<1>5. CASE PollLast
  <2>1. /\ mailbox' = mailbox \/ (mailbox # <<>> /\ mailbox' = Tail(mailbox))
        /\ time' = time + 1
        /\ pc' # "adjust"
        /\ UNCHANGED <<boot, polls, epoch, lastUpdate, rtc, tAdj>>
    BY <1>5 DEF PollLast, Found, Updated, ntp, clock
  <2>2. /\ mailbox' \in Seq(Int)
        /\ \A n \in 1 .. Len(mailbox') : mailbox'[n] <= time
    <3>1. CASE mailbox' = mailbox
      BY <3>1 DEF ClockInv, ClockTypes
    <3>2. CASE mailbox # <<>> /\ mailbox' = Tail(mailbox)
      BY <3>2, QueueTake DEF ClockInv, ClockTypes
    <3> QED BY <2>1, <3>1, <3>2
  <2>3. \A n \in 1 .. Len(mailbox') : mailbox'[n] \in Int
    BY <2>2
  <2> QED BY <2>1, <2>2, <2>3 DEF ClockInv, ClockTypes, EpochBounded, NeverAhead
<1>6. CASE Arrive
  <2>1. /\ UNCHANGED <<pc, time, boot, polls, epoch, lastUpdate, rtc, tAdj>>
        /\ \/ mailbox' = mailbox
           \/ \E stamp \in Int : stamp <= time /\ mailbox' = Append(mailbox, stamp)
    BY <1>6 DEF Arrive, ntp, clock, ClockInv, ClockTypes
  <2>2. /\ mailbox' \in Seq(Int)
        /\ \A n \in 1 .. Len(mailbox') : mailbox'[n] <= time
    BY <2>1, QueueAppend DEF ClockInv, ClockTypes
  <2> QED BY <2>1, <2>2 DEF ClockInv, ClockTypes, EpochBounded, NeverAhead
<1>7. CASE Adjust
  <2>1. /\ pc = "adjust" /\ pc' = "clock"
        /\ UNCHANGED <<time, boot, polls, epoch, lastUpdate, mailbox>>
    BY <1>7 DEF Adjust, ntp, net
  <2>2. rtc' = EpochTime - time \/ (tAdj /\ rtc' = rtc)
    BY <1>7, Zenon DEF Adjust, FirstSync
  <2>3. EpochTime - time \in Int /\ EpochTime - time <= Polls
    BY <2>1 DEF EpochTime, Millis, ClockInv, ClockTypes, EpochBounded
  <2>4. rtc' \in Int /\ rtc' <= Polls
    BY <2>2, <2>3 DEF ClockInv, ClockTypes, NeverAhead
  <2> QED BY <2>1, <2>4 DEF ClockInv, ClockTypes, EpochBounded, NeverAhead
<1>8. CASE ReadClock \/ NotDue \/ ReadOk \/ ReadFails
  BY <1>8 DEF ReadClock, NotDue, ReadOk, ReadFails, ntp, net, clock, hist,
              ClockInv, ClockTypes, EpochBounded, NeverAhead
<1>9. CASE Rest
  <2>1. /\ time' \in Int /\ time <= time'
        /\ pc = "rest" /\ pc' = "update"
        /\ UNCHANGED <<boot, polls, epoch, lastUpdate, mailbox, rtc, tAdj>>
    BY <1>9 DEF Rest, ntp, net, clock, ClockInv, ClockTypes
  <2>2. \A n \in 1 .. Len(mailbox) : mailbox[n] \in Int /\ mailbox[n] <= time
    BY DEF ClockInv, ClockTypes
  <2> QED BY <2>1, <2>2 DEF ClockInv, ClockTypes, EpochBounded, NeverAhead
<1>10. CASE Reset
  BY <1>10 DEF Reset, ClockInv, ClockTypes, EpochBounded, NeverAhead
<1>11. CASE UNCHANGED vars
  BY <1>11 DEF vars, ntp, net, clock, ClockInv, ClockTypes, EpochBounded, NeverAhead
<1> QED
  BY <1>1, <1>2, <1>3, <1>4, <1>5, <1>6, <1>7, <1>8, <1>9, <1>10, <1>11 DEF Next

\* Once the chip clock has been set by loop(), it is never ahead of the true
\* time by more than the polls for one answer, on any network.
THEOREM ClockNeverAhead == Spec => []NeverAhead
<1>1. ClockInv => NeverAhead
  BY DEF ClockInv
<1> QED
  BY ClockInit, ClockStep, <1>1, PTL DEF Spec

-----------------------------------------------------------------------------

\* t was shown by the clock, as it is set now, at the last reading or the last
\* step back, or before.
Past(t) == t <= lastRead.at + rtc \/ t <= setback + rtc

DelayTypes ==
  /\ time \in Int /\ boot \in Int /\ polls \in 0 .. Polls
  /\ mailbox \in Seq(Int)
  /\ epoch \in Int /\ lastUpdate \in Int
  /\ rtc \in Int /\ now \in Int /\ lastTime \in Int
  /\ lastRead.at \in Int /\ setback \in Int

\* The epoch is no older than the first boot, and neither is what the clock
\* is set to.
EpochInPast == epoch >= Start /\ lastUpdate <= time - boot

\* The inductive invariant of ReadingNotDelayed.
DelayInv ==
  /\ DelayTypes
  /\ \A n \in 1 .. Len(mailbox) : mailbox[n] >= Start
  /\ lastUpdate # 0 \/ pc = "adjust" => EpochInPast
  /\ time + rtc >= Interval
  /\ lastTime = 0 \/ Past(lastTime) \/ (pc = "clock" /\ setback = time)
  /\ pc = "read" => now = time + rtc

\* The two ends of the queue, for a lower limit.
LEMMA QueueAppendAbove ==
  ASSUME NEW s \in Seq(Int), NEW e \in Int, NEW limit \in Int,
         \A n \in 1 .. Len(s) : s[n] >= limit, e >= limit
  PROVE  /\ Append(s, e) \in Seq(Int)
         /\ \A n \in 1 .. Len(Append(s, e)) : Append(s, e)[n] >= limit
  OBVIOUS

LEMMA QueueTakeAbove ==
  ASSUME NEW s \in Seq(Int), s # <<>>, NEW limit \in Int,
         \A n \in 1 .. Len(s) : s[n] >= limit
  PROVE  /\ Head(s) \in Int /\ Head(s) >= limit
         /\ Tail(s) \in Seq(Int)
         /\ \A n \in 1 .. Len(Tail(s)) : Tail(s)[n] >= limit
  OBVIOUS

LEMMA DelayInit == Init => DelayInv
  BY ClockAssumption
  DEF ClockAssumption, Init, NoRead, DelayInv, DelayTypes, EpochInPast, Past

LEMMA DelayStep == DelayInv /\ [Next]_vars => DelayInv'
<1> SUFFICES ASSUME DelayInv, [Next]_vars PROVE DelayInv'
  OBVIOUS
<1> USE ClockAssumption DEF ClockAssumption
<1>1. CASE UpToDate
  BY <1>1 DEF UpToDate, UpdateDue, Updated, ntp, net, clock, hist,
              DelayInv, DelayTypes, EpochInPast, Past
<1>2. CASE Send
  BY <1>2 DEF Send, clock, hist, DelayInv, DelayTypes, EpochInPast, Past
<1>3. CASE PollFinds
  <2>1. /\ mailbox # <<>> /\ polls < Polls
        /\ pc = "wait" /\ time' = time + 1 /\ pc' # "clock" /\ pc' # "read"
        /\ epoch' = Head(mailbox) /\ mailbox' = Tail(mailbox)
        /\ lastUpdate' = (time - boot + 1) - (polls + 2)
        /\ UNCHANGED <<boot, polls, rtc, now, lastTime, lastRead, setback>>
    BY <1>3 DEF PollFinds, Found, Updated, RequestedAt, Millis, clock, hist
  <2>2. /\ Head(mailbox) \in Int /\ Head(mailbox) >= Start
        /\ Tail(mailbox) \in Seq(Int)
        /\ \A n \in 1 .. Len(Tail(mailbox)) : Tail(mailbox)[n] >= Start
    BY <2>1, QueueTakeAbove DEF DelayInv, DelayTypes
  <2>3. DelayTypes' /\ EpochInPast'
    BY <2>1, <2>2 DEF DelayInv, DelayTypes, EpochInPast
  <2>4. time' + rtc' >= Interval
    BY <2>1 DEF DelayInv, DelayTypes
  <2>5. lastTime' = 0 \/ Past(lastTime)'
    BY <2>1 DEF DelayInv, Past
  <2> QED BY <2>1, <2>2, <2>3, <2>4, <2>5 DEF DelayInv
<1>4. CASE PollEmpty
  BY <1>4 DEF PollEmpty, net, clock, hist, DelayInv, DelayTypes, EpochInPast, Past
<1>5. CASE PollLast
  <2>1. /\ mailbox' = mailbox \/ (mailbox # <<>> /\ mailbox' = Tail(mailbox))
        /\ pc = "wait" /\ time' = time + 1
        /\ pc' # "adjust" /\ pc' # "read"
        /\ UNCHANGED <<boot, polls, epoch, lastUpdate, rtc, now, lastTime, lastRead, setback>>
    BY <1>5 DEF PollLast, Found, Updated, ntp, clock, hist
  <2>2. /\ mailbox' \in Seq(Int)
        /\ \A n \in 1 .. Len(mailbox') : mailbox'[n] >= Start
    <3>1. CASE mailbox' = mailbox
      BY <3>1 DEF DelayInv, DelayTypes
    <3>2. CASE mailbox # <<>> /\ mailbox' = Tail(mailbox)
      BY <3>2, QueueTakeAbove DEF DelayInv, DelayTypes
    <3> QED BY <2>1, <3>1, <3>2
  <2> QED BY <2>1, <2>2 DEF DelayInv, DelayTypes, EpochInPast, Past
<1>6. CASE Arrive
  <2>1. /\ UNCHANGED <<pc, time, boot, polls, epoch, lastUpdate, rtc, now, lastTime,
                       lastRead, setback>>
        /\ \/ mailbox' = mailbox
           \/ \E stamp \in Int : stamp >= Start /\ mailbox' = Append(mailbox, stamp)
    BY <1>6 DEF Arrive, ntp, clock, hist, DelayInv, DelayTypes
  <2>2. /\ mailbox' \in Seq(Int)
        /\ \A n \in 1 .. Len(mailbox') : mailbox'[n] >= Start
    <3>1. CASE mailbox' = mailbox
      BY <3>1 DEF DelayInv, DelayTypes
    <3>2. ASSUME NEW stamp \in Int, stamp >= Start, mailbox' = Append(mailbox, stamp)
          PROVE  /\ mailbox' \in Seq(Int)
                 /\ \A n \in 1 .. Len(mailbox') : mailbox'[n] >= Start
      <4>1. /\ Append(mailbox, stamp) \in Seq(Int)
            /\ \A n \in 1 .. Len(Append(mailbox, stamp)) : Append(mailbox, stamp)[n] >= Start
        BY <3>2, QueueAppendAbove DEF DelayInv, DelayTypes
      <4> QED BY <3>2, <4>1
    <3> QED BY <2>1, <3>1, <3>2
  <2> QED BY <2>1, <2>2 DEF DelayInv, DelayTypes, EpochInPast, Past
<1>7. CASE Adjust
  <2>1. /\ pc = "adjust" /\ pc' = "clock"
        /\ UNCHANGED <<time, boot, polls, epoch, lastUpdate, mailbox, now, lastRead>>
    BY <1>7 DEF Adjust, ntp, net
  <2>2. \/ rtc' = EpochTime - time /\ setback' = IF rtc' < rtc THEN time ELSE setback
        \/ rtc' = rtc /\ setback' = setback
    BY <1>7, Zenon DEF Adjust
  <2>3. EpochTime - time \in Int /\ time + (EpochTime - time) >= Interval
    BY <2>1 DEF EpochTime, Millis, DelayInv, DelayTypes, EpochInPast
  <2>4. lastTime' = 0 \/ lastTime' = lastTime
    BY <1>7, Zenon DEF Adjust
  <2>5. DelayTypes'
    BY <2>1, <2>2, <2>3, <2>4 DEF DelayInv, DelayTypes
  <2>6. time' + rtc' >= Interval
    BY <2>1, <2>2, <2>3 DEF DelayInv, DelayTypes
  <2>7. lastTime' = 0 \/ Past(lastTime)' \/ setback' = time'
    BY <2>1, <2>2, <2>3, <2>4 DEF DelayInv, DelayTypes, Past
  <2> QED BY <2>1, <2>5, <2>6, <2>7 DEF DelayInv, EpochInPast
<1>8. CASE ReadClock
  BY <1>8 DEF ReadClock, NotAfter, ntp, net, hist,
              DelayInv, DelayTypes, EpochInPast, Past
<1>9. CASE NotDue \/ ReadFails
  BY <1>9 DEF NotDue, ReadFails, ntp, net, clock, hist,
              DelayInv, DelayTypes, EpochInPast, Past
<1>10. CASE ReadOk
  BY <1>10 DEF ReadOk, ntp, net, DelayInv, DelayTypes, EpochInPast, Past
<1>11. CASE Rest
  <2> PICK d \in 1 .. MaxPass : time' = time + d
    BY <1>11 DEF Rest
  <2>1. /\ pc = "rest" /\ pc' = "update"
        /\ UNCHANGED <<boot, polls, epoch, lastUpdate, mailbox, rtc, now, lastTime,
                       lastRead, setback>>
    BY <1>11 DEF Rest, ntp, net, clock, hist
  <2>2. DelayTypes' /\ time' + rtc' >= Interval
    BY <2>1 DEF DelayInv, DelayTypes
  <2>3. lastUpdate' # 0 => EpochInPast'
    BY <2>1 DEF DelayInv, DelayTypes, EpochInPast
  <2>4. lastTime' = 0 \/ Past(lastTime)'
    BY <2>1 DEF DelayInv, Past
  <2> QED BY <2>1, <2>2, <2>3, <2>4 DEF DelayInv
<1>12. CASE Reset
  BY <1>12 DEF Reset, NoRead, DelayInv, DelayTypes, EpochInPast, Past
<1>13. CASE UNCHANGED vars
  BY <1>13 DEF vars, ntp, net, clock, hist, DelayInv, DelayTypes, EpochInPast, Past
<1> QED
  BY <1>1, <1>2, <1>3, <1>4, <1>5, <1>6, <1>7, <1>8, <1>9, <1>10, <1>11, <1>12, <1>13
  DEF Next

\* However answers are mixed up and however the clock is stepped, loop() finds
\* a reading due when an interval has passed since the last one and since the
\* clock was last set back.
THEOREM ReadingInTime == Spec => []ReadingNotDelayed
<1>1. DelayInv => ReadingNotDelayed
  BY ClockAssumption
  DEF ClockAssumption, DelayInv, DelayTypes, Past, ReadingNotDelayed, Due
<1> QED
  BY DelayInit, DelayStep, <1>1, PTL DEF Spec

-----------------------------------------------------------------------------
(* Types *)

\* TypeOK, and that millis() is beyond the polls of the request under way: the
\* time of a request, counted back from its answer, is not before the boot.
TypeInv ==
  /\ TypeOK
  /\ time - boot >= BootTime
  /\ pc = "wait" => time - boot >= BootTime + polls

LEMMA MailboxTypes ==
  ASSUME NEW S, NEW s \in Seq(S), NEW e \in S
  PROVE  /\ Append(s, e) \in Seq(S) /\ Len(Append(s, e)) = Len(s) + 1
         /\ s # <<>> => Head(s) \in S /\ Tail(s) \in Seq(S) /\ Len(Tail(s)) = Len(s) - 1
         /\ Len(s) \in Nat
  OBVIOUS

LEMMA ClockTypeStep == TypeInv /\ [Next]_vars => TypeInv'
<1> SUFFICES ASSUME TypeInv, [Next]_vars PROVE TypeInv'
  OBVIOUS
<1> USE ClockAssumption DEF ClockAssumption
<1>1. CASE UpToDate
  BY <1>1 DEF UpToDate, Updated, ntp, net, clock, hist, TypeInv, TypeOK
<1>2. CASE Send
  BY <1>2 DEF Send, clock, hist, TypeInv, TypeOK
<1>3. CASE PollFinds
  <2>1. /\ mailbox # <<>> /\ polls < Polls /\ pc = "wait" /\ time < MaxTime
        /\ time' = time + 1 /\ epoch' = Head(mailbox) /\ mailbox' = Tail(mailbox)
        /\ lastUpdate' = (time - boot + 1) - (polls + 2)
        /\ UNCHANGED <<boot, polls, flight, held, clock, hist, resets>>
        /\ pc' \in {"update", "adjust"} /\ booting' \in BOOLEAN
    BY <1>3 DEF PollFinds, Found, RequestedAt, Updated, Millis, TypeInv, TypeOK
  <2>2. /\ epoch' \in Start .. MaxTime /\ mailbox' \in Seq(Start .. MaxTime)
        /\ Len(mailbox') <= Mailbox
    <3>1. mailbox \in Seq(Start .. MaxTime) /\ Len(mailbox) <= Mailbox
      BY DEF TypeInv, TypeOK
    <3> QED BY <2>1, <3>1, MailboxTypes
  <2>3. lastUpdate' \in Nat
    BY <2>1 DEF TypeInv, TypeOK
  <2> QED BY <2>1, <2>2, <2>3 DEF TypeInv, TypeOK, clock, hist
<1>4. CASE PollEmpty
  BY <1>4 DEF PollEmpty, net, clock, hist, TypeInv, TypeOK
<1>5. CASE PollLast
  <2>1. /\ mailbox' = mailbox \/ (mailbox # <<>> /\ mailbox' = Tail(mailbox))
        /\ pc = "wait" /\ time < MaxTime /\ time' = time + 1
        /\ held' \in BOOLEAN /\ late' \in BOOLEAN
        /\ UNCHANGED <<boot, ntp, flight, clock, lastRead, setback, resets>>
        /\ pc' \in {"update", "clock"} /\ booting' \in BOOLEAN
    BY <1>5 DEF PollLast, Found, Updated, TypeInv, TypeOK
  <2>2. mailbox' \in Seq(Start .. MaxTime) /\ Len(mailbox') <= Mailbox
    <3>1. mailbox \in Seq(Start .. MaxTime) /\ Len(mailbox) <= Mailbox
      BY DEF TypeInv, TypeOK
    <3>2. CASE mailbox # <<>> /\ mailbox' = Tail(mailbox)
      BY <3>1, <3>2, MailboxTypes
    <3> QED BY <2>1, <3>1, <3>2
  <2> QED BY <2>1, <2>2 DEF TypeInv, TypeOK, ntp, clock
<1>6. CASE Arrive
  <2>1. PICK q \in flight, stamp \in Start .. time :
          /\ flight' = flight \ {q}
          /\ mailbox' = IF Room THEN Append(mailbox, stamp) ELSE mailbox
    BY <1>6 DEF Arrive
  <2>2. mailbox' \in Seq(Start .. MaxTime) /\ Len(mailbox') <= Mailbox
    <3>1. /\ mailbox \in Seq(Start .. MaxTime) /\ Len(mailbox) <= Mailbox
          /\ stamp \in Start .. MaxTime
      BY DEF TypeInv, TypeOK
    <3>2. /\ Append(mailbox, stamp) \in Seq(Start .. MaxTime)
          /\ Len(Append(mailbox, stamp)) = Len(mailbox) + 1 /\ Len(mailbox) \in Nat
      BY <3>1, MailboxTypes
    <3>3. CASE Room
      BY <2>1, <3>2, <3>3 DEF Room
    <3>4. CASE ~Room
      BY <2>1, <3>1, <3>4
    <3> QED BY <3>3, <3>4
  <2> QED BY <1>6, <2>1, <2>2 DEF Arrive, ntp, clock, hist, TypeInv, TypeOK
<1>7. CASE Adjust
  <2>1. rtc' \in Int /\ lastUpdateRTC' \in Nat /\ setback' \in Nat
    <3>1. EpochTime - time \in Int /\ Millis \in Nat /\ time \in Nat
      BY DEF EpochTime, Millis, TypeInv, TypeOK
    <3>2. \/ rtc' = EpochTime - time /\ lastUpdateRTC' = Millis /\ setback' \in {time, setback}
          \/ UNCHANGED <<rtc, lastUpdateRTC, setback>>
      BY <1>7, Zenon DEF Adjust
    <3> QED BY <3>1, <3>2 DEF TypeInv, TypeOK
  <2>2. lastTime' \in {0, lastTime}
    BY <1>7, Zenon DEF Adjust
  <2> QED BY <1>7, <2>1, <2>2 DEF Adjust, ntp, net, TypeInv, TypeOK
<1>8. CASE ReadClock
  BY <1>8 DEF ReadClock, NotAfter, ntp, net, hist, TypeInv, TypeOK
<1>9. CASE NotDue \/ ReadFails
  BY <1>9 DEF NotDue, ReadFails, ntp, net, clock, hist, TypeInv, TypeOK
<1>10. CASE ReadOk
  BY <1>10 DEF ReadOk, ntp, net, TypeInv, TypeOK
<1>11. CASE Rest
  <2>1. PICK d \in 1 .. MaxPass : time' = time + d
    BY <1>11 DEF Rest
  <2> QED BY <1>11, <2>1 DEF Rest, ntp, net, clock, hist, TypeInv, TypeOK
<1>12. CASE Reset
  <2>1. /\ pc' = "update" /\ booting' = TRUE /\ time' = time /\ boot' = time - BootTime
        /\ polls' = 0 /\ epoch' = 0 /\ lastUpdate' = 0 /\ mailbox' = <<>> /\ held' = FALSE
        /\ tAdj' = FALSE /\ lastUpdateRTC' = 0 /\ now' = time + rtc /\ lastTime' = 0
        /\ lastRead' = NoRead /\ flight' \subseteq flight /\ UNCHANGED <<rtc, setback>>
        /\ resets' = resets + 1 /\ resets < MaxResets
    BY <1>12 DEF Reset
  <2>2. late' \in BOOLEAN
    BY <1>12 DEF Reset, TypeInv, TypeOK
  <2>3. /\ time \in Start .. MaxTime /\ rtc \in Int /\ now' \in Int
        /\ boot' \in 0 .. MaxTime /\ time' - boot' >= BootTime
    BY <2>1 DEF TypeInv, TypeOK
  <2>4. /\ <<>> \in Seq(Start .. MaxTime) /\ Len(<<>>) = 0
        /\ NoRead \in [at : Nat, synced : BOOLEAN]
    BY DEF NoRead
  <2>5. (booting \in BOOLEAN /\ held \in BOOLEAN /\ tAdj \in BOOLEAN /\ late \in BOOLEAN)'
    BY <2>1, <2>2
  <2>6. (mailbox \in Seq(Start .. MaxTime) /\ Len(mailbox) <= Mailbox
           /\ lastRead \in [at : Nat, synced : BOOLEAN])'
    BY <2>1, <2>4
  <2> QED BY <2>1, <2>3, <2>5, <2>6 DEF TypeInv, TypeOK
<1>13. CASE UNCHANGED vars
  BY <1>13 DEF vars, ntp, net, clock, hist, TypeInv, TypeOK
<1> QED
  BY <1>1, <1>2, <1>3, <1>4, <1>5, <1>6, <1>7, <1>8, <1>9, <1>10, <1>11, <1>12, <1>13
  DEF Next

\* The state of loop() and the NTP client is well typed: the queue of the socket
\* keeps to its limit, and no time that is counted back is negative.
THEOREM ClockTyped == Spec => []TypeOK
<1>1. Init => TypeInv
  <2>1. /\ <<>> \in Seq(Start .. MaxTime) /\ Len(<<>>) = 0
        /\ NoRead \in [at : Nat, synced : BOOLEAN]
    BY DEF NoRead
  <2>2. Init => rtc \in Int /\ now \in Int /\ time \in Start .. MaxTime
                /\ boot \in 0 .. MaxTime /\ time - boot >= BootTime
    BY ClockAssumption DEF ClockAssumption, Init
  <2>3. Init => mailbox \in Seq(Start .. MaxTime) /\ Len(mailbox) <= Mailbox
                /\ lastRead \in [at : Nat, synced : BOOLEAN]
    BY <2>1, ClockAssumption DEF ClockAssumption, Init
  <2>4. Init => /\ pc = "update" /\ polls = 0 /\ flight = {}
                /\ epoch = 0 /\ lastUpdate = 0 /\ lastUpdateRTC = 0 /\ lastTime = 0
                /\ setback = 0 /\ resets = 0
    BY DEF Init
  <2>5. Init => booting \in BOOLEAN /\ held \in BOOLEAN /\ tAdj \in BOOLEAN /\ late \in BOOLEAN
    BY DEF Init
  <2> QED BY <2>2, <2>3, <2>4, <2>5, ClockAssumption DEF ClockAssumption, TypeInv, TypeOK
<1>2. TypeInv => TypeOK
  BY DEF TypeInv
<1> QED BY <1>1, <1>2, ClockTypeStep, PTL DEF Spec

-----------------------------------------------------------------------------
(* A clock whose answers are in time *)

\* The request under way is the only one whose answer can come, and the socket
\* holds nothing but that answer.
OwnAnswer ==
  /\ flight \subseteq {time - polls}
  /\ mailbox = <<>> \/ /\ flight = {} /\ Len(mailbox) = 1
                       /\ mailbox[1] \in (time - polls) .. time

\* The inductive invariant of SyncedWithin and ReadingsSpaced: as long as no
\* answer has been late, the client never takes an answer for another request.
SyncInv ==
  ~late =>
    /\ ~held
    /\ IF pc = "wait" THEN OwnAnswer ELSE flight = {} /\ mailbox = <<>>
    /\ lastUpdate # 0 \/ pc = "adjust" => epoch - lastUpdate - boot \in 1 .. Polls
    /\ tAdj => rtc \in 1 .. Polls
    /\ pc = "read" => now = time + rtc
    /\ lastRead.at <= time
    /\ lastRead.synced => tAdj /\ lastRead.at < lastTime

LEMMA OnlyOne ==
  ASSUME NEW S, NEW s \in Seq(S), Len(s) = 1 PROVE Head(s) = s[1] /\ Tail(s) = <<>>
<1>1. s # <<>> /\ Tail(s) \in Seq(S) /\ Len(Tail(s)) = 0
  OBVIOUS
<1>2. Head(s) = s[1]
  OBVIOUS
<1>3. Tail(s) = <<>>
  <2>1. \A q \in Seq(S) : q # <<>> => Len(q) \in Nat \ {0}
    BY EmptySeq
  <2> QED BY <1>1, <2>1
<1> QED BY <1>2, <1>3

LEMMA SyncInit == Init => SyncInv
  BY ClockAssumption DEF ClockAssumption, Init, NoRead, SyncInv

LEMMA SyncStep == TypeOK /\ SyncInv /\ [Next]_vars => SyncInv'
<1> SUFFICES ASSUME TypeOK, SyncInv, [Next]_vars, ~late' PROVE SyncInv'
  BY DEF SyncInv
<1> USE ClockAssumption DEF ClockAssumption
<1>0. /\ time \in Nat /\ boot \in Int /\ polls \in Nat /\ epoch \in Int /\ lastUpdate \in Int
      /\ rtc \in Int /\ now \in Int /\ lastTime \in Int /\ lastRead.at \in Int
      /\ mailbox \in Seq(Start .. MaxTime)
  BY DEF TypeOK
<1>1. CASE UpToDate
  BY <1>1 DEF UpToDate, UpdateDue, Updated, ntp, net, clock, hist, SyncInv
<1>2. CASE Send
  BY <1>0, <1>2 DEF Send, clock, hist, SyncInv, OwnAnswer
<1>3. CASE PollFinds
  <2>1. /\ mailbox # <<>> /\ polls < Polls /\ pc = "wait"
        /\ time' = time + 1 /\ epoch' = Head(mailbox) /\ mailbox' = Tail(mailbox)
        /\ lastUpdate' = (time - boot + 1) - (polls + 2)
        /\ pc' \in {"update", "adjust"}
        /\ UNCHANGED <<boot, polls, flight, held, rtc, tAdj, now, lastTime, lastRead, late>>
    BY <1>3 DEF PollFinds, Found, RequestedAt, Updated, Millis, clock, hist
  <2>2. /\ flight = {} /\ Len(mailbox) = 1 /\ mailbox[1] \in (time - polls) .. time
    BY <2>1 DEF SyncInv, OwnAnswer
  <2>3. Head(mailbox) = mailbox[1] /\ Tail(mailbox) = <<>>
    BY <1>0, <2>2, OnlyOne
  <2>4. epoch' - lastUpdate' - boot' \in 1 .. Polls
    BY <1>0, <2>1, <2>2, <2>3
  <2>5. ~held' /\ flight' = {} /\ mailbox' = <<>>
    BY <2>1, <2>2, <2>3 DEF SyncInv
  <2>6. (tAdj => rtc \in 1 .. Polls)' /\ lastRead'.at <= time'
        /\ (lastRead.synced => tAdj /\ lastRead.at < lastTime)'
    BY <1>0, <2>1 DEF SyncInv
  <2> QED BY <2>1, <2>4, <2>5, <2>6 DEF SyncInv
<1>4. CASE PollEmpty
  BY <1>0, <1>4 DEF PollEmpty, Found, net, clock, hist, SyncInv, OwnAnswer
<1>5. CASE PollLast
  <2>1. ~late /\ ~Found /\ flight = {} /\ UNCHANGED <<held, mailbox, flight>>
    BY <1>5 DEF PollLast
  <2>2. /\ pc = "wait" /\ time' = time + 1 /\ pc' \notin {"wait", "adjust", "read"}
        /\ UNCHANGED <<boot, epoch, lastUpdate, rtc, tAdj, lastTime, lastRead>>
    BY <1>5 DEF PollLast, Updated, ntp, clock
  <2>3. ~held' /\ flight' = {} /\ mailbox' = <<>>
    BY <2>1 DEF Found, SyncInv
  <2>4. lastUpdate # 0 => epoch - lastUpdate - boot \in 1 .. Polls
    BY <2>1 DEF SyncInv
  <2>5. (tAdj => rtc \in 1 .. Polls)' /\ lastRead'.at <= time'
        /\ (lastRead.synced => tAdj /\ lastRead.at < lastTime)'
    BY <1>0, <2>1, <2>2 DEF SyncInv
  <2> QED BY <2>2, <2>3, <2>4, <2>5 DEF SyncInv
<1>6. CASE Arrive
  <2>1. PICK q \in flight, stamp \in Start .. time :
          /\ q <= stamp /\ flight' = flight \ {q}
          /\ mailbox' = IF Room THEN Append(mailbox, stamp) ELSE mailbox
    BY <1>6 DEF Arrive
  <2>2. UNCHANGED <<pc, time, boot, polls, epoch, lastUpdate, held, rtc, tAdj, now,
                    lastTime, lastRead, late>>
    BY <1>6 DEF Arrive, ntp, clock, hist
  <2>3. pc = "wait" /\ q = time - polls /\ flight' = {} /\ mailbox = <<>>
    BY <2>1, <2>2 DEF SyncInv, OwnAnswer
  <2>4. Len(mailbox') = 1 /\ mailbox'[1] = stamp
    BY <2>1, <2>3 DEF Room
  <2>5. stamp \in (time - polls) .. time
    BY <1>0, <2>1, <2>3
  <2> QED BY <2>2, <2>3, <2>4, <2>5 DEF SyncInv, OwnAnswer
<1>7. CASE Adjust
  <2>1. /\ pc = "adjust" /\ pc' = "clock" /\ tAdj'
        /\ UNCHANGED <<time, boot, polls, epoch, lastUpdate, net, now, lastRead, late>>
    BY <1>7 DEF Adjust, ntp
  <2>2. rtc' = EpochTime - time \/ (tAdj /\ rtc' = rtc)
    BY <1>7, Zenon DEF Adjust, FirstSync
  <2>3. EpochTime - time \in 1 .. Polls
    BY <1>0, <2>1 DEF EpochTime, Millis, SyncInv
  <2>4. rtc' \in 1 .. Polls
    BY <2>1, <2>2, <2>3 DEF SyncInv
  <2>5. tAdj => lastTime' = lastTime
    BY <1>7, Zenon DEF Adjust, FirstSync
  <2> QED BY <2>1, <2>4, <2>5 DEF SyncInv, net
<1>8. CASE ReadClock
  BY <1>0, <1>8 DEF ReadClock, NotAfter, ntp, net, hist, SyncInv
<1>9. CASE NotDue \/ ReadFails
  BY <1>9 DEF NotDue, ReadFails, ntp, net, clock, hist, SyncInv
<1>10. CASE ReadOk
  BY <1>0, <1>10 DEF ReadOk, ntp, net, SyncInv
<1>11. CASE Rest
  <2>1. PICK d \in 1 .. MaxPass : time' = time + d
    BY <1>11 DEF Rest
  <2> QED BY <1>0, <1>11, <2>1 DEF Rest, ntp, net, clock, hist, SyncInv
<1>12. CASE Reset
  <2>1. flight' = {} /\ mailbox' = <<>> /\ ~held' /\ pc' = "update"
    BY <1>12 DEF Reset
  <2>2. lastUpdate' = 0 /\ ~tAdj' /\ lastRead' = NoRead /\ time' = time
    BY <1>12 DEF Reset
  <2>3. lastRead'.at <= time' /\ ~lastRead'.synced
    BY <1>0, <2>2 DEF NoRead
  <2> QED BY <2>1, <2>2, <2>3 DEF SyncInv
<1>13. CASE UNCHANGED vars
  BY <1>13 DEF vars, ntp, net, clock, hist, SyncInv, OwnAnswer
<1> QED
  BY <1>1, <1>2, <1>3, <1>4, <1>5, <1>6, <1>7, <1>8, <1>9, <1>10, <1>11, <1>12, <1>13
  DEF Next

LEMMA SyncInvariant == Spec => [](TypeOK /\ SyncInv)
  BY SyncInit, SyncStep, ClockTyped, PTL DEF Spec

\* As long as every answer came before forceUpdate gave its request up, the chip
\* clock that loop() sets is behind by nothing and ahead by the polls at most.
THEOREM ClockSynced == Spec => []SyncedWithin
<1>1. SyncInv => SyncedWithin
  BY DEF SyncInv, SyncedWithin
<1> QED BY <1>1, SyncInvariant, PTL

\* Under such a clock loop() takes two readings an interval apart, less the
\* polls by which the two clock settings can differ.
THEOREM ReadingsApart == Spec => ReadingsSpaced
<1> DEFINE A == ReadOk /\ lastRead.synced /\ ~late =>
                  time - lastRead.at >= Interval - Polls + 1
<1>1. TypeOK /\ SyncInv => A
  BY ClockAssumption DEF ClockAssumption, TypeOK, SyncInv, ReadOk, Due
<1>2. Spec => [][A]_vars
  BY <1>1, SyncInvariant, PTL DEF Spec
<1> QED BY <1>2 DEF ReadingsSpaced

=============================================================================
