------------------------------ MODULE LoopClock ------------------------------
(***************************************************************************)
(* The clock of the logger: NTPClient.cpp over one UDP socket, the chip    *)
(* clock it sets, and the test in loop() that decides when a reading is    *)
(* due.  Time is counted in polls of the NTP client.                       *)
(*                                                                         *)
(* A request is sent and its answer polled for.  An answer that comes too  *)
(* late stays queued at the socket, and the next request takes it for its  *)
(* own.  An answer that is found at the last poll is taken from the socket *)
(* and not read: it stays in the socket's one buffer, and while it is      *)
(* there parsePacket() finds nothing.                                      *)
(***************************************************************************)
EXTENDS Integers, Sequences

CONSTANTS Polls,          \* polls that may succeed before the last one
          UpdateInterval, \* time between NTP updates
          RtcInterval,    \* time between settings of the chip clock
          Interval,       \* sd.cfgG.interval
          Mailbox,        \* datagrams the socket can queue
          Start,          \* the true time of the first boot
          Valid,          \* the first clock reading that counts as set
          BootTime,       \* millis() when the NTP client is first asked
          Offsets,        \* errors of the chip clock at the first boot
          MaxPass,        \* bound: the longest rest of a pass
          MaxTime,        \* bound: the end of time
          MaxResets       \* bound: resets of the logger

ASSUME ClockAssumption ==
  /\ Polls \in Nat \ {0} /\ UpdateInterval \in Nat /\ RtcInterval \in Nat
  /\ Interval \in Nat /\ Mailbox \in Nat \ {0}
  /\ Start \in Nat /\ Valid \in Nat
  /\ BootTime \in Nat /\ 1 < BootTime /\ BootTime <= Start
  /\ Offsets \subseteq Int
  /\ \A o \in Offsets : Interval <= Start + o \* the chip counts from the year 2000
  /\ Interval <= Start
  /\ MaxPass \in Nat \ {0} /\ MaxResets \in Nat
  /\ MaxTime \in Nat /\ Start <= MaxTime

VARIABLES
  pc,            \* "update", "wait", "adjust", "clock", "read" or "rest"
  booting,       \* TRUE in setup()
  time, boot,    \* the true time, and the time at which millis() was 0
  polls,         \* empty polls of the request under way
  flight,        \* the times of requests that are going to be answered
  mailbox,       \* times stamped on the answers queued at the socket
  held,          \* an answer is in the socket's buffer and not read
  epoch, lastUpdate,        \* _currentEpoc and _lastUpdate
  rtc,           \* the chip clock, as its error
  tAdj, lastUpdateRTC, now, lastTime,
  lastRead,      \* the true time and tAdj of the last reading of this run
  setback,       \* the true time at which the chip clock was last set back
  late,          \* an answer came, or may still come, after its request was given up
  resets

ntp   == <<polls, epoch, lastUpdate>>
net   == <<flight, mailbox, held>>
clock == <<rtc, tAdj, lastUpdateRTC, now, lastTime>>
hist  == <<lastRead, setback, late>>
vars  == <<pc, booting, time, boot, ntp, net, clock, hist, resets>>

Millis == time - boot

NoRead == [at |-> 0, synced |-> FALSE]

Init ==
  /\ pc = "update" /\ booting = TRUE
  /\ time = Start /\ boot = Start - BootTime
  /\ polls = 0 /\ epoch = 0 /\ lastUpdate = 0
  /\ flight = {} /\ mailbox = <<>> /\ held = FALSE
  /\ rtc \in Offsets /\ tAdj = FALSE /\ lastUpdateRTC = 0
  /\ now = time + rtc /\ lastTime = 0
  /\ lastRead = NoRead /\ setback = 0 /\ late = FALSE
  /\ resets = 0

-----------------------------------------------------------------------------
(* NTPClient                                                                *)

UpdateDue == Millis - lastUpdate >= UpdateInterval \/ lastUpdate = 0

\* setup() asks until it is answered or the chip clock counts as set; loop()
\* goes on in either case.
Updated(ok) ==
  IF booting
  THEN pc' = "update" /\ booting' = ~(ok \/ now >= Valid)
  ELSE pc' = (IF ok THEN "adjust" ELSE "clock") /\ UNCHANGED booting

UpToDate ==
  /\ pc = "update" /\ ~UpdateDue
  /\ Updated(TRUE)
  /\ UNCHANGED <<time, boot, ntp, net, clock, hist, resets>>

\* sendNTPPacket(): whatever is queued at the socket stays there.  The request
\* or its answer may be lost.
Send ==
  /\ pc = "update" /\ UpdateDue
  /\ flight' \in {flight, flight \union {time}}
  /\ polls' = 0
  /\ pc' = "wait"
  /\ UNCHANGED <<booting, time, boot, epoch, lastUpdate, mailbox, held, clock, hist, resets>>

\* parsePacket(): nothing comes out while the buffer holds an answer.
Found == ~held /\ mailbox # <<>>

\* A fault the runs must notice: the time spent polling is forgotten.
RequestedAtPoll == Millis + 1

\* The time of the request, as the number of polls tells it: one unit early.
RequestedAt == (Millis + 1) - (polls + 2)

PollFinds ==
  /\ pc = "wait" /\ time < MaxTime
  /\ Found /\ polls < Polls
  /\ time' = time + 1
  /\ epoch' = Head(mailbox) /\ mailbox' = Tail(mailbox)
  /\ lastUpdate' = RequestedAt
  /\ Updated(TRUE)
  /\ UNCHANGED <<boot, polls, flight, held, clock, hist, resets>>

PollEmpty ==
  /\ pc = "wait" /\ time < MaxTime
  /\ ~Found /\ polls < Polls
  /\ time' = time + 1
  /\ polls' = polls + 1
  /\ UNCHANGED <<pc, booting, boot, epoch, lastUpdate, net, clock, hist, resets>>

\* The last poll takes an answer as the others do, and then gives up.
PollLast ==
  /\ pc = "wait" /\ time < MaxTime
  /\ polls = Polls
  /\ time' = time + 1
  /\ IF Found THEN held' = TRUE /\ mailbox' = Tail(mailbox)
     ELSE UNCHANGED <<held, mailbox>>
  /\ late' = (late \/ Found \/ flight # {})
  /\ Updated(FALSE)
  /\ UNCHANGED <<boot, ntp, flight, clock, lastRead, setback, resets>>

\* A fault the runs must notice: a queue without a limit.
RoomAlways == TRUE

Room == Len(mailbox) < Mailbox

\* An answer to the request q, stamped when it passed the server.  A full
\* queue drops it.
Arrive ==
  /\ \E q \in flight, stamp \in Start .. time :
       /\ q <= stamp
       /\ flight' = flight \ {q}
       /\ mailbox' = IF Room THEN Append(mailbox, stamp) ELSE mailbox
  /\ UNCHANGED <<pc, booting, time, boot, ntp, held, clock, hist, resets>>

\* A fault the runs must notice: all the time since the boot is added.
EpochTimeSinceBoot == epoch + Millis

\* getEpochTime()
EpochTime == epoch + (Millis - lastUpdate)

-----------------------------------------------------------------------------
(* loop()                                                                   *)

\* A fault the runs must notice: every sync counts as the first.
FirstSyncEach == Millis - lastUpdateRTC >= RtcInterval

FirstSync == ~tAdj

Periodic == Millis - (IF FirstSync THEN Millis ELSE lastUpdateRTC) >= RtcInterval

\* The chip clock is set at the first sync, and again from time to time.
Adjust ==
  /\ pc = "adjust" /\ pc' = "clock"
  /\ IF FirstSync \/ Periodic
     THEN /\ rtc' = EpochTime - time
          /\ lastUpdateRTC' = Millis
          /\ setback' = IF rtc' < rtc THEN time ELSE setback
     ELSE UNCHANGED <<rtc, lastUpdateRTC, setback>>
  /\ tAdj' = TRUE
  /\ lastTime' = IF FirstSync THEN 0 ELSE lastTime
  /\ UNCHANGED <<booting, time, boot, ntp, net, now, lastRead, late, resets>>

\* A fault the runs must notice: a reading from the future stays there.
NotAfterAny(t, limit) == t

NotAfter(t, limit) == IF t > limit THEN limit ELSE t

\* rtc.now() is taken as linear in time: it shows what the chip was set to and the
\* time since.  The jumps that the unmasked leap-year bit puts on it are ClockChip's.
ReadClock ==
  /\ pc = "clock" /\ pc' = "read"
  /\ now' = time + rtc
  /\ lastTime' = NotAfter(lastTime, now')
  /\ UNCHANGED <<booting, time, boot, ntp, net, rtc, tAdj, lastUpdateRTC, hist, resets>>

Due == now - lastTime >= Interval

NotDue ==
  /\ pc = "read" /\ ~Due /\ pc' = "rest"
  /\ UNCHANGED <<booting, time, boot, ntp, net, clock, hist, resets>>

ReadOk ==
  /\ pc = "read" /\ Due /\ pc' = "rest"
  /\ lastTime' = now
  /\ lastRead' = [at |-> time, synced |-> tAdj]
  /\ UNCHANGED <<booting, time, boot, ntp, net, rtc, tAdj, lastUpdateRTC, now, setback, late, resets>>

ReadFails ==
  /\ pc = "read" /\ Due /\ pc' = "rest"
  /\ UNCHANGED <<booting, time, boot, ntp, net, clock, hist, resets>>

\* The rest of the pass: posting and asking the server.
Rest ==
  /\ pc = "rest" /\ pc' = "update"
  /\ \E d \in 1 .. MaxPass : time' = time + d
  /\ time' <= MaxTime
  /\ UNCHANGED <<booting, boot, ntp, net, clock, hist, resets>>

\* RAM and the socket are lost; the chip clock is not.  Answers under way are
\* dropped if they come before the socket is open again.
Reset ==
  /\ resets < MaxResets /\ resets' = resets + 1
  /\ pc' = "update" /\ booting' = TRUE
  /\ boot' = time - BootTime
  /\ polls' = 0 /\ epoch' = 0 /\ lastUpdate' = 0
  /\ mailbox' = <<>> /\ held' = FALSE
  /\ tAdj' = FALSE /\ lastUpdateRTC' = 0
  /\ now' = time + rtc /\ lastTime' = 0
  /\ lastRead' = NoRead
  /\ flight' \in SUBSET flight
  /\ late' = (late \/ flight' # {})
  /\ UNCHANGED <<time, rtc, setback>>

Next == UpToDate \/ Send \/ PollFinds \/ PollEmpty \/ PollLast \/ Arrive
          \/ Adjust \/ ReadClock \/ NotDue \/ ReadOk \/ ReadFails \/ Rest \/ Reset

Spec == Init /\ [][Next]_vars

-----------------------------------------------------------------------------

\* The type of the state.
TypeOK ==
  /\ pc \in {"update", "wait", "adjust", "clock", "read", "rest"}
  /\ booting \in BOOLEAN /\ held \in BOOLEAN /\ tAdj \in BOOLEAN
  /\ time \in Start .. MaxTime /\ boot \in 0 .. MaxTime
  /\ polls \in 0 .. Polls
  /\ flight \subseteq Start .. MaxTime
  /\ mailbox \in Seq(Start .. MaxTime) /\ Len(mailbox) <= Mailbox
  /\ epoch \in Nat /\ lastUpdate \in Nat /\ lastUpdateRTC \in Nat
  /\ rtc \in Int /\ now \in Int /\ lastTime \in Int
  /\ lastRead \in [at : Nat, synced : BOOLEAN] /\ setback \in Nat
  /\ late \in BOOLEAN
  /\ resets \in 0 .. MaxResets

\* Whatever answers are late, lost or taken for others, the chip clock never
\* runs ahead by more than the wait for one answer once it has been set.
NeverAhead == tAdj => rtc <= Polls

\* As long as no answer has been late the chip clock is right up to the wait
\* for one.
SyncedWithin == tAdj /\ ~late => rtc \in 1 .. Polls

\* As long as no answer has been late, two readings under a set clock are an
\* interval apart, up to the wait for an answer, however passes, updates and failed
\* readings fall.  A restart and the first sync read at once.
ReadingsSpaced ==
  [][ReadOk /\ lastRead.synced /\ ~late => time - lastRead.at >= Interval - Polls + 1]_vars

\* However wrong the clock is and however it is corrected, a reading is due
\* at the latest one interval after the last one, or after the clock was last
\* set back.
ReadingNotDelayed ==
  pc = "read" /\ time - lastRead.at >= Interval /\ time - setback >= Interval => Due

\* The comment in forceUpdate: it waits till data is there or timeout.  So a
\* request does not time out on an answer it has taken.
TimeoutMeansNoData == ~held

=============================================================================
