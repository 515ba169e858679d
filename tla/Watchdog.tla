------------------------------- MODULE Watchdog -------------------------------
(***************************************************************************)
(* The two watchdogs of the logger and the blocking calls between their    *)
(* feedings.  The hardware watchdog (HardwareWDT.cpp) is switched off      *)
(* around calls that wait for the network.  The task watchdog of the ESP32 *)
(* is never switched off once it has been fed: requests of a posting round *)
(* add up against it.                                                      *)
(*                                                                         *)
(* A state is a blocking operation under way, named by pc.  Time passes in *)
(* it until it returns; the code between two operations takes no time.     *)
(***************************************************************************)
EXTENDS Integers

CONSTANTS TaskTimeout,  \* CONFIG_TASK_WDT_TIMEOUT_S
          DogTimeout,   \* the hardware watchdog's
          Longest,      \* the longest time each operation takes, if it returns
          Meters,       \* sd.cfgG.numMeter, 1 for a flow meter, 0 for sensors
          Batch,        \* sd.cfgG.batch
          MAXPOST,      \* requests in a round of single posts
          MaxBacklog,   \* bound: records that wait
          MaxHangs      \* bound: operations that never return

Larger(a, b) == IF a > b THEN a ELSE b

Operations == {"init", "ntp", "meter", "store", "wifi", "request", "answer", "delay"}

ASSUME TimingAssumption ==
  /\ TaskTimeout \in Nat /\ DogTimeout \in Nat
  /\ Longest \in [Operations -> Nat]
  /\ Meters \in Nat /\ Batch \in Nat /\ MAXPOST \in Nat \ {0}
  /\ MaxBacklog \in Nat /\ MaxHangs \in Nat

VARIABLES
  pc,      \* the operation under way, or "top", "gate", "check" between them
  spent,   \* time it has taken
  stuck,   \* it never returns
  on,      \* the hardware watchdog is enabled
  dog,     \* time since it was kicked, as long as it is enabled
  watched, \* the task watchdog has been fed since the reset
  task,    \* time since then
  meter,   \* the meter that is read
  left,    \* requests left in the round
  backlog, \* wIndex - rIndex
  hangs

dogs   == <<on, dog, watched, task>>
record == <<meter, left, backlog>>
vars   == <<pc, spent, stuck, dogs, record, hangs>>

\* The operation of each place in the code that waits.
At == [init |-> "init", connect |-> "wifi", pause |-> "delay",
       sync |-> "ntp", retry |-> "wifi",
       ntp |-> "ntp", meter |-> "meter", store |-> "store",
       wifi |-> "wifi", post |-> "request", answer |-> "answer",
       chkwifi |-> "wifi", get |-> "request", reply |-> "answer",
       logwifi |-> "wifi", log |-> "request", logged |-> "answer",
       restart |-> "delay"]

Waiting == pc \notin {"top", "gate", "check"}

Places == {"init", "connect", "pause", "sync", "retry", "ntp", "meter", "store", "wifi",
           "post", "answer", "chkwifi", "get", "reply", "logwifi", "log", "logged", "restart",
           "top", "gate", "check"}

\* Calls of the network, and the pause for it, with the hardware watchdog off.
Unguarded == {"connect", "pause", "retry", "wifi", "post", "chkwifi", "get", "logwifi", "log"}

Init ==
  /\ pc = "init" /\ spent = 0 /\ stuck = FALSE
  /\ on = TRUE /\ dog = 0 /\ watched = TRUE /\ task = 0
  /\ meter = 0 /\ left = 0 /\ backlog \in 0 .. MaxBacklog
  /\ hangs = 0

-----------------------------------------------------------------------------
(* Time, and the end of it                                                  *)

DogExpired  == on /\ dog >= DogTimeout
TaskExpired == watched /\ task >= TaskTimeout
Expired     == DogExpired \/ TaskExpired

\* An operation takes its time; one that is stuck takes any.
Tick ==
  /\ Waiting /\ ~Expired
  /\ stuck \/ spent < Longest[At[pc]]
  /\ spent' = IF stuck THEN spent ELSE spent + 1
  /\ dog' = IF on THEN dog + 1 ELSE dog
  /\ task' = IF watched THEN task + 1 ELSE task
  /\ UNCHANGED <<pc, stuck, on, watched, record, hangs>>

Hang ==
  /\ Waiting /\ ~stuck
  /\ hangs < MaxHangs /\ hangs' = hangs + 1
  /\ stuck' = TRUE
  /\ UNCHANGED <<pc, spent, dogs, record>>

\* A fault the runs must notice: setup() does not feed the task watchdog, which
\* therefore does not watch the task yet.
StartUnfed ==
  /\ pc' = "init" /\ spent' = 0 /\ stuck' = FALSE
  /\ on' = TRUE /\ dog' = 0
  /\ watched' = FALSE /\ task' = 0
  /\ meter' = 0 /\ left' = 0

\* setup() feeds the task watchdog, switches the hardware watchdog on and kicks it.
Start ==
  /\ pc' = "init" /\ spent' = 0 /\ stuck' = FALSE
  /\ on' = TRUE /\ dog' = 0
  /\ watched' = TRUE /\ task' = 0
  /\ meter' = 0 /\ left' = 0

\* A watchdog that has not been fed in time resets the logger.
Bite == Expired /\ Start /\ UNCHANGED <<backlog, hangs>>

-----------------------------------------------------------------------------
(* What stands between the operations                                       *)

Returns(p) == pc = p /\ ~stuck /\ ~Expired

\* The next operation begins.
Go(p) == pc' = p /\ spent' = 0 /\ UNCHANGED <<stuck, hangs>>

Fed == dog' = 0 /\ task' = 0 /\ watched' = TRUE

\* disable() before a call, enable() after it.
Off == on' = FALSE /\ UNCHANGED <<dog, watched, task>>
On  == on' = TRUE /\ UNCHANGED <<dog, watched, task>>

\* Without a flash chip the logger restarts.
Initialised ==
  /\ Returns("init")
  /\ \/ Go("connect") /\ Off
     \/ Go("restart") /\ UNCHANGED dogs
  /\ UNCHANGED record

Connected == /\ Returns("connect") /\ Go("pause")
             /\ on' = FALSE /\ dog' = 0 /\ UNCHANGED <<watched, task, record>>

Paused == Returns("pause") /\ Go("sync") /\ On /\ UNCHANGED record

\* The time is known, or it is asked for again.  Only the task watchdog is fed
\* while there is no time.
Synced ==
  /\ Returns("sync")
  /\ \/ Go("top") /\ Fed /\ UNCHANGED on
     \/ Go("retry") /\ on' = FALSE /\ task' = 0 /\ UNCHANGED <<dog, watched>>
  /\ UNCHANGED record

Retried == Returns("retry") /\ Go("sync") /\ On /\ UNCHANGED record

Top == Returns("top") /\ Go("ntp") /\ Fed /\ UNCHANGED <<on, record>>

\* The clock is known: a reading is due or it is not.
Updated ==
  /\ Returns("ntp")
  /\ \/ Go("gate")
     \/ Go(IF Meters > 0 THEN "meter" ELSE "store")
  /\ Fed /\ meter' = 1 /\ UNCHANGED <<on, left, backlog>>

MeterRead ==
  /\ Returns("meter")
  /\ Go(IF meter < Meters THEN "meter" ELSE "store")
  /\ Fed /\ meter' = meter + 1
  /\ UNCHANGED <<on, left, backlog>>

\* The rest of the meters is not read, and nothing is stored.
MeterFails == Returns("meter") /\ Go("gate") /\ UNCHANGED <<dogs, record>>

\* The records of a reading are added, or none: the write may fail.
Stored ==
  /\ Returns("store") /\ Go("gate")
  /\ backlog' \in backlog .. MaxBacklog
  /\ UNCHANGED <<dogs, meter, left>>

\* Posting, when it is not too near to the next reading.
Gate ==
  /\ Returns("gate")
  /\ \/ Go("wifi") /\ on' = FALSE
     \/ Go("check") /\ UNCHANGED on
  /\ Fed /\ UNCHANGED record

\* A fault the runs must notice: a round of any length.
RoundUncapped == backlog

Capped(n) == IF backlog > n THEN n ELSE backlog

\* Requests of the round: one for a batch, else one per record.
Round == IF Batch # 0 THEN 1 ELSE Capped(MAXPOST)

\* Records of the round.
Carried == IF Batch # 0 THEN Capped(Batch) ELSE Capped(MAXPOST)

WifiUp ==
  /\ Returns("wifi")
  /\ IF backlog > 0
     THEN Go("post") /\ Off /\ left' = Round
     ELSE Go("check") /\ On /\ UNCHANGED left
  /\ UNCHANGED <<meter, backlog>>

\* A fault the runs must notice: enable() is missing where there is no network.
WifiDownOff ==
  /\ Returns("wifi") /\ Go("check")
  /\ on' = FALSE /\ dog' \in {0, dog} /\ UNCHANGED <<watched, task, record>>

\* No network.  Every five seconds the hardware watchdog is kicked as well.
WifiDown ==
  /\ Returns("wifi") /\ Go("check")
  /\ on' = TRUE /\ dog' \in {0, dog} /\ UNCHANGED <<watched, task, record>>

Posted == Returns("post") /\ Go("answer") /\ On /\ UNCHANGED record

\* The answer's text is read with the watchdog on.  After the last request of
\* the round rIndex is saved.
Accepted ==
  /\ Returns("answer")
  /\ left' = left - 1
  /\ IF left > 1
     THEN Go("post") /\ Off /\ UNCHANGED backlog
     ELSE Go("check") /\ UNCHANGED dogs /\ backlog' = backlog - Carried
  /\ UNCHANGED meter

Refused == Returns("answer") /\ Go("check") /\ UNCHANGED <<dogs, record>>

\* A fault the runs must notice: the task watchdog is not fed after the posts.
CheckUnfed ==
  /\ Returns("check")
  /\ \/ Go("top") /\ UNCHANGED on
     \/ Go("chkwifi") /\ on' = FALSE
     \/ Go("restart") /\ UNCHANGED on
  /\ dog' = 0 /\ UNCHANGED <<watched, task, record>>

\* The server is asked now and then, and told the error log.
Check ==
  /\ Returns("check")
  /\ \/ Go("top") /\ UNCHANGED on
     \/ Go("chkwifi") /\ on' = FALSE
     \/ Go("restart") /\ UNCHANGED on
  /\ Fed /\ UNCHANGED record

\* What follows the check of the server: the daily restart, or the next pass.
Rest == Go("top") \/ Go("restart")

CheckWifi ==
  /\ Returns("chkwifi")
  /\ \/ Go("get") /\ Off
     \/ Rest /\ On
  /\ UNCHANGED record

Got == Returns("get") /\ On /\ (Go("reply") \/ Rest) /\ UNCHANGED record

\* A restart may be ordered, with the backlog forgotten or not.
Replied ==
  /\ Returns("reply")
  /\ \/ Go("restart") /\ backlog' \in {0, backlog} /\ UNCHANGED on
     \/ Go("logwifi") /\ on' = FALSE /\ UNCHANGED backlog
  /\ UNCHANGED <<dog, watched, task, meter, left>>

LogWifi ==
  /\ Returns("logwifi")
  /\ \/ Go("log") /\ Off
     \/ Rest /\ On
  /\ UNCHANGED record

Logged == Returns("log") /\ Go("logged") /\ On /\ UNCHANGED record

LogDone == Returns("logged") /\ Rest /\ UNCHANGED <<dogs, record>>

Restarted == Returns("restart") /\ Start /\ UNCHANGED <<backlog, hangs>>

-----------------------------------------------------------------------------

Setup == Initialised \/ Connected \/ Paused \/ Synced \/ Retried

Loop == Top \/ Updated \/ MeterRead \/ MeterFails \/ Stored \/ Gate
          \/ WifiUp \/ WifiDown \/ Posted \/ Accepted \/ Refused

Server == Check \/ CheckWifi \/ Got \/ Replied \/ LogWifi \/ Logged \/ LogDone \/ Restarted

Next == Tick \/ Hang \/ Bite \/ Setup \/ Loop \/ Server

Spec == Init /\ [][Next]_vars

\* Time passes, and what has expired bites.
FairSpec == Spec /\ WF_vars(Tick) /\ WF_vars(Bite)

-----------------------------------------------------------------------------

\* The type of the state.
TypeOK ==
  /\ pc \in Places
  /\ spent \in Nat /\ stuck \in BOOLEAN
  /\ on \in BOOLEAN /\ dog \in Nat /\ watched \in BOOLEAN /\ task \in Nat
  /\ meter \in Nat /\ left \in 0 .. MAXPOST
  /\ backlog \in 0 .. MaxBacklog /\ hangs \in 0 .. MaxHangs

InitTime    == Longest["init"]
WifiTime    == Longest["wifi"]
DelayTime   == Longest["delay"]
NtpTime     == Longest["ntp"]
RequestTime == Longest["request"]
AnswerTime  == Longest["answer"]

\* Requests of the round that have been answered, and the time of n of them.
Answered       == Round - left
CallsTime(n)   == n * (RequestTime + AnswerTime)
AnswersTime(n) == n * AnswerTime

\* The longest time the operations begun since the task watchdog was fed can have
\* taken, by the place in the code.
TaskSpan ==
  CASE pc \in {"top", "gate", "check"} -> 0
    [] pc = "connect" -> InitTime + WifiTime
    [] pc = "pause"   -> InitTime + WifiTime + DelayTime
    [] pc = "sync"    -> InitTime + WifiTime + DelayTime + NtpTime
    [] pc = "post"    -> WifiTime + CallsTime(Answered) + RequestTime
    [] pc = "answer"  -> WifiTime + CallsTime(Answered + 1)
    [] pc = "get"     -> WifiTime + RequestTime
    [] pc = "reply"   -> WifiTime + CallsTime(1)
    [] pc = "logwifi" -> 2 * WifiTime + CallsTime(1)
    [] pc = "log"     -> 2 * WifiTime + CallsTime(1) + RequestTime
    [] pc = "logged"  -> 2 * WifiTime + CallsTime(2)
    [] pc = "restart" -> Larger(InitTime, 2 * WifiTime + CallsTime(2)) + DelayTime
    [] OTHER          -> Longest[At[pc]]

\* The same for the hardware watchdog, while it is on: the calls of the network
\* do not count.
DogSpan ==
  CASE pc \in {"top", "gate", "check"} -> 0
    [] pc = "answer"  -> AnswersTime(Answered + 1)
    [] pc = "logged"  -> AnswersTime(2)
    [] pc = "restart" -> Larger(InitTime, AnswersTime(2)) + DelayTime
    [] OTHER          -> Longest[At[pc]]

\* A logger that works is reset by a watchdog only where the operations that the
\* code puts between two feedings can take as long as the timeout: those of one
\* round of posts with its wait for the network, of one check of the server with
\* its log, of one meter; nothing of an earlier pass, round or meter adds to them.
\* While setup() waits for the time nobody kicks the hardware watchdog.
HealthyNotBitten ==
  /\ TaskExpired => stuck \/ TaskSpan >= TaskTimeout
  /\ DogExpired => stuck \/ pc = "sync" \/ DogSpan >= DogTimeout

\* The hardware watchdog is off in calls of the network only: every path of
\* every task, with and without network, switches it on again.
GuardedOutsideCalls == ~on => pc \in Unguarded

\* An operation that never returns ends in a reset, in setup() too and also
\* where the hardware watchdog is off.
HangEnds == stuck ~> ~stuck

=============================================================================
