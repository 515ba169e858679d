---------------------------- MODULE WatchdogProof ----------------------------
(***************************************************************************)
(* The watchdogs and the status bits, for any times of the operations, any *)
(* timeouts and any number of meters, records, posts and hangs.            *)
(*                                                                         *)
(* Inductive invariants: GuardInv (the hardware watchdog is enabled        *)
(* exactly outside the calls of the network), StatusInv (the bits), Flags  *)
(* and Numbers (the types), and HealthInv, which bounds what the watchdogs *)
(* have counted at each place and needs GuardInv and Numbers.              *)
(***************************************************************************)
EXTENDS StatusLog, TLAPS

\* The inductive form of GuardedOutsideCalls.
GuardInv == on = (pc \notin Unguarded)

LEMMA GuardInit == Init => GuardInv
  BY DEF Init, GuardInv, Unguarded

LEMMA GuardStep == GuardInv /\ [Next]_vars => GuardInv'
<1> SUFFICES ASSUME GuardInv, [Next]_vars PROVE GuardInv'
  OBVIOUS
<1> USE DEF GuardInv, Unguarded, Returns, Go, Fed, On, Off, dogs
<1>1. CASE Tick \/ Hang
  BY <1>1 DEF Tick, Hang
<1>2. CASE Bite \/ Restarted
  BY <1>2 DEF Bite, Restarted, Start
<1>3. CASE Setup
  BY <1>3 DEF Setup, Initialised, Connected, Paused, Synced, Retried
<1>4. CASE Top \/ Updated \/ MeterRead \/ MeterFails \/ Stored \/ Gate
  BY <1>4 DEF Top, Updated, MeterRead, MeterFails, Stored, Gate
<1>5. CASE WifiUp \/ WifiDown \/ Posted \/ Accepted \/ Refused
  BY <1>5 DEF WifiUp, WifiDown, Posted, Accepted, Refused
<1>6. CASE Check \/ CheckWifi \/ Got \/ Replied \/ LogWifi \/ Logged \/ LogDone
  BY <1>6 DEF Check, CheckWifi, Got, Replied, LogWifi, Logged, LogDone, Rest
<1>7. CASE UNCHANGED vars
  BY <1>7 DEF vars
<1> QED
  BY <1>1, <1>2, <1>3, <1>4, <1>5, <1>6, <1>7 DEF Next, Loop, Server

\* Every path of setup(), loop() and its tasks, with network or without, ends a
\* window in which the hardware watchdog is disabled.
THEOREM GuardedAlways == Spec => []GuardedOutsideCalls
<1>1. GuardInv => GuardedOutsideCalls
  BY DEF GuardInv, GuardedOutsideCalls
<1> QED
  BY GuardInit, GuardStep, <1>1, PTL DEF Spec

-----------------------------------------------------------------------------

\* The bits between the answer to a check and the end of the report.
StatusInv ==
  /\ pc \in {"reply", "logwifi", "log", "logged"} => "server" \notin errlog
  /\ pc \notin {"init", "connect", "pause", "sync", "retry", "restart"} =>
       "restart" \in errlog \/ heard
  /\ missed => "sensor" \in errlog
  /\ missed /\ pc = "meter" => meter = 1

LEMMA StatusStart == StatusInit => StatusInv
  BY DEF StatusInit, Init, StatusInv

LEMMA StatusStep == StatusInv /\ [StatusNext]_allVars => StatusInv'
<1> SUFFICES ASSUME StatusInv, [StatusNext]_allVars PROVE StatusInv'
  OBVIOUS
<1> USE DEF StatusInv, Returns, Go, Raise, Lower
<1>1. CASE Reboot
  BY <1>1 DEF Reboot, Bite, Restarted, Start
<1>2. CASE Started
  BY <1>2 DEF Started, Synced, record
<1>3. CASE ReadsMeter
  BY <1>3 DEF ReadsMeter, MeterRead
<1>4. CASE MissesMeter
  BY <1>4 DEF MissesMeter, MeterFails
<1>5. CASE Stores
  BY <1>5 DEF Stores, Stored
<1>6. CASE Posts
  BY <1>6 DEF Posts, Accepted, Refused, record
<1>7. CASE Checks
  BY <1>7 DEF Checks, Got, Rest, record
<1>8. CASE Reports
  <2>1. pc = "logged" /\ pc' \in {"top", "restart"} /\ UNCHANGED meter
    BY <1>8 DEF Reports, LogDone, Rest, record
  <2>2. CASE errlog' = {} /\ missed' = FALSE /\ Receives
    <3>1. heard'
      BY <2>1, <2>2, Zenon DEF Receives
    <3> QED BY <2>1, <2>2, <3>1
  <2>3. CASE Raise("server") /\ UNCHANGED missed /\ (Receives \/ UNCHANGED heard)
    BY <2>1, <2>3 DEF Receives
  <2> QED BY <1>8, <2>2, <2>3 DEF Reports
<1>9. CASE Silent
  BY <1>9 DEF Silent, status, record, Tick, Hang, Initialised, Connected, Paused, Retried,
              Top, Updated, Gate, WifiUp, WifiDown, Posted, Check, CheckWifi,
              Replied, LogWifi, Logged, Rest
<1>10. CASE UNCHANGED allVars
  BY <1>10 DEF allVars, vars, status, record
<1> QED
  BY <1>1, <1>2, <1>3, <1>4, <1>5, <1>6, <1>7, <1>8, <1>9, <1>10 DEF StatusNext


\* No report names a server, although outages of the data server raise the bit.
THEOREM NoServerReported == StatusSpec => []ServerNeverAccused
<1>1. StatusInv => ServerNeverAccused
  BY DEF StatusInv, ServerNeverAccused, Reporting
<1> QED
  BY StatusStart, StatusStep, <1>1, PTL DEF StatusSpec

\* No meter hides the failure of another from the report.
THEOREM MeterReported == StatusSpec => []MissedMeterReported
<1>1. StatusInv => MissedMeterReported
  BY DEF StatusInv, MissedMeterReported
<1> QED
  BY StatusStart, StatusStep, <1>1, PTL DEF StatusSpec

\* A restart is told until the log server has heard of it.
THEOREM RestartTold == StatusSpec => []RestartHeard
<1>1. StatusInv => RestartHeard
  BY DEF StatusInv, RestartHeard
<1> QED
  BY StatusStart, StatusStep, <1>1, PTL DEF StatusSpec

-----------------------------------------------------------------------------

\* The parts of TypeOK, with the requests left while a round is under way.
Flags == /\ pc \in Places
         /\ stuck \in BOOLEAN /\ on \in BOOLEAN /\ watched \in BOOLEAN

Numbers ==
  /\ spent \in Nat /\ dog \in Nat /\ task \in Nat
  /\ meter \in Nat /\ left \in 0 .. MAXPOST
  /\ backlog \in 0 .. MaxBacklog /\ hangs \in 0 .. MaxHangs
  /\ pc \in {"post", "answer"} => left \in 1 .. Round

LEMMA RoundInRange ==
  ASSUME backlog \in Nat, backlog > 0
  PROVE  Round \in 1 .. MAXPOST
  BY TimingAssumption DEF TimingAssumption, Round, Capped

LEMMA CarriedInRange ==
  ASSUME backlog \in Nat
  PROVE  Carried \in 0 .. backlog
  BY TimingAssumption DEF TimingAssumption, Carried, Capped

LEMMA BoundsTyped ==
  /\ MAXPOST \in Nat \ {0} /\ MaxBacklog \in Nat /\ MaxHangs \in Nat
  BY TimingAssumption DEF TimingAssumption

LEMMA NumbersInit == Init => Numbers
  BY BoundsTyped DEF Init, Numbers

LEMMA FlagsInit == Init => Flags
  BY DEF Init, Flags, Places

LEMMA NumbersStep == Numbers /\ [Next]_vars => Numbers'
<1> SUFFICES ASSUME Numbers, [Next]_vars PROVE Numbers'
  OBVIOUS
<1> USE BoundsTyped DEF Numbers, Returns, Go, Fed, On, Off, dogs, record
<1>0. backlog' = backlog => Round' = Round
  BY DEF Round, Capped
<1>1. CASE Tick \/ Hang
  BY <1>0, <1>1 DEF Tick, Hang
<1>2. CASE Bite \/ Restarted
  BY <1>0, <1>2 DEF Bite, Restarted, Start
<1>3. CASE Setup
  BY <1>0, <1>3 DEF Setup, Initialised, Connected, Paused, Synced, Retried
<1>4. CASE Top \/ Updated \/ MeterRead \/ MeterFails \/ Stored \/ Gate
  BY <1>0, <1>4 DEF Top, Updated, MeterRead, MeterFails, Stored, Gate
<1>5. CASE WifiUp
  BY <1>0, <1>5, RoundInRange DEF WifiUp
<1>6. CASE WifiDown \/ Posted \/ Refused
  BY <1>0, <1>6 DEF WifiDown, Posted, Refused
<1>7. CASE Accepted
  <2>1. CASE left > 1
    <3>1. /\ pc = "answer" /\ pc' = "post" /\ spent' = 0 /\ left' = left - 1
          /\ UNCHANGED <<dog, task, meter, backlog, hangs>>
      BY <1>7, <2>1 DEF Accepted
    <3>2. Round \in Int
      BY DEF Round, Capped
    <3> QED BY <1>0, <2>1, <3>1, <3>2
  <2>2. CASE ~(left > 1)
    <3>1. pc' = "check" /\ left' = left - 1 /\ backlog' = backlog - Carried
      BY <1>7, <2>2 DEF Accepted
    <3>2. pc = "answer" /\ spent' = 0 /\ UNCHANGED <<dog, task, meter, hangs>>
      BY <1>7, <2>2 DEF Accepted
    <3> QED BY <3>1, <3>2, CarriedInRange
  <2> QED BY <2>1, <2>2
<1>8. CASE Check \/ CheckWifi \/ Got \/ Replied \/ LogWifi \/ Logged \/ LogDone
  BY <1>0, <1>8 DEF Check, CheckWifi, Got, Replied, LogWifi, Logged, LogDone, Rest
<1>9. CASE UNCHANGED vars
  BY <1>0, <1>9 DEF vars
<1> QED
  BY <1>1, <1>2, <1>3, <1>4, <1>5, <1>6, <1>7, <1>8, <1>9 DEF Next, Loop, Server

LEMMA FlagsStep == Flags /\ [Next]_vars => Flags'
<1> SUFFICES ASSUME Flags, [Next]_vars PROVE Flags'
  OBVIOUS
<1> USE DEF Flags, Places, Returns, Go, Fed, On, Off, dogs
<1>1. CASE Tick \/ Hang
  BY <1>1 DEF Tick, Hang
<1>2. CASE Bite \/ Restarted
  BY <1>2 DEF Bite, Restarted, Start
<1>3. CASE Setup
  BY <1>3 DEF Setup, Initialised, Connected, Paused, Synced, Retried
<1>4. CASE Top \/ Updated \/ MeterRead \/ MeterFails \/ Stored \/ Gate
  BY <1>4 DEF Top, Updated, MeterRead, MeterFails, Stored, Gate
<1>5. CASE WifiUp
  BY <1>5 DEF WifiUp
<1>6. CASE WifiDown \/ Posted \/ Refused
  BY <1>6 DEF WifiDown, Posted, Refused
<1>7. CASE Accepted
  BY <1>7 DEF Accepted
<1>8. CASE Check \/ CheckWifi \/ Got \/ Replied \/ LogWifi \/ Logged \/ LogDone
  BY <1>8 DEF Check, CheckWifi, Got, Replied, LogWifi, Logged, LogDone, Rest
<1>9. CASE UNCHANGED vars
  BY <1>9 DEF vars
<1> QED
  BY <1>1, <1>2, <1>3, <1>4, <1>5, <1>6, <1>7, <1>8, <1>9 DEF Next, Loop, Server

\* Every reachable state is well typed; rounds end and records do not go
\* below none.
THEOREM WatchdogTyped == Spec => []TypeOK
<1>1. Flags /\ Numbers => TypeOK
  BY DEF Flags, Numbers, TypeOK
<1> QED
  BY NumbersInit, NumbersStep, FlagsInit, FlagsStep, <1>1, PTL DEF Spec

-----------------------------------------------------------------------------

MeterTime == Longest["meter"]
StoreTime == Longest["store"]
CallTime  == RequestTime + AnswerTime

LEMMA Multiple ==
  ASSUME NEW n \in Nat, NEW c \in Nat
  PROVE  n * c \in Nat /\ (n + 1) * c = n * c + c
  OBVIOUS

LEMMA TimesTyped ==
  /\ InitTime \in Nat /\ WifiTime \in Nat /\ DelayTime \in Nat /\ NtpTime \in Nat
  /\ MeterTime \in Nat /\ StoreTime \in Nat /\ RequestTime \in Nat /\ AnswerTime \in Nat
  /\ CallTime \in Nat /\ CallTime = RequestTime + AnswerTime
  /\ TaskTimeout \in Nat /\ DogTimeout \in Nat
  BY TimingAssumption
  DEF TimingAssumption, Operations, InitTime, WifiTime, DelayTime, NtpTime, MeterTime,
      StoreTime, RequestTime, AnswerTime, CallTime

LEMMA RoundTimes ==
  ASSUME NEW n \in Nat
  PROVE  /\ CallsTime(n) \in Nat /\ CallsTime(n + 1) = CallsTime(n) + CallTime
         /\ AnswersTime(n) \in Nat /\ AnswersTime(n + 1) = AnswersTime(n) + AnswerTime
  BY TimesTyped, Multiple DEF CallsTime, AnswersTime, CallTime

LEMMA FewTimes ==
  /\ CallsTime(0) = 0 /\ CallsTime(1) = CallTime /\ CallsTime(2) = 2 * CallTime
  /\ AnswersTime(0) = 0 /\ AnswersTime(2) = 2 * AnswerTime
  BY TimesTyped DEF CallsTime, AnswersTime, CallTime

\* How far the watchdogs have counted at each place of a logger that works: at
\* most what the operations since the last feeding have taken.  In a round of
\* posts each request that was answered has added its time.
SetupHealth ==
  /\ pc = "init" => spent <= InitTime /\ task <= spent /\ dog <= spent
  /\ pc = "connect" => spent <= WifiTime /\ task <= spent + InitTime
  /\ pc = "pause" => spent <= DelayTime /\ task <= spent + InitTime + WifiTime
  /\ pc = "sync" => spent <= NtpTime /\ task <= spent + InitTime + WifiTime + DelayTime
  /\ pc = "retry" => spent <= WifiTime /\ task <= spent

PassHealth ==
  /\ pc \in {"top", "gate", "check"} => task = 0 \/ ~TaskExpired
  /\ pc \in {"top", "gate", "check"} => dog = 0 \/ ~DogExpired
  /\ pc = "ntp" => spent <= NtpTime /\ task <= spent /\ dog <= spent
  /\ pc = "meter" => spent <= MeterTime /\ task <= spent /\ dog <= spent
  /\ pc = "store" => spent <= StoreTime /\ task <= spent /\ dog <= spent

PostHealth ==
  /\ pc = "wifi" => spent <= WifiTime /\ task <= spent /\ dog = 0
  /\ pc = "post" => /\ spent <= RequestTime
                    /\ task <= spent + WifiTime + CallsTime(Answered)
                    /\ dog <= AnswersTime(Answered)
  /\ pc = "answer" => /\ spent <= AnswerTime
                      /\ task <= spent + RequestTime + WifiTime + CallsTime(Answered)
                      /\ dog <= spent + AnswersTime(Answered)

ServerHealth ==
  /\ pc = "chkwifi" => spent <= WifiTime /\ task <= spent /\ dog = 0
  /\ pc = "get" => spent <= RequestTime /\ task <= spent + WifiTime /\ dog = 0
  /\ pc = "reply" => /\ spent <= AnswerTime /\ dog <= spent
                     /\ task <= spent + WifiTime + RequestTime
  /\ pc \in {"logwifi", "log"} => dog <= AnswerTime /\ (dog = 0 \/ dog < DogTimeout)
  /\ pc = "logwifi" => /\ spent <= WifiTime
                       /\ task <= spent + WifiTime + CallTime
  /\ pc = "log" => /\ spent <= RequestTime
                   /\ task <= spent + 2 * WifiTime + CallTime
  /\ pc = "logged" => /\ spent <= AnswerTime /\ dog <= spent + AnswerTime
                      /\ task <= spent + 2 * WifiTime + CallTime + RequestTime
  /\ pc = "restart" =>
       /\ spent <= DelayTime
       /\ task <= spent + InitTime \/ task <= spent + 2 * (WifiTime + CallTime)
       /\ dog <= spent + InitTime \/ dog <= spent + 2 * AnswerTime

Healthy == SetupHealth /\ PassHealth /\ PostHealth /\ ServerHealth

HealthInv == ~stuck => Healthy

LEMMA HealthInit == Init => HealthInv
  BY TimesTyped
  DEF Init, HealthInv, Healthy, SetupHealth, PassHealth, PostHealth, ServerHealth

\* The longest time of the operation at each place.
LEMMA PlaceTimes ==
  /\ pc = "init" => Longest[At[pc]] = InitTime
  /\ pc \in {"connect", "retry", "wifi", "chkwifi", "logwifi"} => Longest[At[pc]] = WifiTime
  /\ pc \in {"pause", "restart"} => Longest[At[pc]] = DelayTime
  /\ pc \in {"sync", "ntp"} => Longest[At[pc]] = NtpTime
  /\ pc = "meter" => Longest[At[pc]] = MeterTime
  /\ pc = "store" => Longest[At[pc]] = StoreTime
  /\ pc \in {"post", "get", "log"} => Longest[At[pc]] = RequestTime
  /\ pc \in {"answer", "reply", "logged"} => Longest[At[pc]] = AnswerTime
  BY DEF At, InitTime, WifiTime, DelayTime, NtpTime, MeterTime, StoreTime, RequestTime,
         AnswerTime

LEMMA RoundUnderWay ==
  ASSUME Numbers, pc \in {"post", "answer"}
  PROVE  /\ Answered \in Nat
         /\ CallsTime(Answered) \in Nat /\ CallsTime(Answered + 1) = CallsTime(Answered) + CallTime
         /\ AnswersTime(Answered) \in Nat
         /\ AnswersTime(Answered + 1) = AnswersTime(Answered) + AnswerTime
<1>1. Round \in Int
  BY BoundsTyped DEF Numbers, Round, Capped
<1>2. Answered \in Nat
  BY <1>1 DEF Numbers, Answered
<1> QED BY <1>2, RoundTimes

LEMMA HealthTick ==
  ASSUME Numbers, GuardInv, Healthy, Tick, ~stuck
  PROVE  Healthy'
<1>1. /\ UNCHANGED <<pc, left, backlog>> /\ pc \notin {"top", "gate", "check"}
      /\ spent' = spent + 1 /\ spent < Longest[At[pc]]
      /\ pc \in Unguarded => dog' = dog
      /\ dog' \in {dog, dog + 1} /\ task' \in {task, task + 1}
  BY DEF Tick, Waiting, GuardInv, record
<1>2. spent \in Nat /\ dog \in Nat /\ task \in Nat
  BY DEF Numbers
<1> USE TimesTyped, PlaceTimes, <1>1, <1>2 DEF Healthy, Unguarded
<1>3. SetupHealth'
  BY DEF SetupHealth
<1>4. PassHealth'
  BY DEF PassHealth
<1>5. PostHealth'
  <2>1. Answered' = Answered
    BY DEF Answered, Round, Capped
  <2>2. /\ CallsTime(Answered)' = CallsTime(Answered)
        /\ AnswersTime(Answered)' = AnswersTime(Answered)
    BY <2>1 DEF CallsTime, AnswersTime, RequestTime, AnswerTime
  <2> QED
    BY <2>2, RoundUnderWay DEF PostHealth
<1>6. ServerHealth'
  BY DEF ServerHealth
<1> QED BY <1>3, <1>4, <1>5, <1>6

\* Between two operations of setup() and of a pass.
LEMMA HealthMoves ==
  ASSUME Numbers, Healthy, GuardInv,
         \/ Setup \/ Top \/ Updated \/ MeterRead \/ MeterFails \/ Stored \/ Gate
         \/ WifiDown \/ Bite \/ Restarted
  PROVE  Healthy'
<1>1. spent \in Nat /\ dog \in Nat /\ task \in Nat
  BY DEF Numbers
<1> USE TimesTyped, <1>1
    DEF Healthy, SetupHealth, PassHealth, PostHealth, ServerHealth, Returns, Go, Fed, On, Off,
        dogs, Expired, TaskExpired, DogExpired
<1>2. CASE Bite \/ Restarted
  BY <1>2 DEF Bite, Restarted, Start
<1>3. CASE Setup
  BY <1>3 DEF Setup, Initialised, Connected, Paused, Synced, Retried
<1>4. CASE Top \/ Updated \/ MeterRead
  BY <1>4 DEF Top, Updated, MeterRead
<1>5. CASE MeterFails \/ Stored
  BY <1>5 DEF MeterFails, Stored
<1>6. CASE Gate \/ WifiDown
  BY <1>6 DEF Gate, WifiDown
<1> QED BY <1>2, <1>3, <1>4, <1>5, <1>6

\* A round of posts: each request that is answered adds its time.
LEMMA HealthPosts ==
  ASSUME Numbers, Healthy, WifiUp \/ Posted \/ Accepted \/ Refused
  PROVE  Healthy'
<1>1. spent \in Nat /\ dog \in Nat /\ task \in Nat /\ left \in Nat /\ backlog \in Nat
  BY BoundsTyped DEF Numbers
<1>2. Round \in Int
  BY <1>1, BoundsTyped DEF Round, Capped
<1> USE DEF Healthy, SetupHealth, PassHealth, PostHealth, ServerHealth
<1>3. CASE WifiUp
  <2>1. CASE backlog > 0
    <3>1. /\ pc = "wifi" /\ pc' = "post" /\ spent' = 0 /\ left' = Round
          /\ UNCHANGED <<task, dog, backlog>>
      BY <1>3, <2>1 DEF WifiUp, Returns, Go, Off
    <3>2. Answered' = 0
      BY <1>2, <3>1 DEF Answered, Round, Capped
    <3>3. CallsTime(Answered)' = 0 /\ AnswersTime(Answered)' = 0
      BY <3>2, TimesTyped DEF CallsTime, AnswersTime, RequestTime, AnswerTime
    <3> QED
      BY <1>1, <3>1, <3>3, TimesTyped
  <2>2. CASE ~(backlog > 0)
    BY <1>1, <1>3, <2>2, TimesTyped
    DEF WifiUp, Returns, Go, On, Expired, TaskExpired, DogExpired
  <2> QED BY <2>1, <2>2
<1>4. CASE Posted
  <2>1. /\ pc = "post" /\ pc' = "answer" /\ spent' = 0 /\ UNCHANGED <<task, dog, left, backlog>>
    BY <1>4 DEF Posted, Returns, Go, On, record
  <2>2. Answered' = Answered
    BY <2>1 DEF Answered, Round, Capped
  <2>3. /\ CallsTime(Answered)' = CallsTime(Answered)
        /\ AnswersTime(Answered)' = AnswersTime(Answered)
    BY <2>2 DEF CallsTime, AnswersTime, RequestTime, AnswerTime
  <2> QED
    BY <2>1, <2>3, <1>1, RoundUnderWay, TimesTyped
<1>5. CASE Accepted /\ left > 1
  <2>1. /\ pc = "answer" /\ pc' = "post" /\ spent' = 0 /\ left' = left - 1
        /\ UNCHANGED <<task, dog, backlog>>
    BY <1>5 DEF Accepted, Returns, Go, Off
  <2>2. Answered' = Answered + 1
    BY <2>1, <1>1, <1>2 DEF Answered, Round, Capped
  <2>3. /\ CallsTime(Answered)' = CallsTime(Answered + 1)
        /\ AnswersTime(Answered)' = AnswersTime(Answered + 1)
    BY <2>2 DEF CallsTime, AnswersTime, RequestTime, AnswerTime
  <2> QED
    BY <2>1, <2>3, <1>1, RoundUnderWay, TimesTyped
<1>6. CASE Refused \/ (Accepted /\ ~(left > 1))
  <2>1. pc' = "check" /\ UNCHANGED dogs /\ ~Expired
    BY <1>6 DEF Accepted, Refused, Returns, Go
  <2> QED
    BY <2>1 DEF dogs, Expired, TaskExpired, DogExpired
<1> QED BY <1>3, <1>4, <1>5, <1>6

LEMMA HealthServer ==
  ASSUME Numbers, Healthy, GuardInv,
         Check \/ CheckWifi \/ Got \/ Replied \/ LogWifi \/ Logged \/ LogDone
  PROVE  Healthy'
<1>1. spent \in Nat /\ dog \in Nat /\ task \in Nat
  BY DEF Numbers
<1> USE TimesTyped, <1>1
    DEF Healthy, SetupHealth, PassHealth, PostHealth, ServerHealth, Returns, Go, Fed, On, Off,
        dogs, Rest, Expired, TaskExpired, DogExpired
<1>2. CASE Check \/ CheckWifi
  BY <1>2 DEF Check, CheckWifi
<1>3. CASE Got
  BY <1>3 DEF Got
<1>4. CASE Replied
  <2>1. pc = "reply" /\ ~DogExpired /\ on
    BY <1>4 DEF Replied, GuardInv, Unguarded
  <2>2. dog < DogTimeout
    BY <2>1
  <2>3. /\ pc' \in {"restart", "logwifi"} /\ spent' = 0
        /\ UNCHANGED <<dog, task>>
    BY <1>4 DEF Replied
  <2> QED BY <2>1, <2>2, <2>3
<1>5. CASE LogWifi \/ Logged
  BY <1>5 DEF LogWifi, Logged
<1>6. CASE LogDone
  BY <1>6 DEF LogDone
<1> QED BY <1>2, <1>3, <1>4, <1>5, <1>6

LEMMA HealthStep == Numbers /\ GuardInv /\ HealthInv /\ [Next]_vars => HealthInv'
<1> SUFFICES ASSUME Numbers, GuardInv, HealthInv, [Next]_vars, ~stuck' PROVE Healthy'
  BY DEF HealthInv
<1>1. CASE Bite
  BY <1>1, TimesTyped
  DEF Bite, Start, Healthy, SetupHealth, PassHealth, PostHealth, ServerHealth
<1>2. CASE stuck
  BY <1>1, <1>2
  DEF Next, vars, Tick, Hang, Setup, Initialised, Connected, Paused, Synced, Retried,
      Loop, Top, Updated, MeterRead, MeterFails, Stored, Gate, WifiUp, WifiDown, Posted,
      Accepted, Refused, Server, Check, CheckWifi, Got, Replied, LogWifi, Logged, LogDone,
      Restarted, Returns
<1>3. CASE ~stuck
  <2>1. Healthy
    BY <1>3 DEF HealthInv
  <2>2. CASE Tick
    BY <1>3, <2>1, <2>2, HealthTick
  <2>3. CASE UNCHANGED vars
    BY <2>1, <2>3
    DEF vars, dogs, record, Healthy, SetupHealth, PassHealth, PostHealth, ServerHealth,
        TaskExpired, DogExpired, Answered, Round, Capped, CallsTime, AnswersTime
  <2>4. ~Hang
    BY DEF Hang
  <2> QED
    BY <2>1, <2>2, <2>3, <2>4, HealthMoves, HealthPosts, HealthServer DEF Next, Loop, Server
<1> QED BY <1>2, <1>3

LEMMA HealthUnbitten ==
  ASSUME Flags, Numbers, GuardInv, HealthInv
  PROVE  HealthyNotBitten
<1> SUFFICES ASSUME ~stuck
             PROVE  /\ TaskExpired => TaskSpan >= TaskTimeout
                    /\ DogExpired => pc = "sync" \/ DogSpan >= DogTimeout
  BY DEF HealthyNotBitten
<1>1. spent \in Nat /\ dog \in Nat /\ task \in Nat
  BY DEF Numbers
<1>2. SetupHealth /\ PassHealth /\ PostHealth /\ ServerHealth
  BY DEF HealthInv, Healthy
<1>3. pc \in Places
  BY DEF Flags
<1>4. ASSUME TaskExpired PROVE TaskSpan >= TaskTimeout
  <2>1. task >= TaskTimeout
    BY <1>4 DEF TaskExpired
  <2>2. CASE pc \in {"init", "connect", "pause", "sync", "retry"}
    BY <1>1, <1>2, <2>1, <2>2, TimesTyped, PlaceTimes DEF SetupHealth, TaskSpan
  <2>3. CASE pc \in {"top", "gate", "check"}
    <3>1. task = 0
      BY <1>2, <1>4, <2>3 DEF PassHealth
    <3>2. TaskSpan = 0
      BY <2>3 DEF TaskSpan
    <3> QED BY <2>1, <3>1, <3>2, TimesTyped
  <2>4. CASE pc \in {"ntp", "meter", "store"}
    <3>1. TaskSpan = Longest[At[pc]]
      BY <2>4 DEF TaskSpan
    <3> QED BY <1>1, <1>2, <2>1, <2>4, <3>1, TimesTyped, PlaceTimes DEF PassHealth
  <2>5. CASE pc \in {"wifi", "post", "answer"}
    BY <1>1, <1>2, <2>1, <2>5, TimesTyped, PlaceTimes, RoundUnderWay DEF PostHealth, TaskSpan
  <2>6. CASE pc \in {"chkwifi", "get", "reply", "logwifi", "log", "logged"}
    BY <1>1, <1>2, <2>1, <2>6, TimesTyped, FewTimes, PlaceTimes DEF ServerHealth, TaskSpan
  <2>7. CASE pc = "restart"
    <3>1. TaskSpan = Larger(InitTime, 2 * WifiTime + 2 * CallTime) + DelayTime
      BY <2>7, FewTimes DEF TaskSpan
    <3> QED
      BY <1>1, <1>2, <2>1, <2>7, <3>1, TimesTyped DEF ServerHealth, Larger
  <2> QED
    BY <1>3, <2>2, <2>3, <2>4, <2>5, <2>6, <2>7 DEF Places
<1>5. ASSUME DogExpired PROVE pc = "sync" \/ DogSpan >= DogTimeout
  <2>1. pc \notin Unguarded /\ dog >= DogTimeout
    BY <1>5 DEF DogExpired, GuardInv
  <2> QED
    BY <1>1, <1>2, <1>3, <1>5, <2>1, TimesTyped, FewTimes, PlaceTimes, RoundUnderWay
    DEF Places, Unguarded, SetupHealth, PassHealth, PostHealth, ServerHealth, DogSpan, Larger
<1> QED BY <1>4, <1>5

\* A logger that works is reset by a watchdog only where the operations between two
\* feedings can take as long as the timeout, for any times of the operations, any
\* timeouts, any length of a round and any number of meters.
THEOREM NotBitten == Spec => []HealthyNotBitten
  BY FlagsInit, FlagsStep, NumbersInit, NumbersStep, GuardInit, GuardStep,
     HealthInit, HealthStep, HealthUnbitten, PTL DEF Spec

=============================================================================
