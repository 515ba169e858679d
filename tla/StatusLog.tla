------------------------------- MODULE StatusLog -------------------------------
(***************************************************************************)
(* errlog: the bits that tell the log server how a logger of energy meters *)
(* is doing.  The steps are those of Watchdog; this module adds what they  *)
(* do to the bits.  They are in RAM, are written all over main.cpp, are    *)
(* sent by logPostTask after serverChkTask has succeeded, and are cleared  *)
(* when the log server has answered.                                       *)
(*                                                                         *)
(* One bit stands for all meters, and one for two servers: the one the     *)
(* readings are posted to and the log server.                              *)
(***************************************************************************)
EXTENDS Watchdog

VARIABLES
  errlog, \* the bits set: "restart", "spiflash", "sensor", "server"
  missed, \* history: a meter failed in the last pass, and no report was answered since
  heard   \* history: the log server has received a report of the last restart

status  == <<errlog, missed, heard>>
allVars == <<vars, status>>

StatusInit == Init /\ errlog = {} /\ missed = FALSE /\ heard = FALSE

Raise(b) == errlog' = errlog \union {b}
Lower(b) == errlog' = errlog \ {b}

\* RAM is zero after a reset.
Reboot == (Bite \/ Restarted) /\ errlog' = {} /\ missed' = FALSE /\ heard' = FALSE

\* The last statement of setup().
Started ==
  /\ Synced
  /\ IF pc' = "top" THEN Raise("restart") ELSE UNCHANGED errlog
  /\ UNCHANGED <<missed, heard>>

\* Every meter that answers lowers the bit.
ReadsMeter ==
  /\ MeterRead
  /\ Lower("sensor")
  /\ missed' = (missed /\ meter # 1)
  /\ UNCHANGED heard

\* A fault the runs must notice: the pass goes on with the next meter.
MissesOneMeter == MeterRead /\ Raise("sensor") /\ missed' = TRUE /\ UNCHANGED heard

\* The first meter that fails raises it and ends the pass.
MissesMeter == MeterFails /\ Raise("sensor") /\ missed' = TRUE /\ UNCHANGED heard

\* Records are added only by a write that succeeds.
Stores ==
  /\ Stored
  /\ Lower("spiflash") \/ (Raise("spiflash") /\ UNCHANGED backlog)
  /\ UNCHANGED <<missed, heard>>

\* The data server's answer.
Posts ==
  /\ \/ Accepted /\ Lower("server")
     \/ Refused /\ Raise("server")
  /\ UNCHANGED <<missed, heard>>

\* A fault the runs must notice: a check that succeeds leaves the bit alone.
ChecksOnly ==
  /\ Got
  /\ IF pc' = "reply" THEN UNCHANGED errlog ELSE Raise("server")
  /\ UNCHANGED <<missed, heard>>

\* The log server's answer to the check.
Checks ==
  /\ Got
  /\ IF pc' = "reply" THEN Lower("server") ELSE Raise("server")
  /\ UNCHANGED <<missed, heard>>

\* The log server receives the report.
Receives == heard' = (heard \/ "restart" \in errlog)

\* A fault the runs must notice: the bits are cleared once they are sent.
ReportsBlindly ==
  /\ LogDone
  /\ errlog' = {} /\ missed' = FALSE
  /\ Receives \/ UNCHANGED heard

\* The report is answered, and the bits are cleared; or it is not, and the log
\* server may have received it all the same.
Reports ==
  /\ LogDone
  /\ \/ errlog' = {} /\ missed' = FALSE /\ Receives
     \/ Raise("server") /\ UNCHANGED missed /\ (Receives \/ UNCHANGED heard)

\* Steps that leave the bits alone.
Silent ==
  /\ \/ Tick \/ Hang
     \/ Initialised \/ Connected \/ Paused \/ Retried
     \/ Top \/ Updated \/ Gate \/ WifiUp \/ WifiDown \/ Posted
     \/ Check \/ CheckWifi \/ Replied \/ LogWifi \/ Logged
  /\ UNCHANGED status

StatusNext == Reboot \/ Started \/ ReadsMeter \/ MissesMeter \/ Stores \/ Posts
                \/ Checks \/ Reports \/ Silent

StatusSpec == StatusInit /\ [][StatusNext]_allVars

\* Fairness as in Watchdog.
StatusFairSpec == StatusSpec /\ WF_allVars(Tick /\ Silent) /\ WF_allVars(Bite /\ Reboot)

-----------------------------------------------------------------------------

Reporting == pc \in {"logwifi", "log", "logged"}

\* No report names a server: reports are made only after the log server has
\* answered, which lowers the bit, so an outage of the data server is never
\* reported however long it lasts.
ServerNeverAccused == Reporting => "server" \notin errlog

\* A meter that failed in the last pass is in the report, whichever meter it
\* was and whatever the others answered: none of them hides it.
MissedMeterReported == Reporting /\ missed => "sensor" \in errlog

\* The logger stops telling of a restart only when the log server has heard of
\* it, whatever reports and answers are lost.
RestartHeard ==
  pc \notin {"init", "connect", "pause", "sync", "retry", "restart"} =>
    "restart" \in errlog \/ heard

=============================================================================
