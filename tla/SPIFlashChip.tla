---------------------------- MODULE SPIFlashChip ----------------------------
(***************************************************************************)
(* The flash driver SPIFlash.cpp against the chip: eraseSector,            *)
(* writeByteArray with errorCheck, readByteArray.  Every call polls the    *)
(* status until the chip is ready, sets the write enable latch if the      *)
(* status it has just read does not show it, sends commands, and polls     *)
(* again.  The chip carries a command out on its own, after the call has   *)
(* gone on, and even after a reset of the logger.                          *)
(*                                                                         *)
(* A write that does not verify returns with the chip still selected and   *)
(* in the middle of a read.  The next byte that is meant as a command is   *)
(* then a clock for more data, and the byte that is taken for the status   *)
(* is one of them.                                                         *)
(***************************************************************************)
EXTENDS Integers, FiniteSets

CONSTANTS PageCells,   \* cells per page; a cell is a part of a page
          SectorPages, \* pages per sector
          Sectors,     \* sectors of the chip
          MaxLen,      \* the longest write, in cells
          Blank, Torn, \* contents that are no data
          MaxWrites,   \* bound: writes in a behaviour
          MaxFaults,   \* bound: disturbed or slow chip operations
          MaxResets    \* bound: resets of the logger

ASSUME ChipAssumption ==
  /\ PageCells \in Nat \ {0} /\ SectorPages \in Nat \ {0}
  /\ Sectors \in Nat \ {0}
  /\ MaxLen \in Nat \ {0}
  /\ Blank # Torn
  /\ MaxWrites \in Nat /\ MaxFaults \in Nat /\ MaxResets \in Nat

SectorCells == PageCells * SectorPages
Cells == 0 .. (SectorCells * Sectors - 1)

\* The data of a cell: the write it came with and its place in the buffer.
Data == (1 .. MaxWrites) \X (0 .. MaxLen - 1)

ASSUME DataAssumption == Blank \notin Data /\ Torn \notin Data

VARIABLES
  pc,        \* "idle", or what the call does next: "poll", "enable", "act"
  stage,     \* the part of the call that comes after the poll
  call,      \* the call under way, or the last one
  result,    \* what the last call returned
  done,      \* cells sent to the chip in this write
  status,    \* the driver's copy of the status register
  streaming, \* the chip is selected, and delivers data with every clock
  busy, wel, \* the chip's status register
  job,       \* the cells the chip is changing, with their new content
  cells,     \* the content of the chip
  writes, faults, resets

driver == <<pc, stage, call, result, done, status>>
chip   == <<streaming, busy, wel, job, cells>>
bounds == <<writes, faults, resets>>
vars   == <<driver, chip, bounds>>

Kinds == {"begin", "write", "erase", "read"}

\* obeyed: the chip took every command of the call.  stale: the call found the
\* chip in the middle of a read.
Call == [kind : Kinds, at : Cells, len : 0 .. MaxLen, obeyed : BOOLEAN, stale : BOOLEAN]

Stages == {"sfdp", "jedec", "prep", "page", "verify", "erase", "wait", "read"}

\* begin() talks to a chip whose select line has been low since the pin was
\* made an output.
Begin == [kind |-> "begin", at |-> 0, len |-> 0, obeyed |-> TRUE, stale |-> TRUE]

NoJob == [c \in {} |-> Blank]

Init ==
  /\ pc = "poll" /\ stage = "sfdp"
  /\ call = Begin /\ result = TRUE /\ done = 0
  /\ status = [busy |-> FALSE, wel |-> FALSE]
  /\ streaming = TRUE /\ busy = FALSE /\ wel = FALSE
  /\ job = NoJob
  /\ cells \in [Cells -> {Blank, Torn}]
  /\ writes = 0 /\ faults = 0 /\ resets = 0

Fault == faults < MaxFaults /\ faults' = faults + 1

SectorOf(c) == {d \in Cells : d \div SectorCells = c \div SectorCells}

\* The cells a write is for.
Region(w) == w.at .. (w.at + w.len - 1)

-----------------------------------------------------------------------------
(* Calls and returns                                                        *)

Enter(kind, at, len, first) ==
  /\ pc = "idle"
  /\ call' = [kind |-> kind, at |-> at, len |-> len, obeyed |-> TRUE, stale |-> streaming]
  /\ done' = 0
  /\ pc' = "poll" /\ stage' = first
  /\ UNCHANGED <<result, status, chip, faults, resets>>

CallWrite ==
  /\ writes < MaxWrites /\ writes' = writes + 1
  /\ \E at \in Cells, len \in 1 .. MaxLen :
       at + len - 1 \in Cells /\ Enter("write", at, len, "prep")

CallErase == (\E at \in Cells : Enter("erase", at, 0, "erase")) /\ UNCHANGED writes

CallRead == Enter("read", 0, 0, "read") /\ UNCHANGED writes

Return(r) ==
  /\ pc' = "idle"
  /\ result' = r
  /\ UNCHANGED <<stage, call, done>>

Goto(s) ==
  /\ pc' = "poll" /\ stage' = s
  /\ UNCHANGED <<call, result, done>>

-----------------------------------------------------------------------------
(* _notBusy() and _writeEnable()                                            *)

\* Faults the runs must notice: the busy flag is not waited for, or the latch
\* is taken for it.
ReadyAlways(s) == TRUE
ReadyUnlatched(s) == ~s.busy /\ ~s.wel

Ready(s) == ~s.busy

\* What the driver takes for the status.
StatusRead == IF streaming THEN [busy : BOOLEAN, wel : BOOLEAN]
              ELSE {[busy |-> busy, wel |-> wel]}

\* A fault the runs must notice: no latch for an erase.
AfterPollNoErase == IF stage \in {"prep", "page"} THEN "enable" ELSE "act"

\* The latch is asked for before a program or an erase.
AfterPoll == IF stage \in {"prep", "page", "erase"} THEN "enable" ELSE "act"

\* The status is read, and the chip is deselected.
Poll ==
  /\ pc = "poll"
  /\ status' \in StatusRead
  /\ streaming' = FALSE
  /\ pc' = IF Ready(status') THEN AfterPoll ELSE "poll"
  /\ UNCHANGED <<stage, call, result, done, busy, wel, job, cells, bounds>>

\* The chip or the task takes longer than the timeout.  _getSFDP's failure is
\* ignored; when begin() fails, setup() restarts the logger.
PollTimeout ==
  /\ pc = "poll"
  /\ Fault
  /\ status' \in StatusRead
  /\ streaming' = (stage = "jedec")
  /\ CASE stage = "sfdp" -> Goto("jedec")
       [] stage = "jedec" -> Goto("sfdp")
       [] OTHER -> Return(FALSE)
  /\ UNCHANGED <<busy, wel, job, cells, writes, resets>>

\* The latch is not asked for when the status shows it set.
Enable ==
  /\ pc = "enable"
  /\ IF status.wel THEN UNCHANGED <<wel, status>>
     ELSE wel' = TRUE /\ status' = [busy |-> FALSE, wel |-> TRUE]
  /\ pc' = "act"
  /\ UNCHANGED <<stage, call, result, done, streaming, busy, job, cells, bounds>>

\* The command was sent before the time is looked at: the latch may be set.
EnableTimeout ==
  /\ pc = "enable" /\ ~status.wel
  /\ Fault
  /\ wel' \in {wel, TRUE} /\ status' = [busy |-> busy, wel |-> wel']
  /\ Return(FALSE)
  /\ UNCHANGED <<streaming, busy, job, cells, writes, resets>>

-----------------------------------------------------------------------------
(* The commands.  A chip whose latch is not set, or that is busy, ignores    *)
(* a program or an erase command.                                            *)

Obeyed(j) ==
  IF wel /\ ~busy
  THEN busy' = TRUE /\ job' = j /\ UNCHANGED call
  ELSE call' = [call EXCEPT !.obeyed = FALSE] /\ UNCHANGED <<busy, job>>

\* begin() asks for two descriptions of the chip, each after a poll.
BeginReady ==
  /\ pc = "act" /\ stage \in {"sfdp", "jedec"}
  /\ IF stage = "sfdp" THEN Goto("jedec") ELSE Return(TRUE)
  /\ UNCHANGED <<status, chip, bounds>>

\* The chip answers with no id, or one that is not known: begin() fails, and
\* setup() restarts the logger.
BeginFails ==
  /\ pc = "act" /\ stage = "jedec"
  /\ Fault
  /\ Goto("sfdp") /\ streaming' = TRUE
  /\ UNCHANGED <<status, busy, wel, job, cells, writes, resets>>

\* _notPrevWritten(): a write to cells that are not blank is refused.
CheckBlank ==
  /\ pc = "act" /\ stage = "prep"
  /\ IF \A c \in Region(call) : cells[c] = Blank THEN Goto("page") ELSE Return(FALSE)
  /\ UNCHANGED <<status, chip, bounds>>

\* Faults the runs must notice: the first piece is as long as a page, or every
\* piece goes up to the end of its page.
PieceWhole ==
  LET left == call.len - done IN IF left <= PageCells THEN left ELSE PageCells
PieceToEnd == PageCells - ((call.at + done) % PageCells)

\* The cells of the next program command: up to the end of the page.
Piece ==
  LET left == call.len - done
      room == PageCells - ((call.at + done) % PageCells)
  IN  IF left <= room THEN left ELSE room

\* Where the chip puts the i-th cell of a program command: a command that
\* runs past the end of the page goes on at its start.
Placed(i) ==
  LET first == call.at + done
      page  == first \div PageCells
  IN  page * PageCells + ((first + i) % PageCells)

ProgramPage ==
  /\ pc = "act" /\ stage = "page"
  /\ Obeyed([c \in {Placed(i) : i \in 0 .. Piece - 1} |->
               LET i == CHOOSE k \in 0 .. Piece - 1 : Placed(k) = c
               IN  <<writes, done + i>>])
  /\ done' = done + Piece
  /\ pc' = "poll"
  /\ stage' = IF done' < call.len THEN "page" ELSE "verify"
  /\ UNCHANGED <<result, status, streaming, wel, cells, bounds>>

\* A fault the runs must notice: the last cell is not compared.
VerifyShort ==
  /\ pc = "act" /\ stage = "verify"
  /\ IF \A k \in 0 .. call.len - 2 : cells[call.at + k] = <<writes, k>>
     THEN Return(TRUE) /\ UNCHANGED streaming
     ELSE Return(FALSE) /\ streaming' = TRUE
  /\ UNCHANGED <<status, busy, wel, job, cells, bounds>>

\* The cells are read back and compared.  At the first difference the call
\* returns at once, and the chip stays selected.
Verify ==
  /\ pc = "act" /\ stage = "verify"
  /\ IF \A k \in 0 .. call.len - 1 : cells[call.at + k] = <<writes, k>>
     THEN Return(TRUE) /\ UNCHANGED streaming
     ELSE Return(FALSE) /\ streaming' = TRUE
  /\ UNCHANGED <<status, busy, wel, job, cells, bounds>>

EraseSector ==
  /\ pc = "act" /\ stage = "erase"
  /\ Obeyed([c \in SectorOf(call.at) |-> Blank])
  /\ pc' = "poll" /\ stage' = "wait"
  /\ UNCHANGED <<result, done, status, streaming, wel, cells, bounds>>

EraseDone ==
  /\ pc = "act" /\ stage = "wait"
  /\ Return(TRUE)
  /\ UNCHANGED <<status, chip, bounds>>

ReadData ==
  /\ pc = "act" /\ stage = "read"
  /\ Return(TRUE)
  /\ UNCHANGED <<status, chip, bounds>>

-----------------------------------------------------------------------------
(* The chip, and resets of the logger                                       *)

\* The content after the job, when the cells of S came out torn.
Changed(S) ==
  [c \in Cells |-> IF c \notin DOMAIN job THEN cells[c]
                   ELSE IF c \in S THEN Torn ELSE job[c]]

\* The latch falls when the job is over.
ChipReady ==
  /\ busy
  /\ \/ cells' = Changed({}) /\ UNCHANGED faults
     \/ Fault /\ \E S \in SUBSET DOMAIN job : S # {} /\ cells' = Changed(S)
  /\ busy' = FALSE /\ wel' = FALSE /\ job' = NoJob
  /\ UNCHANGED <<driver, streaming, writes, resets>>

\* The logger starts again while the chip goes on with its job.
Reset ==
  /\ resets < MaxResets /\ resets' = resets + 1
  /\ pc' = "poll" /\ stage' = "sfdp" /\ call' = Begin /\ result' = TRUE /\ done' = 0
  /\ status' = [busy |-> FALSE, wel |-> FALSE]
  /\ streaming' = TRUE
  /\ UNCHANGED <<busy, wel, job, cells, writes, faults>>

\* The chip loses its power too: its job stops half way.
PowerCut ==
  /\ resets < MaxResets /\ resets' = resets + 1
  /\ pc' = "poll" /\ stage' = "sfdp" /\ call' = Begin /\ result' = TRUE /\ done' = 0
  /\ status' = [busy |-> FALSE, wel |-> FALSE]
  /\ streaming' = TRUE /\ busy' = FALSE /\ wel' = FALSE /\ job' = NoJob
  /\ \E S, T \in SUBSET DOMAIN job :
       cells' = [c \in Cells |-> IF c \in S THEN cells[c] ELSE Changed(T)[c]]
  /\ UNCHANGED <<writes, faults>>

-----------------------------------------------------------------------------

Calls == CallWrite \/ CallErase \/ CallRead

Step == Poll \/ PollTimeout \/ Enable \/ EnableTimeout
          \/ BeginReady \/ BeginFails \/ CheckBlank \/ ProgramPage \/ Verify
          \/ EraseSector \/ EraseDone \/ ReadData

Next == Calls \/ Step \/ ChipReady \/ Reset \/ PowerCut

Spec == Init /\ [][Next]_vars

\* The driver's code runs on, the chip finishes what it has begun, and data
\* taken for a status do not for ever look like a busy chip.
FairSpec == Spec /\ WF_vars(Step) /\ WF_vars(ChipReady)

-----------------------------------------------------------------------------

\* The type of the state.
TypeOK ==
  /\ pc \in {"idle", "poll", "enable", "act"}
  /\ stage \in Stages
  /\ call \in Call
  /\ result \in BOOLEAN
  /\ done \in 0 .. MaxLen
  /\ status \in [busy : BOOLEAN, wel : BOOLEAN]
  /\ streaming \in BOOLEAN /\ busy \in BOOLEAN /\ wel \in BOOLEAN
  /\ DOMAIN job \subseteq Cells
  /\ cells \in [Cells -> Data \union {Blank, Torn}]
  /\ writes \in 0 .. MaxWrites /\ faults \in 0 .. MaxFaults /\ resets \in 0 .. MaxResets

\* writeByteArray returned true: every cell asked for holds its data, whatever
\* the chip did to a page and wherever the pages end.
WriteVerified ==
  pc = "idle" /\ call.kind = "write" /\ result =>
    \A k \in 0 .. call.len - 1 : cells[call.at + k] = <<writes, k>>

\* The chip is told to program blank cells only, and none but those of the
\* write under way, so that no reset or retry ever destroys older data.
ProgramsOwnBlankCells ==
  pc = "poll" /\ stage \in {"page", "verify"} /\ busy =>
    /\ DOMAIN job \subseteq Region(call)
    /\ \A c \in DOMAIN job : cells[c] = Blank

\* eraseSector returned true: the chip took the command, unless the call came
\* right after a write that did not verify.
ErasesObeyed ==
  pc = "idle" /\ call.kind = "erase" /\ result /\ ~call.stale => call.obeyed

\* The comment at eraseSector: it erases the sector containing the address.  So
\* an erase that returned true was taken by the chip.
ErasesDone == pc = "idle" /\ call.kind = "erase" /\ result => call.obeyed

\* Every call returns.
CallsReturn == pc # "idle" ~> pc = "idle"

=============================================================================
