---------------------------- MODULE SPIFlashProof ----------------------------
(***************************************************************************)
(* What a caller of the flash driver may rely on, for a chip of any size:  *)
(* the type of the state, that no call leaves a job behind, that a write   *)
(* that returned true is in the chip, that only blank cells of the write   *)
(* under way are programmed, that an erase is never lost, and that driver  *)
(* and chip together implement FlashStore.                                 *)
(*                                                                         *)
(* The argument is about what the driver knows of the chip: between a poll *)
(* that found the chip ready and the next command the chip is idle, except *)
(* for the first poll after a reset, which may take data for a status.     *)
(***************************************************************************)
EXTENDS ChipStore, TLAPS

\* The call under way matches the stage it is in, and a write stays inside the
\* chip and inside its buffer.
CallInv ==
  /\ pc # "idle" =>
       /\ stage \in {"sfdp", "jedec"} => call.kind = "begin"
       /\ stage \in {"prep", "page", "verify"} => call.kind = "write"
       /\ stage \in {"erase", "wait"} => call.kind = "erase"
       /\ stage = "read" => call.kind = "read"
  /\ call.kind = "write" =>
       call.len >= 1 /\ call.at + call.len - 1 \in Cells /\ writes >= 1
  /\ pc # "idle" /\ stage = "prep" => done = 0
  /\ pc # "idle" /\ stage = "page" => done < call.len
  /\ pc # "idle" /\ stage = "verify" => done = call.len

\* A job writes data or erases.
JobInv == \A c \in DOMAIN job : job[c] \in Data \union {Blank}

TypeInv == TypeOK /\ CallInv /\ JobInv

\* What the driver knows of the chip.
ReadyInv ==
  /\ pc \in {"enable", "act"} => ~streaming
  /\ pc \in {"enable", "act"} /\ stage # "sfdp" => ~busy
  /\ streaming => ~busy \/ (pc = "poll" /\ stage = "sfdp")
  /\ pc = "poll" /\ stage = "jedec" => ~streaming
  /\ pc = "enable" => stage \in {"prep", "page", "erase"}
  /\ pc = "idle" /\ result => ~busy /\ ~streaming

\* What it knows of the latch, when the call did not find the chip in the
\* middle of a read.
LatchInv ==
  call.kind = "erase" /\ ~call.stale =>
    /\ call.obeyed
    /\ pc = "poll" => ~streaming
    /\ pc = "enable" /\ status.wel => wel
    /\ pc = "act" /\ stage = "erase" => wel

\* In the middle of a write: the cells still to be sent are blank, and a job is
\* about cells that have been sent and are blank as yet.
PagesInv ==
  pc # "idle" /\ stage \in {"page", "verify"} =>
    /\ \A c \in (call.at + done) .. (call.at + call.len - 1) : cells[c] = Blank
    /\ busy => /\ DOMAIN job \subseteq call.at .. (call.at + done - 1)
               /\ \A c \in DOMAIN job : cells[c] = Blank

FlashInv == TypeInv /\ ReadyInv /\ LatchInv /\ PagesInv /\ WriteVerified

-----------------------------------------------------------------------------
(* Cells and pages *)

LEMMA ChipSize == SectorCells \in Nat \ {0} /\ SectorCells * Sectors \in Nat \ {0}
<1>1. PageCells \in Nat \ {0} /\ SectorPages \in Nat \ {0} /\ Sectors \in Nat \ {0}
  BY ChipAssumption
<1>2. SectorCells \in Nat \ {0}
  BY <1>1 DEF SectorCells
<1> QED BY <1>1, <1>2

LEMMA CellsNat == Cells \subseteq Nat /\ 0 \in Cells
BY ChipSize DEF Cells

LEMMA CellsBetween ==
  ASSUME NEW a \in Cells, NEW b \in Cells, NEW c \in a .. b
  PROVE  c \in Cells
<1> DEFINE n == SectorCells * Sectors
<1>1. n \in Nat /\ Cells = 0 .. n - 1
  BY ChipSize DEF Cells
<1> HIDE DEF n
<1> QED BY <1>1

LEMMA DivMod ==
  ASSUME NEW a \in Nat, NEW b \in Nat \ {0}
  PROVE  a \div b \in Nat /\ a % b \in 0 .. b - 1 /\ a = b * (a \div b) + (a % b)
<1>1. a \div b \in Nat
  OBVIOUS
<1>2. a % b \in 0 .. b - 1
  OBVIOUS
<1>3. a = b * (a \div b) + (a % b)
  OBVIOUS
<1> QED BY <1>1, <1>2, <1>3

\* Multiples of m that differ, differ by m at least.
LEMMA MultiplesApart ==
  ASSUME NEW m \in Nat \ {0}, NEW p \in Int, NEW q \in Int
  PROVE  /\ m * p \in Int /\ m * q \in Int
         /\ p < q => m * p + m <= m * q
         /\ p = q => m * p = m * q
<1>1. m * p \in Int /\ m * q \in Int
  OBVIOUS
<1>2. ASSUME p < q PROVE m * p + m <= m * q
  <2>1. PICK d \in Nat : q = p + 1 + d
    <3>1. q - p - 1 \in Nat /\ q = p + 1 + (q - p - 1)
      BY <1>2
    <3> QED
      BY <3>1
  <2>2. m * q = m * p + m + m * d /\ m * d \in Nat
    BY <2>1
  <2> QED
    BY <1>1, <2>2
<1> QED
  BY <1>1, <1>2

\* Two numbers of the same page have the same page number.
LEMMA SamePage ==
  ASSUME NEW p \in Nat \ {0}, NEW a \in Nat, NEW i \in Nat, (a % p) + i < p
  PROVE  (a + i) % p = (a % p) + i
<1> DEFINE q == a \div p
           t == a % p
           r == (a + i) \div p
           u == (a + i) % p
<1>1. q \in Nat /\ t \in 0 .. p - 1 /\ a = p * q + t
  BY DivMod
<1>2. r \in Nat /\ u \in 0 .. p - 1 /\ a + i = p * r + u
  <2>1. a + i \in Nat
    OBVIOUS
  <2> QED BY <2>1, DivMod
<1>3. t + i < p
  OBVIOUS
<1> HIDE DEF q, t, r, u
<1>4. p * q \in Int /\ p * r \in Int
  BY <1>1, <1>2
<1>5. r = q
  <2>1. CASE q < r
    <3>1. p * r >= p * q + p
      BY <1>1, <1>2, <2>1, MultiplesApart
    <3> QED BY <1>1, <1>2, <1>3, <1>4, <3>1
  <2>2. CASE r < q
    <3>1. p * q >= p * r + p
      BY <1>1, <1>2, <2>2, MultiplesApart
    <3> QED BY <1>1, <1>2, <1>3, <1>4, <3>1
  <2> QED BY <1>1, <1>2, <2>1, <2>2
<1>6. u = t + i
  BY <1>1, <1>2, <1>4, <1>5
<1> QED BY <1>6 DEF u, t

\* A program command neither passes the end of its page nor that of the write,
\* so the chip puts every cell where the driver means it to be.
LEMMA PieceInPage ==
  ASSUME call.at \in Nat, call.len \in Nat, done \in Nat, done < call.len
  PROVE  /\ Piece \in 1 .. (call.len - done)
         /\ \A i \in 0 .. Piece - 1 : Placed(i) = call.at + done + i
<1> DEFINE a == call.at + done
           p == PageCells
           t == a % p
           q == a \div p
<1>1. p \in Nat \ {0} /\ a \in Nat
  BY ChipAssumption
<1>2. q \in Nat /\ t \in 0 .. p - 1 /\ a = p * q + t
  BY <1>1, DivMod
<1>3. Piece = IF call.len - done <= p - t THEN call.len - done ELSE p - t
  BY DEF Piece
<1> HIDE DEF t, q, p
<1>4. Piece \in 1 .. (call.len - done) /\ Piece <= p - t
  BY <1>1, <1>2, <1>3
<1>5. ASSUME NEW i \in 0 .. Piece - 1 PROVE Placed(i) = a + i
  <2>1. i \in Nat /\ t + i < p
    BY <1>1, <1>2, <1>4
  <2>2. (a + i) % p = t + i
    BY <1>1, <2>1, SamePage DEF t
  <2>3. Placed(i) = q * p + ((a + i) % p)
    BY DEF Placed, q, p
  <2>4. q * p = p * q /\ p * q \in Int
    BY <1>1, <1>2
  <2> QED BY <1>1, <1>2, <2>1, <2>2, <2>3, <2>4
<1> QED BY <1>4, <1>5

-----------------------------------------------------------------------------
(* The type of the state *)

\* The job of a program command.
SentJob ==
  [c \in {Placed(i) : i \in 0 .. Piece - 1} |->
     LET i == CHOOSE k \in 0 .. Piece - 1 : Placed(k) = c IN <<writes, done + i>>]

LEMMA SentJobType ==
  ASSUME TypeInv, pc = "act", stage = "page"
  PROVE  /\ DOMAIN SentJob \subseteq (call.at + done) .. (call.at + done + Piece - 1)
         /\ DOMAIN SentJob \subseteq Cells
         /\ \A c \in DOMAIN SentJob : SentJob[c] \in Data
         /\ Piece \in 1 .. (call.len - done)
         /\ call.at \in Nat /\ call.len \in 0 .. MaxLen /\ done \in Nat
<1>1. /\ call.at \in Cells /\ call.at \in Nat /\ call.len \in 0 .. MaxLen /\ call.len \in Nat
      /\ done \in Nat /\ done < call.len
  <2>1. call \in Call /\ done \in 0 .. MaxLen /\ done < call.len
    BY DEF TypeInv, TypeOK, CallInv
  <2>2. call.at \in Cells /\ call.len \in 0 .. MaxLen
    BY <2>1 DEF Call
  <2>3. call.at \in Nat
    BY <2>2, CellsNat
  <2>4. call.len \in Nat /\ done \in Nat
    BY <2>1, <2>2, ChipAssumption
  <2> QED BY <2>1, <2>2, <2>3, <2>4
<1>2. writes \in 1 .. MaxWrites /\ call.at + call.len - 1 \in Cells
  BY ChipAssumption DEF TypeInv, TypeOK, CallInv
<1>3. /\ Piece \in 1 .. (call.len - done)
      /\ \A i \in 0 .. Piece - 1 : Placed(i) = call.at + done + i
  BY <1>1, PieceInPage
<1>4. ASSUME NEW c \in DOMAIN SentJob
      PROVE  /\ c \in (call.at + done) .. (call.at + done + Piece - 1)
             /\ c \in Cells /\ SentJob[c] \in Data
  <2> DEFINE i == CHOOSE k \in 0 .. Piece - 1 : Placed(k) = c
  <2>1. \E k \in 0 .. Piece - 1 : Placed(k) = c
    BY DEF SentJob
  <2>2. i \in 0 .. Piece - 1 /\ Placed(i) = c
    BY <2>1
  <2>3. SentJob[c] = <<writes, done + i>>
    BY DEF SentJob
  <2> HIDE DEF i
  <2>4. c = call.at + done + i
    BY <1>3, <2>2
  <2>5. c \in (call.at + done) .. (call.at + done + Piece - 1)
    BY <1>1, <1>3, <2>2, <2>4
  <2>6. c \in call.at .. (call.at + call.len - 1)
    BY <1>1, <1>3, <2>2, <2>4
  <2>7. c \in Cells
    BY <1>1, <1>2, <2>6, CellsBetween
  <2>8. done + i \in 0 .. MaxLen - 1
    BY <1>1, <1>3, <2>2, ChipAssumption
  <2> QED BY <1>2, <2>3, <2>5, <2>7, <2>8 DEF Data
<1> QED BY <1>1, <1>3, <1>4

LEMMA ChangedType ==
  ASSUME TypeInv, NEW S
  PROVE  Changed(S) \in [Cells -> Data \union {Blank, Torn}]
BY DEF TypeInv, TypeOK, JobInv, Changed

LEMMA FlashTypeInit == Init => TypeInv
<1> SUFFICES ASSUME Init PROVE TypeInv
  OBVIOUS
<1>1. call \in Call
  BY CellsNat, ChipAssumption DEF Init, Begin, Call, Kinds
<1>2. TypeOK
  <2>1. /\ status \in [busy : BOOLEAN, wel : BOOLEAN]
        /\ streaming \in BOOLEAN /\ busy \in BOOLEAN /\ wel \in BOOLEAN /\ result \in BOOLEAN
    BY DEF Init
  <2>2. DOMAIN job \subseteq Cells /\ cells \in [Cells -> Data \union {Blank, Torn}]
    BY DEF Init, NoJob
  <2>3. /\ writes \in 0 .. MaxWrites /\ faults \in 0 .. MaxFaults
        /\ resets \in 0 .. MaxResets /\ done \in 0 .. MaxLen
    BY ChipAssumption DEF Init
  <2>4. pc \in {"idle", "poll", "enable", "act"} /\ stage \in Stages
    BY DEF Init, Stages
  <2> QED BY <1>1, <2>1, <2>2, <2>3, <2>4 DEF TypeOK
<1>3. CallInv
  BY DEF Init, Begin, CallInv
<1>4. JobInv
  BY DEF Init, NoJob, JobInv
<1> QED BY <1>2, <1>3, <1>4 DEF TypeInv

LEMMA TypeEnter ==
  ASSUME TypeInv, Calls PROVE TypeInv'
<1>1. CASE CallWrite
  <2>1. PICK at \in Cells, len \in 1 .. MaxLen :
          at + len - 1 \in Cells /\ Enter("write", at, len, "prep")
    BY <1>1 DEF CallWrite
  <2>2. call' \in Call
    BY <2>1, ChipAssumption DEF TypeInv, TypeOK, Enter, Call, Kinds
  <2>3. writes' \in 1 .. MaxWrites
    BY <1>1, ChipAssumption DEF CallWrite, TypeInv, TypeOK
  <2>4. TypeOK'
    BY <2>1, <2>2, <2>3, ChipAssumption DEF TypeInv, TypeOK, Enter, chip, Stages
  <2>5. CallInv' /\ JobInv'
    BY <2>1, <2>3 DEF TypeInv, CallInv, JobInv, Enter, chip
  <2> QED BY <2>4, <2>5 DEF TypeInv
<1>2. CASE CallErase \/ CallRead
  <2>1. PICK kind \in {"erase", "read"}, at \in Cells : Enter(kind, at, 0, kind)
    BY <1>2, CellsNat DEF CallErase, CallRead
  <2>2. call' \in Call
    BY <2>1, ChipAssumption DEF TypeInv, TypeOK, Enter, Call, Kinds
  <2>3. UNCHANGED writes
    BY <1>2 DEF CallErase, CallRead
  <2>4. TypeOK'
    BY <2>1, <2>2, <2>3, ChipAssumption DEF TypeInv, TypeOK, Enter, chip, Stages
  <2>5. CallInv' /\ JobInv'
    BY <2>1, <2>3 DEF TypeInv, CallInv, JobInv, Enter, chip
  <2> QED BY <2>4, <2>5 DEF TypeInv
<1> QED BY <1>1, <1>2 DEF Calls

LEMMA StatusType ==
  ASSUME TypeOK PROVE StatusRead \subseteq [busy : BOOLEAN, wel : BOOLEAN]
BY DEF StatusRead, TypeOK

LEMMA TypePoll ==
  ASSUME TypeInv, Poll \/ PollTimeout \/ Enable \/ EnableTimeout \/ BeginFails PROVE TypeInv'
<1>1. status' \in [busy : BOOLEAN, wel : BOOLEAN]
  <2>1. CASE Poll \/ PollTimeout
    BY <2>1, StatusType DEF TypeInv, Poll, PollTimeout
  <2>2. CASE Enable \/ EnableTimeout \/ BeginFails
    <3>1. status' = status \/ \E b, l \in BOOLEAN : status' = [busy |-> b, wel |-> l]
      BY <2>2 DEF Enable, EnableTimeout, BeginFails, TypeInv, TypeOK
    <3>2. \A b, l \in BOOLEAN : [busy |-> b, wel |-> l] \in [busy : BOOLEAN, wel : BOOLEAN]
      OBVIOUS
    <3>3. status \in [busy : BOOLEAN, wel : BOOLEAN]
      BY DEF TypeInv, TypeOK
    <3> QED BY <3>1, <3>2, <3>3
  <2> QED BY <2>1, <2>2
<1>2. pc' \in {"idle", "poll", "enable", "act"} /\ stage' \in Stages
  BY DEF TypeInv, TypeOK, Poll, PollTimeout, Enable, EnableTimeout, BeginFails, AfterPoll, Goto, Return, Stages
<1>3. streaming' \in BOOLEAN /\ wel' \in BOOLEAN /\ result' \in BOOLEAN
  BY DEF TypeInv, TypeOK, Poll, PollTimeout, Enable, EnableTimeout, BeginFails, Goto, Return, chip
<1>4. faults' \in 0 .. MaxFaults
  <2>1. faults' = faults \/ (faults < MaxFaults /\ faults' = faults + 1)
    BY DEF Poll, PollTimeout, Enable, EnableTimeout, BeginFails, Fault, bounds
  <2> QED BY <2>1, ChipAssumption DEF TypeInv, TypeOK
<1>5. UNCHANGED <<call, done, busy, job, cells, writes, resets>>
  BY DEF Poll, PollTimeout, Enable, EnableTimeout, BeginFails, Goto, Return, chip, bounds
<1>6. TypeOK'
  BY <1>1, <1>2, <1>3, <1>4, <1>5 DEF TypeInv, TypeOK
<1>7. CallInv'
  <2>1. pc' = "idle" \/ (pc # "idle" /\ stage' = stage)
          \/ (pc # "idle" /\ stage \in {"sfdp", "jedec"} /\ stage' \in {"sfdp", "jedec"})
    BY DEF Poll, PollTimeout, Enable, EnableTimeout, BeginFails, Goto, Return
  <2> QED BY <1>5, <2>1 DEF TypeInv, CallInv
<1>8. JobInv'
  BY <1>5 DEF TypeInv, JobInv
<1> QED BY <1>6, <1>7, <1>8 DEF TypeInv

LEMMA SentWithin ==
  ASSUME TypeInv, ProgramPage
  PROVE  /\ call'.kind = call.kind /\ call'.at = call.at /\ call'.len = call.len
         /\ call' \in Call /\ done' = done + Piece /\ done' \in 0 .. MaxLen
         /\ \/ busy' = TRUE /\ job' = SentJob
            \/ UNCHANGED <<busy, job>>
<1>1. pc = "act" /\ stage = "page" /\ call \in Call
  BY DEF ProgramPage, TypeInv, TypeOK
<1>2. \/ busy' = TRUE /\ job' = SentJob /\ UNCHANGED call
      \/ call' = [call EXCEPT !.obeyed = FALSE] /\ UNCHANGED <<busy, job>>
  BY DEF ProgramPage, Obeyed, SentJob
<1>3. call' \in Call /\ call'.kind = call.kind /\ call'.at = call.at /\ call'.len = call.len
  BY <1>1, <1>2 DEF Call
<1>4. done' = done + Piece
  BY DEF ProgramPage
<1>5. done' \in 0 .. MaxLen
  BY <1>1, <1>4, SentJobType, ChipAssumption
<1> QED BY <1>2, <1>3, <1>4, <1>5

LEMMA TypeProgram ==
  ASSUME TypeInv, ProgramPage PROVE TypeInv'
<1>1. pc = "act" /\ stage = "page"
  BY DEF ProgramPage
<1>2. DOMAIN job' \subseteq Cells /\ JobInv'
  BY <1>1, SentWithin, SentJobType DEF TypeInv, TypeOK, JobInv
<1>3. busy' \in BOOLEAN
  BY SentWithin DEF TypeInv, TypeOK
<1>4. pc' = "poll" /\ stage' \in {"page", "verify"}
  BY DEF ProgramPage
<1>5. UNCHANGED <<result, status, streaming, wel, cells, writes, faults, resets>>
  BY DEF ProgramPage, bounds
<1>6. TypeOK'
  BY <1>2, <1>3, <1>4, <1>5, SentWithin DEF TypeInv, TypeOK, Stages
<1>7. CallInv'
  <2>1. call.kind = "write" /\ call.len >= 1 /\ call.at + call.len - 1 \in Cells /\ writes >= 1
    BY <1>1 DEF TypeInv, CallInv
  <2>2. IF done' < call.len THEN stage' = "page" ELSE stage' = "verify"
    BY SentWithin DEF ProgramPage
  <2>3. Piece \in 1 .. (call.len - done) /\ done \in Nat /\ call.len \in 0 .. MaxLen
    BY <1>1, SentJobType
  <2>4. stage' = "verify" => done' = call.len
    BY <2>2, <2>3, SentWithin, ChipAssumption
  <2> QED BY <1>4, <1>5, <2>1, <2>2, <2>4, SentWithin DEF CallInv
<1> QED BY <1>2, <1>6, <1>7 DEF TypeInv

LEMMA TypeErase ==
  ASSUME TypeInv, EraseSector PROVE TypeInv'
<1>1. pc = "act" /\ stage = "erase" /\ call \in Call
  BY DEF EraseSector, TypeInv, TypeOK
<1>2. \/ busy' = TRUE /\ job' = [c \in SectorOf(call.at) |-> Blank] /\ UNCHANGED call
      \/ call' = [call EXCEPT !.obeyed = FALSE] /\ UNCHANGED <<busy, job>>
  BY DEF EraseSector, Obeyed
<1>3. call' \in Call /\ call'.kind = call.kind /\ call'.at = call.at /\ call'.len = call.len
  BY <1>1, <1>2 DEF Call
<1>4. DOMAIN job' \subseteq Cells /\ JobInv'
  BY <1>2 DEF TypeInv, TypeOK, JobInv, SectorOf
<1>5. busy' \in BOOLEAN
  BY <1>2 DEF TypeInv, TypeOK
<1>6. /\ pc' = "poll" /\ stage' = "wait"
      /\ UNCHANGED <<result, done, status, streaming, wel, cells, writes, faults, resets>>
  BY DEF EraseSector, bounds
<1>7. TypeOK'
  BY <1>3, <1>4, <1>5, <1>6 DEF TypeInv, TypeOK, Stages
<1>8. CallInv'
  BY <1>1, <1>3, <1>6 DEF TypeInv, CallInv
<1> QED BY <1>4, <1>7, <1>8 DEF TypeInv

\* The steps that leave the chip's cells and its job alone.
Quiet == BeginReady \/ CheckBlank \/ Verify \/ EraseDone \/ ReadData

LEMMA TypeQuiet ==
  ASSUME TypeInv, Quiet PROVE TypeInv'
<1>1. UNCHANGED <<call, done, status, busy, wel, job, cells, writes, faults, resets>>
  BY DEF Quiet, BeginReady, CheckBlank, Verify, EraseDone, ReadData, Goto, Return, chip, bounds
<1>2. \/ pc' = "idle" /\ stage' = stage /\ result' \in BOOLEAN
      \/ pc' = "poll" /\ stage = "sfdp" /\ stage' = "jedec" /\ result' = result
      \/ pc' = "poll" /\ stage = "prep" /\ stage' = "page" /\ result' = result
  BY DEF Quiet, BeginReady, CheckBlank, Verify, EraseDone, ReadData, Goto, Return
<1>3. streaming' \in BOOLEAN
  BY DEF Quiet, BeginReady, CheckBlank, Verify, EraseDone, ReadData, chip, TypeInv, TypeOK
<1>4. pc = "act"
  BY DEF Quiet, BeginReady, CheckBlank, Verify, EraseDone, ReadData
<1>5. result' \in BOOLEAN /\ pc' \in {"idle", "poll"} /\ stage' \in Stages
  BY <1>2 DEF TypeInv, TypeOK, Stages
<1>6. TypeOK'
  BY <1>1, <1>3, <1>5 DEF TypeInv, TypeOK
<1>7. CallInv'
  <2>1. CASE pc' = "idle"
    BY <1>1, <2>1 DEF TypeInv, CallInv
  <2>2. CASE pc' = "poll" /\ stage' = "jedec" /\ stage = "sfdp"
    BY <1>1, <1>4, <2>2 DEF TypeInv, CallInv
  <2>3. CASE pc' = "poll" /\ stage' = "page" /\ stage = "prep"
    <3>1. done = 0 /\ call.kind = "write" /\ call.len >= 1
      BY <1>4, <2>3 DEF TypeInv, CallInv
    <3>2. call.len \in 0 .. MaxLen
      BY DEF TypeInv, TypeOK, Call
    <3>3. done' < call'.len
      BY <1>1, <3>1, <3>2, ChipAssumption
    <3> QED BY <1>1, <2>3, <3>1, <3>3 DEF TypeInv, CallInv
  <2> QED BY <1>2, <2>1, <2>2, <2>3
<1>8. JobInv'
  BY <1>1 DEF TypeInv, JobInv
<1> QED BY <1>6, <1>7, <1>8 DEF TypeInv

LEMMA TypeChipReady ==
  ASSUME TypeInv, ChipReady PROVE TypeInv'
<1>1. cells' \in [Cells -> Data \union {Blank, Torn}]
  BY ChangedType DEF ChipReady
<1>2. faults' \in 0 .. MaxFaults
  BY ChipAssumption DEF ChipReady, Fault, TypeInv, TypeOK
<1>3. busy' = FALSE /\ wel' = FALSE /\ job' = NoJob
  BY DEF ChipReady
<1>4. UNCHANGED <<pc, stage, call, result, done, status, streaming, writes, resets>>
  BY DEF ChipReady, driver
<1>5. DOMAIN job' \subseteq Cells /\ JobInv'
  BY <1>3 DEF NoJob, JobInv
<1>6. TypeOK'
  BY <1>1, <1>2, <1>3, <1>4, <1>5 DEF TypeInv, TypeOK
<1>7. CallInv'
  BY <1>4 DEF TypeInv, CallInv
<1> QED BY <1>5, <1>6, <1>7 DEF TypeInv

\* What a reset does to the driver.
LEMMA Restarted ==
  ASSUME TypeInv, Reset \/ PowerCut
  PROVE  /\ pc' = "poll" /\ stage' = "sfdp" /\ call' = Begin /\ done' = 0
         /\ UNCHANGED <<writes, faults>> /\ resets' \in 0 .. MaxResets
<1>1. resets' \in 0 .. MaxResets
  BY ChipAssumption DEF Reset, PowerCut, TypeInv, TypeOK
<1> QED BY <1>1 DEF Reset, PowerCut

LEMMA TypeRestart ==
  ASSUME TypeInv, Reset \/ PowerCut PROVE TypeInv'
<1>1. cells' \in [Cells -> Data \union {Blank, Torn}]
  <2>1. CASE Reset
    BY <2>1 DEF Reset, TypeInv, TypeOK
  <2>2. CASE PowerCut
    <3>1. PICK S, T \in SUBSET DOMAIN job :
            cells' = [c \in Cells |-> IF c \in S THEN cells[c] ELSE Changed(T)[c]]
      BY <2>2 DEF PowerCut
    <3>2. Changed(T) \in [Cells -> Data \union {Blank, Torn}]
      BY ChangedType
    <3> QED BY <3>1, <3>2 DEF TypeInv, TypeOK
  <2> QED BY <2>1, <2>2
<1>2. \/ UNCHANGED <<busy, wel, job>>
      \/ busy' = FALSE /\ wel' = FALSE /\ job' = NoJob
  BY DEF Reset, PowerCut
<1>3. DOMAIN job' \subseteq Cells /\ JobInv'
  BY <1>2 DEF NoJob, JobInv, TypeInv, TypeOK
<1>4. busy' \in BOOLEAN /\ wel' \in BOOLEAN
  BY <1>2 DEF TypeInv, TypeOK
<1>5. Begin \in Call
  BY CellsNat, ChipAssumption DEF Begin, Call, Kinds
<1>6. TypeOK'
  <2>1. result' \in BOOLEAN /\ status' \in [busy : BOOLEAN, wel : BOOLEAN] /\ streaming' \in BOOLEAN
    <3>1. status' = [busy |-> FALSE, wel |-> FALSE]
      BY DEF Reset, PowerCut
    <3>2. result' \in BOOLEAN /\ streaming' \in BOOLEAN
      BY DEF Reset, PowerCut
    <3> QED BY <3>1, <3>2
  <2>2. pc' = "poll" /\ stage' \in Stages /\ call' \in Call
    BY <1>5, Restarted DEF Stages
  <2>3. done' \in 0 .. MaxLen
    BY Restarted, ChipAssumption
  <2>4. writes' \in 0 .. MaxWrites /\ faults' \in 0 .. MaxFaults /\ resets' \in 0 .. MaxResets
    BY Restarted DEF TypeInv, TypeOK
  <2> QED BY <1>1, <1>3, <1>4, <2>1, <2>2, <2>3, <2>4 DEF TypeOK
<1>7. CallInv'
  BY Restarted DEF Begin, CallInv
<1> QED BY <1>3, <1>6, <1>7 DEF TypeInv

LEMMA FlashTypeStep == TypeInv /\ [Next]_vars => TypeInv'
<1> SUFFICES ASSUME TypeInv, [Next]_vars PROVE TypeInv'
  OBVIOUS
<1>1. CASE UNCHANGED vars
  BY <1>1 DEF vars, driver, chip, bounds, TypeInv, TypeOK, CallInv, JobInv
<1>2. CASE Step
  BY <1>2, TypePoll, TypeProgram, TypeErase, TypeQuiet DEF Step, Quiet
<1> QED BY <1>1, <1>2, TypeEnter, TypeChipReady, TypeRestart DEF Next

\* The driver and the chip stay well formed: a write of any length starting
\* anywhere only ever has data of its own buffer sent to cells of the chip.
THEOREM FlashTyped == Spec => []TypeOK
<1>1. TypeInv => TypeOK
  BY DEF TypeInv
<1>2. Spec => []TypeInv
  BY FlashTypeInit, FlashTypeStep, PTL DEF Spec
<1> QED BY <1>1, <1>2, PTL

-----------------------------------------------------------------------------
(* What the driver knows of the chip *)

LEMMA FlashReadyInit == Init => ReadyInv /\ LatchInv /\ PagesInv /\ WriteVerified
BY DEF Init, Begin, ReadyInv, LatchInv, PagesInv, WriteVerified

\* A ready status that the chip itself has sent says that the chip is idle.
LEMMA ReadyPoll ==
  ASSUME TypeInv, ReadyInv, Poll \/ PollTimeout \/ BeginFails
  PROVE  ReadyInv'
<1>1. CASE Poll
  <2>1. pc = "poll" /\ streaming' = FALSE /\ UNCHANGED <<stage, result, busy>>
    BY <1>1 DEF Poll
  <2>2. pc' \in {"poll", "enable", "act"}
    BY <1>1 DEF Poll, AfterPoll
  <2>3. pc' = "enable" => stage \in {"prep", "page", "erase"}
    BY <1>1 DEF Poll, AfterPoll
  <2>4. pc' \in {"enable", "act"} /\ stage # "sfdp" => ~busy
    <3> SUFFICES ASSUME pc' \in {"enable", "act"}, stage # "sfdp", busy PROVE FALSE
      OBVIOUS
    <3>1. ~streaming
      BY <2>1 DEF ReadyInv
    <3>2. status' = [busy |-> busy, wel |-> wel]
      BY <1>1, <3>1 DEF Poll, StatusRead
    <3>3. ~status'.busy
      BY <1>1 DEF Poll, Ready
    <3> QED BY <3>2, <3>3
  <2> QED BY <2>1, <2>2, <2>3, <2>4 DEF ReadyInv
<1>2. CASE PollTimeout
  <2>1. /\ pc = "poll" /\ UNCHANGED busy
        /\ streaming' = (stage = "jedec")
    BY <1>2 DEF PollTimeout
  <2>2. \/ stage = "sfdp" /\ stage' = "jedec" /\ pc' = "poll"
        \/ stage = "jedec" /\ stage' = "sfdp" /\ pc' = "poll"
        \/ stage \notin {"sfdp", "jedec"} /\ stage' = stage /\ pc' = "idle" /\ ~result'
    BY <1>2 DEF PollTimeout, Goto, Return
  <2> QED BY <2>1, <2>2 DEF ReadyInv
<1>3. CASE BeginFails
  BY <1>3 DEF BeginFails, Goto, ReadyInv
<1> QED BY <1>1, <1>2, <1>3

LEMMA ReadyStep ==
  ASSUME TypeInv, ReadyInv, [Next]_vars PROVE ReadyInv'
<1>1. CASE UNCHANGED vars
  BY <1>1 DEF vars, driver, chip, ReadyInv
<1>2. CASE Calls
  <2>1. /\ pc = "idle" /\ pc' = "poll" /\ UNCHANGED <<streaming, busy>>
        /\ stage' \in {"prep", "erase", "read"}
    BY <1>2 DEF Calls, CallWrite, CallErase, CallRead, Enter, chip
  <2> QED BY <2>1 DEF ReadyInv
<1>3. CASE Enable \/ EnableTimeout
  <2>1. /\ pc = "enable" /\ UNCHANGED <<stage, streaming, busy>>
        /\ \/ pc' = "act"
           \/ pc' = "idle" /\ ~result'
    BY <1>3 DEF Enable, EnableTimeout, Return, chip
  <2> QED BY <2>1 DEF ReadyInv
<1>4. CASE ProgramPage \/ EraseSector
  <2>1. /\ pc = "act" /\ stage \in {"page", "erase"} /\ pc' = "poll"
        /\ stage' \in {"page", "verify", "wait"} /\ UNCHANGED streaming
    BY <1>4 DEF ProgramPage, EraseSector
  <2> QED BY <2>1 DEF ReadyInv
<1>5. CASE Quiet
  <2>1. pc = "act" /\ UNCHANGED busy /\ (stage = "sfdp" => streaming' = streaming /\ pc' = "poll")
    BY <1>5 DEF Quiet, BeginReady, CheckBlank, Verify, EraseDone, ReadData, Goto, chip
  <2>2. \/ pc' = "idle" /\ stage' = stage /\ (streaming' = streaming \/ ~result')
        \/ pc' = "poll" /\ stage' \in {"jedec", "page"} /\ streaming' = streaming
    BY <1>5 DEF Quiet, BeginReady, CheckBlank, Verify, EraseDone, ReadData, Goto, Return, chip
  <2> QED BY <2>1, <2>2 DEF ReadyInv
<1>6. CASE ChipReady
  <2>1. busy' = FALSE /\ UNCHANGED <<pc, stage, result, streaming>>
    BY <1>6 DEF ChipReady, driver
  <2> QED BY <2>1 DEF ReadyInv
<1>7. CASE Reset \/ PowerCut
  BY <1>7, Restarted DEF ReadyInv
<1> QED BY <1>1, <1>2, <1>3, <1>4, <1>5, <1>6, <1>7, ReadyPoll DEF Next, Step, Quiet

-----------------------------------------------------------------------------
(* The latch of an erase *)

LEMMA LatchStep ==
  ASSUME TypeInv, ReadyInv, LatchInv, [Next]_vars PROVE LatchInv'
<1>1. CASE UNCHANGED vars
  BY <1>1 DEF vars, driver, chip, LatchInv
<1>2. CASE Calls
  <2>1. pc' = "poll" /\ streaming' = streaming /\ call'.stale = streaming /\ call'.obeyed
    BY <1>2 DEF Calls, CallWrite, CallErase, CallRead, Enter, chip
  <2> QED BY <2>1 DEF LatchInv
<1>3. CASE Poll
  <2> SUFFICES ASSUME call.kind = "erase", ~call.stale
      PROVE  pc' = "enable" /\ status'.wel => wel
    <3>1. UNCHANGED <<call, wel, stage>> /\ streaming' = FALSE
      BY <1>3 DEF Poll
    <3>2. pc' = "act" => stage # "erase"
      BY <1>3 DEF Poll, AfterPoll
    <3> QED BY <3>1, <3>2 DEF LatchInv
  <2>1. status' = [busy |-> busy, wel |-> wel]
    BY <1>3 DEF Poll, StatusRead, LatchInv
  <2> QED BY <2>1
<1>11. CASE BeginFails
  <2>1. call' = call /\ call.kind = "begin"
    BY <1>11 DEF BeginFails, Goto, TypeInv, CallInv
  <2> QED BY <2>1 DEF LatchInv
<1>4. CASE PollTimeout
  <2>1. /\ UNCHANGED call /\ pc = "poll"
        /\ stage \in {"erase", "wait"} => pc' = "idle"
        /\ stage \in {"sfdp", "jedec"} => call.kind = "begin"
        /\ pc' \in {"poll", "idle"} /\ (pc' = "poll" => stage \in {"sfdp", "jedec"})
    BY <1>4 DEF PollTimeout, Goto, Return, TypeInv, CallInv
  <2> QED BY <2>1 DEF LatchInv
<1>5. CASE Enable \/ EnableTimeout
  <2>1. /\ UNCHANGED <<call, stage>> /\ pc = "enable"
        /\ \/ pc' = "idle"
           \/ pc' = "act" /\ (IF status.wel THEN wel' = wel ELSE wel' = TRUE)
    BY <1>5 DEF Enable, EnableTimeout, Return
  <2> QED BY <2>1 DEF LatchInv
<1>6. CASE ProgramPage
  <2>1. call'.kind = call.kind /\ call.kind = "write"
    BY <1>6, SentWithin DEF ProgramPage, TypeInv, CallInv
  <2> QED BY <2>1 DEF LatchInv
<1>7. CASE EraseSector
  <2>1. pc = "act" /\ stage = "erase" /\ pc' = "poll" /\ streaming' = streaming
    BY <1>7 DEF EraseSector
  <2>2. ~busy /\ ~streaming /\ call.kind = "erase"
    BY <2>1 DEF ReadyInv, TypeInv, CallInv
  <2>3. CASE wel
    <3>1. call' = call
      BY <1>7, <2>2, <2>3 DEF EraseSector, Obeyed
    <3> QED BY <2>1, <2>2, <3>1 DEF LatchInv
  <2>4. CASE ~wel
    <3>1. call.stale
      BY <2>1, <2>2, <2>4 DEF LatchInv
    <3>2. call' = [call EXCEPT !.obeyed = FALSE]
      BY <1>7, <2>4 DEF EraseSector, Obeyed
    <3>3. call'.stale
      BY <3>1, <3>2 DEF TypeInv, TypeOK, Call
    <3> QED BY <3>3 DEF LatchInv
  <2> QED BY <2>3, <2>4
<1>8. CASE Quiet
  <2>1. /\ UNCHANGED call
        /\ pc' = "idle" \/ (pc' = "poll" /\ call.kind # "erase")
    BY <1>8 DEF Quiet, BeginReady, CheckBlank, Verify, EraseDone, ReadData, Goto, Return,
                TypeInv, CallInv
  <2> QED BY <2>1 DEF LatchInv
<1>9. CASE ChipReady
  <2>1. busy /\ UNCHANGED <<pc, stage, call, status, streaming>>
    BY <1>9 DEF ChipReady, driver
  <2>2. call.kind = "erase" => pc \in {"poll", "idle"}
    BY <2>1 DEF ReadyInv, TypeInv, TypeOK, CallInv
  <2> QED BY <2>1, <2>2 DEF LatchInv
<1>10. CASE Reset \/ PowerCut
  <2>1. call'.kind = "begin"
    BY <1>10, Restarted DEF Begin
  <2> QED BY <2>1 DEF LatchInv
<1> QED BY <1>1, <1>2, <1>3, <1>4, <1>5, <1>6, <1>7, <1>8, <1>9, <1>10, <1>11 DEF Next, Step, Quiet

-----------------------------------------------------------------------------
(* The cells of a write *)

LEMMA PagesProgram ==
  ASSUME TypeInv, ReadyInv, PagesInv, ProgramPage PROVE PagesInv'
<1>1. pc = "act" /\ stage = "page" /\ cells' = cells
  BY DEF ProgramPage
<1>2. ~busy
  BY <1>1 DEF ReadyInv
<1>3. \A c \in (call.at + done) .. (call.at + call.len - 1) : cells[c] = Blank
  BY <1>1 DEF PagesInv
<1>4. /\ Piece \in 1 .. (call.len - done) /\ call.at \in Nat
      /\ call.len \in 0 .. MaxLen /\ done \in Nat
      /\ DOMAIN SentJob \subseteq (call.at + done) .. (call.at + done + Piece - 1)
  BY <1>1, SentJobType
<1>5. /\ call'.at = call.at /\ call'.len = call.len /\ done' = done + Piece
      /\ busy' => job' = SentJob
  <2>1. call'.at = call.at /\ call'.len = call.len /\ done' = done + Piece
    BY SentWithin
  <2>2. job' = SentJob \/ busy' = busy
    BY SentWithin
  <2> QED BY <1>2, <2>1, <2>2
<1>6. \A c \in (call.at + done') .. (call.at + call.len - 1) : cells[c] = Blank
  BY <1>3, <1>4, <1>5, ChipAssumption
<1>7. ASSUME NEW c \in DOMAIN SentJob
      PROVE  c \in call.at .. (call.at + done' - 1) /\ cells[c] = Blank
  <2>1. c \in (call.at + done) .. (call.at + done + Piece - 1)
    BY <1>4
  <2>2. /\ c \in call.at .. (call.at + done' - 1)
        /\ c \in (call.at + done) .. (call.at + call.len - 1)
    BY <1>4, <1>5, <2>1, ChipAssumption
  <2> QED BY <1>3, <2>2
<1> QED BY <1>1, <1>5, <1>6, <1>7 DEF PagesInv

LEMMA PagesChip ==
  ASSUME TypeInv, ReadyInv, PagesInv, ChipReady PROVE PagesInv'
<1> SUFFICES ASSUME pc # "idle", stage \in {"page", "verify"},
                    NEW c \in (call.at + done) .. (call.at + call.len - 1)
             PROVE  cells'[c] = Blank
  <2>1. UNCHANGED <<pc, stage, call, done>> /\ ~busy'
    BY DEF ChipReady, driver
  <2> QED BY <2>1 DEF PagesInv
<1>1. busy
  BY DEF ChipReady
<1>2. DOMAIN job \subseteq call.at .. (call.at + done - 1) /\ cells[c] = Blank
  BY <1>1 DEF PagesInv
<1>3. call \in Call /\ done \in 0 .. MaxLen /\ call.kind = "write"
  BY DEF TypeInv, TypeOK, CallInv
<1>4. /\ call.at \in Cells /\ call.at \in Nat /\ call.len \in 0 .. MaxLen
      /\ call.at + call.len - 1 \in Cells
  BY <1>3, CellsNat DEF TypeInv, CallInv, Call
<1>5. c \in call.at .. (call.at + call.len - 1) /\ c \notin DOMAIN job
  BY <1>2, <1>3, <1>4, ChipAssumption
<1>6. c \in Cells
  BY <1>4, <1>5, CellsBetween
<1>7. \E S : cells' = Changed(S)
  BY DEF ChipReady
<1> QED BY <1>2, <1>5, <1>6, <1>7 DEF Changed

LEMMA PagesStep ==
  ASSUME TypeInv, ReadyInv, PagesInv, [Next]_vars PROVE PagesInv'
<1>1. CASE UNCHANGED vars
  BY <1>1 DEF vars, driver, chip, PagesInv
<1>2. CASE Calls
  <2>1. stage' \in {"prep", "erase", "read"}
    BY <1>2 DEF Calls, CallWrite, CallErase, CallRead, Enter
  <2> QED BY <2>1 DEF PagesInv
<1>3. CASE Poll \/ PollTimeout \/ Enable \/ EnableTimeout \/ BeginFails
  <2>1. /\ UNCHANGED <<call, done, busy, job, cells>>
        /\ pc # "idle"
        /\ stage' = stage \/ stage' \in {"sfdp", "jedec"}
    BY <1>3 DEF Poll, PollTimeout, Enable, EnableTimeout, BeginFails, Goto, Return, chip
  <2> QED BY <2>1 DEF PagesInv
<1>4. CASE CheckBlank
  <2>1. pc = "act" /\ stage = "prep" /\ UNCHANGED <<call, done, busy, job, cells>>
    BY <1>4 DEF CheckBlank, Goto, Return, chip
  <2>2. ~busy /\ done = 0
    BY <2>1 DEF ReadyInv, TypeInv, CallInv
  <2>3. call.at \in Nat
    BY CellsNat DEF TypeInv, TypeOK, Call
  <2>4. CASE \A c \in Region(call) : cells[c] = Blank
    <3>1. \A c \in (call.at + done) .. (call.at + call.len - 1) : cells[c] = Blank
      BY <2>2, <2>3, <2>4 DEF Region
    <3> QED BY <2>1, <2>2, <3>1 DEF PagesInv
  <2>5. CASE pc' = "idle"
    BY <2>5 DEF PagesInv
  <2> QED BY <1>4, <2>4, <2>5 DEF CheckBlank, Return
<1>5. CASE BeginReady \/ Verify \/ EraseDone \/ ReadData
  <2>1. pc' = "idle" \/ stage' = "jedec"
    BY <1>5 DEF BeginReady, Verify, EraseDone, ReadData, Goto, Return
  <2> QED BY <2>1 DEF PagesInv
<1>6. CASE EraseSector
  <2>1. stage' = "wait"
    BY <1>6 DEF EraseSector
  <2> QED BY <2>1 DEF PagesInv
<1>7. CASE Reset \/ PowerCut
  <2>1. stage' = "sfdp"
    BY <1>7, Restarted
  <2> QED BY <2>1 DEF PagesInv
<1> QED BY <1>1, <1>2, <1>3, <1>4, <1>5, <1>6, <1>7, PagesProgram, PagesChip DEF Next, Step

\* Nothing changes a chip whose driver is idle after a call that returned true.
LEMMA VerifiedStep ==
  ASSUME TypeInv, ReadyInv, WriteVerified, [Next]_vars PROVE WriteVerified'
<1>1. CASE UNCHANGED vars
  BY <1>1 DEF vars, driver, chip, bounds, WriteVerified
<1>2. CASE Verify
  <2>1. UNCHANGED <<call, cells, writes>>
    BY <1>2 DEF Verify, Return, bounds
  <2>2. CASE \A k \in 0 .. call.len - 1 : cells[call.at + k] = <<writes, k>>
    BY <2>1, <2>2 DEF WriteVerified
  <2>3. CASE ~ \A k \in 0 .. call.len - 1 : cells[call.at + k] = <<writes, k>>
    <3>1. ~result'
      BY <1>2, <2>3 DEF Verify, Return
    <3> QED BY <3>1 DEF WriteVerified
  <2> QED BY <2>2, <2>3
<1>3. CASE PollTimeout \/ EnableTimeout \/ CheckBlank
  <2>1. pc' = "poll" \/ ~result'
    BY <1>3 DEF PollTimeout, EnableTimeout, CheckBlank, Goto, Return
  <2> QED BY <2>1 DEF WriteVerified
<1>4. CASE BeginReady \/ BeginFails \/ EraseDone \/ ReadData
  <2>1. call' = call /\ call.kind # "write"
    BY <1>4 DEF BeginReady, BeginFails, EraseDone, ReadData, Goto, Return, TypeInv, CallInv
  <2> QED BY <2>1 DEF WriteVerified
<1>5. CASE Calls \/ Poll \/ Enable \/ ProgramPage \/ EraseSector
  <2>1. pc' # "idle"
    BY <1>5 DEF Calls, CallWrite, CallErase, CallRead, Enter, Poll, AfterPoll, Enable,
                ProgramPage, EraseSector
  <2> QED BY <2>1 DEF WriteVerified
<1>6. CASE ChipReady
  <2>1. busy /\ UNCHANGED <<pc, result>>
    BY <1>6 DEF ChipReady, driver
  <2>2. ~(pc = "idle" /\ result)
    BY <2>1 DEF ReadyInv
  <2> QED BY <2>1, <2>2 DEF WriteVerified
<1>7. CASE Reset \/ PowerCut
  <2>1. pc' # "idle"
    BY <1>7, Restarted
  <2> QED BY <2>1 DEF WriteVerified
<1> QED BY <1>1, <1>2, <1>3, <1>4, <1>5, <1>6, <1>7 DEF Next, Step

-----------------------------------------------------------------------------
(* The theorems *)

LEMMA FlashInvariant == Spec => []FlashInv
<1>1. Init => FlashInv
  BY FlashTypeInit, FlashReadyInit DEF FlashInv
<1>2. FlashInv /\ [Next]_vars => FlashInv'
  BY FlashTypeStep, ReadyStep, LatchStep, PagesStep, VerifiedStep DEF FlashInv
<1> QED BY <1>1, <1>2, PTL DEF Spec

\* writeByteArray returned true: the cells asked for hold the data for as long
\* as no other call or reset comes, for every page size and length of a write.
THEOREM WritesHold == Spec => []WriteVerified
<1>1. FlashInv => WriteVerified
  BY DEF FlashInv
<1> QED BY <1>1, FlashInvariant, PTL

\* The page arithmetic of writeByteArray never makes the chip program a cell
\* outside the write, nor one that holds data, whatever failed before.
THEOREM ProgramsBlank == Spec => []ProgramsOwnBlankCells
<1>1. FlashInv => ProgramsOwnBlankCells
  <2> SUFFICES ASSUME FlashInv, pc = "poll", stage \in {"page", "verify"}, busy
               PROVE  DOMAIN job \subseteq Region(call) /\ \A c \in DOMAIN job : cells[c] = Blank
    BY DEF ProgramsOwnBlankCells
  <2>1. /\ DOMAIN job \subseteq call.at .. (call.at + done - 1)
        /\ \A c \in DOMAIN job : cells[c] = Blank
    BY DEF FlashInv, PagesInv
  <2>2. call \in Call /\ done \in 0 .. MaxLen /\ done <= call.len
    <3>1. call \in Call /\ done \in 0 .. MaxLen
      BY DEF FlashInv, TypeInv, TypeOK
    <3>2. done < call.len \/ done = call.len
      BY DEF FlashInv, TypeInv, CallInv
    <3>3. call.len \in 0 .. MaxLen
      BY <3>1 DEF Call
    <3> QED BY <3>1, <3>2, <3>3, ChipAssumption
  <2>3. call.at \in Nat /\ call.len \in 0 .. MaxLen
    BY <2>2, CellsNat DEF Call
  <2>4. call.at .. (call.at + done - 1) \subseteq Region(call)
    BY <2>2, <2>3, ChipAssumption DEF Region
  <2> QED BY <2>1, <2>4
<1> QED BY <1>1, FlashInvariant, PTL

\* eraseSector returned true: the chip took the command, unless the call came
\* after a write that did not verify and left the chip selected.
THEOREM ErasesTaken == Spec => []ErasesObeyed
<1>1. FlashInv => ErasesObeyed
  BY DEF FlashInv, LatchInv, ErasesObeyed
<1> QED BY <1>1, FlashInvariant, PTL

\* A call of any kind that returned true has waited for the chip to finish.
THEOREM CallsWait == Spec => [](pc = "idle" /\ result => ~busy)
<1>1. FlashInv => (pc = "idle" /\ result => ~busy)
  BY DEF FlashInv, ReadyInv
<1> QED BY <1>1, FlashInvariant, PTL

-----------------------------------------------------------------------------
(* The driver implements FlashStore *)

\* What the mapping needs beyond FlashInv: an idle chip has no job, the job of a
\* write carries its data, and that of an erase has blanked or torn the sector
\* when it is over.
StoreInv ==
  /\ ~busy => job = NoJob
  /\ Writing => \A c \in DOMAIN job : job[c] = <<writes, c - call.at>>
  /\ pc # "idle" /\ stage = "erase" => call.obeyed
  /\ Erasing => IF busy THEN job = [c \in SectorOf(call.at) |-> Blank]
                ELSE \A c \in SectorOf(call.at) : cells[c] \in {Blank, Torn}

LEMMA StoreInvInit == Init => StoreInv
BY DEF Init, StoreInv, Writing, Erasing

\* The data a program command carries.
LEMMA SentData ==
  ASSUME TypeInv, pc = "act", stage = "page"
  PROVE  /\ DOMAIN SentJob = (call.at + done) .. (call.at + done + Piece - 1)
         /\ \A c \in DOMAIN SentJob : SentJob[c] = <<writes, c - call.at>>
<1>1. Piece \in 1 .. (call.len - done) /\ call.at \in Nat /\ call.len \in 0 .. MaxLen /\ done \in Nat
  BY SentJobType
<1>2. call.len \in Nat /\ done < call.len /\ Piece \in Nat
  BY <1>1, ChipAssumption DEF TypeInv, CallInv
<1>3. \A i \in 0 .. Piece - 1 : Placed(i) = call.at + done + i
  BY <1>1, <1>2, PieceInPage
<1>4. DOMAIN SentJob = {Placed(i) : i \in 0 .. Piece - 1}
  BY DEF SentJob
<1>5. ASSUME NEW c \in (call.at + done) .. (call.at + done + Piece - 1)
      PROVE  c \in DOMAIN SentJob
  <2>1. c - call.at - done \in 0 .. Piece - 1 /\ c = call.at + done + (c - call.at - done)
    BY <1>1, <1>2
  <2>2. Placed(c - call.at - done) = c
    BY <1>3, <2>1
  <2> QED BY <1>4, <2>1, <2>2
<1>6. ASSUME NEW c \in DOMAIN SentJob PROVE SentJob[c] = <<writes, c - call.at>>
  <2> DEFINE i == CHOOSE k \in 0 .. Piece - 1 : Placed(k) = c
  <2>1. \E k \in 0 .. Piece - 1 : Placed(k) = c
    BY <1>4
  <2>2. i \in 0 .. Piece - 1 /\ Placed(i) = c
    BY <2>1
  <2>3. SentJob[c] = <<writes, done + i>>
    BY <1>4 DEF SentJob
  <2> HIDE DEF i
  <2>4. done + i = c - call.at
    BY <1>1, <1>2, <1>3, <2>2
  <2> QED BY <2>3, <2>4
<1> QED BY <1>5, <1>6, SentJobType

LEMMA StoreInvStep ==
  ASSUME TypeInv, ReadyInv, StoreInv, [Next]_vars PROVE StoreInv'
<1>1. CASE UNCHANGED vars
  BY <1>1 DEF vars, driver, chip, bounds, StoreInv, Writing, Erasing
<1>2. CASE Calls
  <2>1. /\ stage' \in {"prep", "erase", "read"} /\ UNCHANGED <<busy, job>>
        /\ call'.obeyed
    BY <1>2 DEF Calls, CallWrite, CallErase, CallRead, Enter, chip
  <2> QED BY <2>1 DEF StoreInv, Writing, Erasing
<1>3. CASE Poll \/ Enable
  <2>1. pc # "idle" /\ UNCHANGED <<stage, call, busy, job, cells, writes>>
    BY <1>3 DEF Poll, Enable, bounds
  <2> QED BY <2>1 DEF StoreInv, Writing, Erasing
<1>4. CASE PollTimeout \/ EnableTimeout \/ BeginFails
  <2>1. /\ UNCHANGED <<busy, job, cells, writes>>
        /\ pc' = "idle" \/ stage' \in {"sfdp", "jedec"}
    BY <1>4 DEF PollTimeout, EnableTimeout, BeginFails, Goto, Return, chip
  <2> QED BY <2>1 DEF StoreInv, Writing, Erasing
<1>5. CASE Quiet
  <2>1. /\ UNCHANGED <<busy, job, cells, writes, call>>
        /\ pc' = "idle" \/ stage' = "jedec" \/ (pc = "act" /\ stage = "prep" /\ stage' = "page")
    BY <1>5 DEF Quiet, BeginReady, CheckBlank, Verify, EraseDone, ReadData, Goto, Return,
                chip, bounds
  <2>2. stage' = "page" /\ stage = "prep" /\ pc = "act" => DOMAIN job' = {}
    BY <2>1 DEF ReadyInv, StoreInv, NoJob
  <2> QED BY <2>1, <2>2 DEF StoreInv, Writing, Erasing
<1>6. CASE ProgramPage
  <2>1. pc = "act" /\ stage = "page" /\ stage' \in {"page", "verify"} /\ writes' = writes
    BY <1>6 DEF ProgramPage, bounds
  <2>2. ~busy /\ job = NoJob
    BY <2>1 DEF ReadyInv, StoreInv
  <2>3. call'.at = call.at /\ ((busy' = TRUE /\ job' = SentJob) \/ UNCHANGED <<busy, job>>)
    BY <1>6, SentWithin
  <2>4. \A c \in DOMAIN job' : job'[c] = <<writes', c - call'.at>>
    BY <2>1, <2>2, <2>3, SentData DEF NoJob
  <2>5. ~busy' => job' = NoJob
    BY <2>2, <2>3
  <2> QED BY <2>1, <2>4, <2>5 DEF StoreInv, Writing, Erasing
<1>7. CASE EraseSector
  <2>1. /\ pc = "act" /\ stage = "erase" /\ stage' = "wait"
        /\ \/ busy' = TRUE /\ job' = [c \in SectorOf(call.at) |-> Blank] /\ UNCHANGED call
           \/ call' = [call EXCEPT !.obeyed = FALSE] /\ UNCHANGED <<busy, job>>
    BY <1>7 DEF EraseSector, Obeyed
  <2>2. call \in Call
    BY DEF TypeInv, TypeOK
  <2>3. CASE busy' = TRUE /\ job' = [c \in SectorOf(call.at) |-> Blank] /\ UNCHANGED call
    BY <2>1, <2>3 DEF StoreInv, Writing, Erasing
  <2>4. CASE call' = [call EXCEPT !.obeyed = FALSE] /\ UNCHANGED <<busy, job>>
    <3>1. ~call'.obeyed
      BY <2>2, <2>4 DEF Call
    <3> QED BY <2>1, <2>4, <3>1 DEF StoreInv, Writing, Erasing
  <2> QED BY <2>1, <2>3, <2>4
<1>8. CASE ChipReady
  <2>1. /\ busy /\ ~busy' /\ job' = NoJob /\ UNCHANGED <<pc, stage, call, writes>>
        /\ \E S : cells' = Changed(S)
    BY <1>8 DEF ChipReady, driver
  <2>2. ASSUME Erasing, NEW c \in SectorOf(call.at) PROVE cells'[c] \in {Blank, Torn}
    <3>1. job = [d \in SectorOf(call.at) |-> Blank] /\ c \in Cells
      BY <2>1, <2>2 DEF StoreInv, SectorOf
    <3> QED BY <2>1, <2>2, <3>1 DEF Changed
  <2>3. DOMAIN job' = {}
    BY <2>1 DEF NoJob
  <2>4. Erasing' => Erasing
    BY <2>1 DEF Erasing
  <2> QED BY <2>1, <2>2, <2>3, <2>4 DEF StoreInv, Writing
<1>9. CASE Reset \/ PowerCut
  <2>1. stage' = "sfdp"
    BY <1>9, Restarted
  <2>2. ~busy' => job' = NoJob
    BY <1>9 DEF Reset, PowerCut, StoreInv
  <2> QED BY <2>1, <2>2 DEF StoreInv, Writing, Erasing
<1> QED BY <1>1, <1>2, <1>3, <1>4, <1>5, <1>6, <1>7, <1>8, <1>9 DEF Next, Step, Quiet

LEMMA OpenIs ==
  /\ DOMAIN Open = Unsent \union DOMAIN job
  /\ \A c \in DOMAIN Open : Open[c] = IF c \in Unsent THEN <<writes, c - call.at>> ELSE job[c]
BY DEF Open

\* A step after which what is open is what was open less T, and in which only
\* cells of T have changed.
LEMMA LandStep ==
  ASSUME NEW T \in SUBSET DOMAIN Open,
         cells' \in [Cells -> Data \union {Blank, Torn}],
         DOMAIN Open' = DOMAIN Open \ T,
         \A c \in DOMAIN Open' : Open'[c] = Open[c],
         \A c \in Cells : cells'[c] = cells[c] \/ (c \in T /\ cells'[c] \in {Open[c], Torn})
  PROVE  Store!Land(T)
<1>1. Open' = [c \in DOMAIN Open' |-> Open'[c]]
  BY DEF Open
<1>2. [c \in DOMAIN Open' |-> Open'[c]] = [c \in DOMAIN Open \ T |-> Open[c]]
  OBVIOUS
<1>3. Open' = [c \in DOMAIN Open \ T |-> Open[c]]
  BY <1>1, <1>2
<1> HIDE DEF Open
<1> QED BY <1>3 DEF Store!Land

LEMMA DeafBoolean == Deaf \in BOOLEAN /\ Deaf' \in BOOLEAN /\ (Deaf => Phase = "none")
BY DEF Deaf

\* Only a write that does not verify makes the chip deaf.
LEMMA NotDeafer ==
  ASSUME TypeInv, ReadyInv, Next, ~Verify PROVE Deaf' => Deaf
<1> SUFFICES ASSUME Deaf' PROVE Deaf
  OBVIOUS
<1>1. /\ Phase' = "none"
      /\ IF pc' = "idle" THEN streaming' ELSE call'.kind = "erase" /\ call'.stale
  BY DEF Deaf
<1>2. CASE Calls
  <2>1. pc = "idle" /\ pc' = "poll" /\ call'.stale = streaming
    BY <1>2 DEF Calls, CallWrite, CallErase, CallRead, Enter
  <2>2. streaming
    BY <1>1, <2>1
  <2>3. Phase = "none"
    BY <2>1, <2>2 DEF ReadyInv, Phase, Writing, Erasing, Confirmed
  <2> QED BY <2>1, <2>2, <2>3 DEF Deaf
<1>3. CASE Poll \/ Enable
  <2>1. pc # "idle" /\ pc' # "idle" /\ UNCHANGED <<call, stage>>
    BY <1>3 DEF Poll, AfterPoll, Enable
  <2>2. Phase = "none"
    BY <1>1, <2>1 DEF Phase, Writing, Erasing, Confirmed
  <2> QED BY <1>1, <2>1, <2>2 DEF Deaf
<1>4. CASE PollTimeout
  <2>1. CASE stage \in {"sfdp", "jedec"}
    <3>1. pc' = "poll" /\ call' = call /\ call.kind = "begin"
      BY <1>4, <2>1 DEF PollTimeout, Goto, TypeInv, CallInv
    <3> QED BY <1>1, <3>1
  <2>2. CASE stage \notin {"sfdp", "jedec"}
    <3>1. pc' = "idle" /\ ~streaming'
      BY <1>4, <2>2 DEF PollTimeout, Return
    <3> QED BY <1>1, <3>1
  <2> QED BY <2>1, <2>2
<1>5. CASE EnableTimeout
  <2>1. pc = "enable" /\ pc' = "idle" /\ streaming' = streaming
    BY <1>5 DEF EnableTimeout, Return
  <2> QED BY <1>1, <2>1 DEF ReadyInv
<1>6. CASE BeginReady \/ BeginFails
  <2>1. pc = "act" /\ call' = call /\ call.kind = "begin"
    BY <1>6 DEF BeginReady, BeginFails, Goto, Return, TypeInv, CallInv
  <2>2. pc' = "idle" => streaming' = streaming
    BY <1>6 DEF BeginReady, BeginFails, Goto, Return, chip
  <2> QED BY <1>1, <2>1, <2>2 DEF ReadyInv
<1>7. CASE CheckBlank \/ EraseDone \/ ReadData
  <2>1. /\ pc = "act" /\ UNCHANGED <<call, streaming>>
        /\ pc' = "idle" \/ call.kind = "write"
    BY <1>7 DEF CheckBlank, EraseDone, ReadData, Goto, Return, chip, TypeInv, CallInv
  <2> QED BY <1>1, <2>1 DEF ReadyInv
<1>8. CASE ProgramPage
  <2>1. pc' = "poll" /\ call'.kind = call.kind /\ call.kind = "write"
    BY <1>8, SentWithin DEF ProgramPage, TypeInv, CallInv
  <2> QED BY <1>1, <2>1
<1>9. CASE EraseSector
  <2>1. pc = "act" /\ stage = "erase" /\ pc' = "poll"
    BY <1>9 DEF EraseSector
  <2>2. call'.stale = call.stale /\ call.kind = "erase"
    BY <1>9 DEF EraseSector, Obeyed, TypeInv, TypeOK, CallInv, Call
  <2>3. Phase = "none"
    BY <2>1 DEF Phase, Writing, Erasing, Confirmed
  <2> QED BY <1>1, <2>1, <2>2, <2>3 DEF Deaf
<1>10. CASE ChipReady
  <2>1. UNCHANGED <<pc, stage, call, result, streaming>>
    BY <1>10 DEF ChipReady, driver
  <2>2. Phase = "none"
    BY <1>1, <2>1 DEF Phase, Writing, Erasing, Confirmed
  <2> QED BY <1>1, <2>1, <2>2 DEF Deaf
<1>11. CASE Reset \/ PowerCut
  <2>1. pc' = "poll" /\ call'.kind = "begin"
    BY <1>11 DEF Reset, PowerCut, Begin
  <2> QED BY <1>1, <2>1
<1> QED BY <1>2, <1>3, <1>4, <1>5, <1>6, <1>7, <1>8, <1>9, <1>10, <1>11 DEF Next, Step

\* A step that lands a part of what is open and leaves nothing under way.
LEMMA LeaveStep ==
  ASSUME NEW T \in SUBSET DOMAIN Open, Store!Land(T), Phase' = "none", Deaf' => Deaf
  PROVE  Store!StoreNext
<1>1. Goal' = NoJob /\ (Phase = "none" => Goal = NoJob)
  BY DEF Goal
<1>2. NoJob = Store!NoGoal
  BY DEF NoJob, Store!NoGoal
<1>3. CASE Phase = "none"
  <2>1. Deaf' \in {FALSE, Deaf}
    BY DeafBoolean
  <2> QED BY <1>1, <1>3, <2>1 DEF Store!StoreNext, Store!Progress
<1>4. CASE Phase # "none"
  <2>1. ~Deaf' /\ Deaf' \in BOOLEAN
    BY <1>4, DeafBoolean
  <2> QED BY <1>1, <1>2, <1>4, <2>1 DEF Store!StoreNext, Store!Leave
<1> QED BY <1>3, <1>4

\* A step that leaves the chip alone and after which no call is writing: the
\* cells that were not sent are given up.
LEMMA GiveUpLands ==
  ASSUME TypeInv, StoreInv, UNCHANGED <<job, cells>>, ~Writing'
  PROVE  \E T \in SUBSET DOMAIN Open : Store!Land(T)
<1> DEFINE T == Unsent \ DOMAIN job
<1>1. Unsent' = {}
  BY DEF Unsent
<1>2. DOMAIN Open' = DOMAIN job /\ \A c \in DOMAIN Open' : Open'[c] = job[c]
  BY <1>1 DEF Open
<1>3. DOMAIN Open = Unsent \union DOMAIN job
  BY OpenIs
<1>4. \A c \in DOMAIN job : Open[c] = job[c]
  BY <1>3, OpenIs DEF StoreInv, Unsent
<1>5. cells' \in [Cells -> Data \union {Blank, Torn}]
  BY DEF TypeInv, TypeOK
<1>6. T \in SUBSET DOMAIN Open /\ DOMAIN Open' = DOMAIN Open \ T
  BY <1>2, <1>3
<1>7. \A c \in DOMAIN Open' : Open'[c] = Open[c]
  BY <1>2, <1>4
<1>8. Store!Land(T)
  BY <1>5, <1>6, <1>7, LandStep
<1> QED BY <1>6, <1>8

LEMMA GiveUpStep ==
  ASSUME TypeInv, StoreInv, UNCHANGED <<job, cells>>, ~Writing', Phase' = "none", Deaf' => Deaf
  PROVE  Store!StoreNext
BY GiveUpLands, LeaveStep

\* A step that changes nothing the mapping looks at.
LEMMA SameStep ==
  ASSUME UNCHANGED <<job, cells>>, Writing' = Writing, Phase' = Phase, Deaf' = Deaf,
         Writing \/ Phase # "none" =>
           UNCHANGED <<writes, done>> /\ call'.at = call.at /\ call'.len = call.len /\ call'.kind = call.kind
  PROVE  UNCHANGED Store!storeVars
<1>1. Unsent' = Unsent
  BY DEF Unsent
<1>2. Open' = Open
  <2>1. CASE Writing
    BY <1>1, <2>1 DEF Open
  <2>2. CASE ~Writing
    <3>1. Unsent = {} /\ Unsent' = {}
      BY <1>1, <2>2 DEF Unsent
    <3> QED BY <3>1 DEF Open
  <2> QED BY <2>1, <2>2
<1>3. Goal' = Goal
  <2>1. CASE Phase = "none"
    BY <2>1 DEF Goal
  <2>2. CASE Phase # "none"
    <3>1. Region(call)' = Region(call) /\ SectorOf(call.at)' = SectorOf(call.at)
      BY <2>2 DEF Region, SectorOf
    <3>2. Meant' = Meant
      BY <2>2, <3>1 DEF Meant
    <3> QED BY <2>2, <3>2 DEF Goal
  <2> QED BY <2>1, <2>2
<1> QED BY <1>2, <1>3 DEF Store!storeVars

LEMMA NothingOpen ==
  ASSUME StoreInv, ~busy, Unsent = {} PROVE Open = Store!NoGoal
<1>1. Unsent \union DOMAIN job = {}
  BY DEF StoreInv, NoJob
<1> QED BY <1>1 DEF Open, Store!NoGoal

LEMMA CallNumbers ==
  ASSUME TypeInv
  PROVE  /\ call.at \in Cells /\ call.at \in Nat /\ call.len \in 0 .. MaxLen /\ call.len \in Nat
         /\ done \in Nat /\ writes \in Nat /\ writes \in 0 .. MaxWrites
<1>1. call \in Call /\ done \in 0 .. MaxLen /\ writes \in 0 .. MaxWrites
  BY DEF TypeInv, TypeOK
<1>2. call.at \in Cells /\ call.len \in 0 .. MaxLen
  BY <1>1 DEF Call
<1>3. call.at \in Nat
  BY <1>2, CellsNat
<1>4. call.len \in Nat /\ done \in Nat /\ writes \in Nat
  BY <1>1, <1>2, ChipAssumption
<1> QED BY <1>1, <1>2, <1>3, <1>4

\* A write whose cells were found blank is begun.
LEMMA StoreCheckBlank ==
  ASSUME TypeInv, ReadyInv, StoreInv, CheckBlank
  PROVE  Store!StoreNext
<1>0. Deaf' => Deaf
  <2>1. Next /\ ~Verify
    BY DEF Next, Step, CheckBlank, Verify
  <2> QED BY <2>1, NotDeafer
<1>1. /\ pc = "act" /\ stage = "prep"
      /\ UNCHANGED <<call, done, busy, job, cells, writes>>
  BY DEF CheckBlank, Goto, Return, chip, bounds
<1>2. CASE \A c \in Region(call) : cells[c] = Blank
  <2>1. pc' = "poll" /\ stage' = "page"
    BY <1>2 DEF CheckBlank, Goto
  <2>2. /\ call.kind = "write" /\ call.len >= 1 /\ call.at + call.len - 1 \in Cells
        /\ writes >= 1 /\ done = 0 /\ ~busy
    BY <1>1 DEF TypeInv, CallInv, ReadyInv
  <2>3. /\ call.at \in Cells /\ call.at \in Nat /\ call.len \in 0 .. MaxLen /\ call.len \in Nat
        /\ writes \in 1 .. MaxWrites
    <3>1. writes \in 1 .. MaxWrites
      BY <2>2, CallNumbers, ChipAssumption
    <3> QED BY <3>1, CallNumbers
  <2>4. Phase = "none" /\ Unsent = {}
    BY <1>1 DEF Phase, Writing, Erasing, Confirmed, Unsent
  <2>5. Phase' = "begun" /\ Unsent' = Region(call)
    <3>1. Writing'
      BY <2>1 DEF Writing
    <3>2. call.at + done = call.at
      BY <2>2, <2>3
    <3> QED BY <1>1, <3>1, <3>2 DEF Phase, Unsent, Region
  <2> DEFINE G == [c \in Region(call) |-> <<writes, c - call.at>>]
  <2>6. Goal' = G
    BY <1>1, <2>2, <2>5 DEF Goal, Meant, Region
  <2>7. Open' = G
    <3>1. DOMAIN job' = {}
      BY <1>1, <2>2 DEF StoreInv, NoJob
    <3> QED BY <1>1, <2>5, <3>1 DEF Open
  <2>8. G \in [call.at .. (call.at + call.len - 1) -> Data]
    <3>1. ASSUME NEW c \in call.at .. (call.at + call.len - 1) PROVE <<writes, c - call.at>> \in Data
      <4>1. c - call.at \in 0 .. MaxLen - 1
        BY <2>3, ChipAssumption
      <4> QED BY <2>3, <4>1 DEF Data
    <3> QED BY <3>1 DEF Region
  <2>9. Open = Store!NoGoal
    BY <2>2, <2>4, NothingOpen
  <2> HIDE DEF G
  <2>12. Deaf' = FALSE
    BY <2>5 DEF Deaf
  <2>10. Store!Begin
    BY <1>1, <2>4, <2>5, <2>6, <2>7, <2>9, <2>12 DEF Store!Begin
  <2>11. Store!BeginWrite
    BY <1>2, <2>2, <2>3, <2>6, <2>8, <2>10 DEF Store!BeginWrite, Region
  <2> QED BY <2>11 DEF Store!StoreNext
<1>3. CASE ~ \A c \in Region(call) : cells[c] = Blank
  <2>1. pc' = "idle" /\ ~result'
    BY <1>3 DEF CheckBlank, Return
  <2>2. ~Writing' /\ Phase' = "none"
    BY <2>1 DEF Writing, Erasing, Confirmed, Phase
  <2> QED BY <1>0, <1>1, <2>2, GiveUpStep
<1> QED BY <1>2, <1>3

\* A write that has been read back is confirmed.
LEMMA StoreVerify ==
  ASSUME TypeInv, ReadyInv, StoreInv, Verify
  PROVE  Store!StoreNext
<1>1. /\ pc = "act" /\ stage = "verify" /\ pc' = "idle"
      /\ UNCHANGED <<stage, call, done, busy, job, cells, writes>>
  BY DEF Verify, Return, bounds
<1>2. CASE \A k \in 0 .. call.len - 1 : cells[call.at + k] = <<writes, k>>
  <2>1. result'
    BY <1>2 DEF Verify, Return
  <2>2. call.kind = "write" /\ done = call.len /\ ~busy
    BY <1>1 DEF TypeInv, CallInv, ReadyInv
  <2>3. call.at \in Nat /\ call.len \in Nat
    BY CallNumbers
  <2>4. Phase = "begun" /\ Phase' = "confirmed" /\ ~Writing'
    BY <1>1, <2>1, <2>2 DEF Phase, Writing, Erasing, Confirmed
  <2>5. Unsent = {} /\ Unsent' = {}
    BY <2>2, <2>3, <2>4 DEF Unsent
  <2>6. Goal = [c \in Region(call) |-> <<writes, c - call.at>>] /\ Goal' = Goal
    BY <1>1, <2>2, <2>4 DEF Goal, Meant, Region
  <2>7. Open = Store!NoGoal
    BY <2>2, <2>5, NothingOpen
  <2>8. Open' = Open
    BY <1>1, <2>5 DEF Open
  <2>9. ASSUME NEW c \in DOMAIN Goal PROVE cells[c] = Goal[c]
    <3>1. c \in Region(call) /\ Goal[c] = <<writes, c - call.at>>
      BY <2>6
    <3>2. c - call.at \in 0 .. call.len - 1 /\ c = call.at + (c - call.at)
      BY <2>3, <3>1 DEF Region
    <3> QED BY <1>2, <3>1, <3>2
  <2>11. Deaf' = FALSE
    BY <2>4 DEF Deaf
  <2>10. Store!Confirm
    BY <1>1, <2>4, <2>6, <2>7, <2>8, <2>9, <2>11 DEF Store!Confirm
  <2> QED BY <2>10 DEF Store!StoreNext
<1>3. CASE ~ \A k \in 0 .. call.len - 1 : cells[call.at + k] = <<writes, k>>
  <2>1. ~result'
    BY <1>3 DEF Verify, Return
  <2>2. ~Writing' /\ Phase' = "none"
    BY <1>1, <2>1 DEF Writing, Erasing, Confirmed, Phase
  <2>3. Phase = "begun" /\ call.kind = "write"
    BY <1>1 DEF Phase, Writing, TypeInv, CallInv
  <2>4. \A c \in DOMAIN Goal : Goal[c] \in Data
    <3>1. Goal = [c \in Region(call) |-> <<writes, c - call.at>>]
      BY <2>3 DEF Goal, Meant
    <3>2. call.at \in Nat /\ call.len \in 1 .. MaxLen /\ writes \in 1 .. MaxWrites
      BY <2>3, CallNumbers, ChipAssumption DEF TypeInv, CallInv
    <3>3. ASSUME NEW c \in Region(call) PROVE <<writes, c - call.at>> \in Data
      <4>1. c - call.at \in 0 .. MaxLen - 1
        BY <3>2, ChipAssumption DEF Region
      <4> QED BY <3>2, <4>1 DEF Data
    <3> QED BY <3>1, <3>3
  <2>5. Goal' = Store!NoGoal
    BY <2>2 DEF Goal, NoJob, Store!NoGoal
  <2>6. \E T \in SUBSET DOMAIN Open : Store!Land(T)
    BY <1>1, <2>2, GiveUpLands
  <2>7. Deaf' \in BOOLEAN
    BY DeafBoolean
  <2>8. Store!Leave
    BY <2>2, <2>3, <2>4, <2>5, <2>6, <2>7 DEF Store!Leave
  <2> QED BY <2>8 DEF Store!StoreNext
<1> QED BY <1>2, <1>3

\* An erase is begun when the chip takes the command.
LEMMA StoreErase ==
  ASSUME TypeInv, ReadyInv, StoreInv, EraseSector
  PROVE  Store!StoreNext \/ UNCHANGED Store!storeVars
<1>1. /\ pc = "act" /\ stage = "erase" /\ pc' = "poll" /\ stage' = "wait" /\ cells' = cells
      /\ \/ busy' = TRUE /\ job' = [c \in SectorOf(call.at) |-> Blank] /\ UNCHANGED call
         \/ call' = [call EXCEPT !.obeyed = FALSE] /\ UNCHANGED <<busy, job>>
  BY DEF EraseSector, Obeyed
<1>2. /\ ~Writing /\ ~Writing' /\ Phase = "none" /\ Unsent = {} /\ Unsent' = {}
  BY <1>1 DEF Phase, Writing, Erasing, Confirmed, Unsent
<1>3. /\ call \in Call /\ call.kind = "erase" /\ call.obeyed /\ ~busy
  BY <1>1 DEF TypeInv, TypeOK, CallInv, ReadyInv, StoreInv
<1>4. CASE busy' = TRUE /\ job' = [c \in SectorOf(call.at) |-> Blank] /\ UNCHANGED call
  <2>1. Phase' = "begun"
    BY <1>1, <1>3, <1>4 DEF Phase, Erasing
  <2>2. Goal' = [c \in SectorOf(call.at) |-> Blank]
    BY <1>3, <1>4, <2>1 DEF Goal, Meant, SectorOf
  <2>3. Open' = [c \in SectorOf(call.at) |-> Blank]
    BY <1>2, <1>4 DEF Open
  <2>4. Open = Store!NoGoal
    BY <1>2, <1>3, NothingOpen
  <2>5. SectorOf(call.at) \in {SectorOf(c) : c \in Cells}
    BY <1>3 DEF Call
  <2>7. Deaf' = FALSE
    BY <2>1 DEF Deaf
  <2>6. Store!BeginErase
    BY <1>1, <1>2, <2>1, <2>2, <2>3, <2>4, <2>5, <2>7 DEF Store!BeginErase, Store!Begin
  <2> QED BY <2>6 DEF Store!StoreNext
<1>5. CASE call' = [call EXCEPT !.obeyed = FALSE] /\ UNCHANGED <<busy, job>>
  <2>1. ~call'.obeyed
    BY <1>3, <1>5 DEF Call
  <2>2. Phase' = "none"
    BY <1>1, <1>2, <2>1 DEF Phase, Erasing, Confirmed
  <2>3. Deaf' => Deaf
    <3>1. Next /\ ~Verify
      BY DEF Next, Step, EraseSector, Verify
    <3> QED BY <3>1, NotDeafer
  <2> QED BY <1>1, <1>2, <1>5, <2>2, <2>3, GiveUpStep
<1> QED BY <1>1, <1>4, <1>5

\* The end of an erase.
LEMMA StoreEraseDone ==
  ASSUME TypeInv, ReadyInv, LatchInv, StoreInv, EraseDone
  PROVE  Store!StoreNext
<1>1. /\ pc = "act" /\ stage = "wait" /\ pc' = "idle" /\ result'
      /\ UNCHANGED <<stage, call, done, busy, job, cells, writes>>
  BY DEF EraseDone, Return, chip, bounds
<1>2. call.kind = "erase" /\ ~busy
  BY <1>1 DEF TypeInv, CallInv, ReadyInv
<1>3. ~Writing /\ ~Writing' /\ Unsent = {} /\ Unsent' = {}
  BY <1>1 DEF Writing, Unsent
<1>4. CASE call.obeyed
  <2>1. Erasing /\ Phase = "begun" /\ Phase' = "confirmed"
    BY <1>1, <1>2, <1>3, <1>4 DEF Phase, Erasing, Confirmed
  <2>2. Goal = [c \in SectorOf(call.at) |-> Blank] /\ Goal' = Goal
    BY <1>1, <1>2, <2>1 DEF Goal, Meant, SectorOf
  <2>3. Open = Store!NoGoal
    BY <1>2, <1>3, NothingOpen
  <2>4. Open' = Open
    BY <1>1, <1>3 DEF Open
  <2>5. \A c \in DOMAIN Goal : Goal[c] = Blank /\ cells[c] \in {Blank, Torn}
    BY <1>2, <2>1, <2>2 DEF StoreInv
  <2>7. Deaf' = FALSE
    BY <2>1 DEF Deaf
  <2>6. Store!Confirm
    BY <1>1, <2>1, <2>2, <2>3, <2>4, <2>5, <2>7 DEF Store!Confirm
  <2> QED BY <2>6 DEF Store!StoreNext
<1>5. CASE ~call.obeyed
  <2>1. Phase = "none" /\ Phase' = "confirmed"
    BY <1>1, <1>2, <1>3, <1>5 DEF Phase, Erasing, Confirmed
  <2>2. Deaf /\ Deaf' = FALSE
    BY <1>1, <1>2, <1>5, <2>1 DEF LatchInv, Deaf
  <2>3. Goal' = [c \in SectorOf(call.at) |-> Blank]
    BY <1>1, <1>2, <2>1 DEF Goal, Meant, SectorOf
  <2>4. SectorOf(call.at) \in {SectorOf(c) : c \in Cells}
    BY CallNumbers
  <2>5. Open = Store!NoGoal
    BY <1>2, <1>3, NothingOpen
  <2>6. Open' = Open
    BY <1>1, <1>3 DEF Open
  <2>7. Store!IgnoreErase
    BY <1>1, <2>1, <2>2, <2>3, <2>4, <2>5, <2>6 DEF Store!IgnoreErase
  <2> QED BY <2>7 DEF Store!StoreNext
<1> QED BY <1>4, <1>5

\* A program command: the cells it sends are those that were to be sent next.
LEMMA StoreProgram ==
  ASSUME TypeInv, ReadyInv, StoreInv, ProgramPage
  PROVE  Store!StoreNext \/ UNCHANGED Store!storeVars
<1>1. /\ pc = "act" /\ stage = "page" /\ pc' = "poll" /\ stage' \in {"page", "verify"}
      /\ UNCHANGED <<result, cells, writes>>
  BY DEF ProgramPage, bounds
<1>2. /\ call'.kind = call.kind /\ call'.at = call.at /\ call'.len = call.len
      /\ done' = done + Piece
      /\ (busy' = TRUE /\ job' = SentJob) \/ UNCHANGED <<busy, job>>
  BY SentWithin
<1>3. ~busy /\ DOMAIN job = {}
  BY <1>1 DEF ReadyInv, StoreInv, NoJob
<1>4. Writing /\ Writing' /\ Phase = "begun" /\ Phase' = "begun"
  BY <1>1 DEF Writing, Phase
<1>5. Goal' = Goal
  <2>1. Region(call)' = Region(call) /\ SectorOf(call.at)' = SectorOf(call.at)
    BY <1>2 DEF Region, SectorOf
  <2> QED BY <1>1, <1>2, <1>4, <2>1 DEF Goal, Meant
<1> DEFINE first == call.at + done
           next == call.at + done + Piece
           last == call.at + call.len - 1
<1>6. /\ first \in Nat /\ next \in Nat /\ last \in Int /\ first < next /\ next <= last + 1
      /\ call.at + (done + Piece) = next
  <2>1. Piece \in 1 .. (call.len - done)
    BY <1>1, SentJobType
  <2> QED BY <2>1, CallNumbers
<1>7. Unsent = first .. last /\ Unsent' = next .. last
  BY <1>2, <1>4, <1>6 DEF Unsent
<1>8. DOMAIN Open = first .. last /\ \A c \in first .. last : Open[c] = <<writes, c - call.at>>
  BY <1>3, <1>7, OpenIs
<1>9. CASE job' = SentJob
  <2>1. DOMAIN SentJob = first .. (next - 1)
    <3>1. DOMAIN SentJob = (call.at + done) .. (call.at + done + Piece - 1)
      BY <1>1, SentData
    <3>2. (call.at + done + Piece - 1) = next - 1
      BY <1>1, SentJobType, CallNumbers
    <3> QED BY <3>1, <3>2
  <2>2. \A c \in DOMAIN SentJob : SentJob[c] = <<writes, c - call.at>>
    BY <1>1, SentData
  <2> HIDE DEF first, next, last
  <2>3. Unsent' \union DOMAIN job' = first .. last
    BY <1>6, <1>7, <1>9, <2>1
  <2>4. Open' = [c \in first .. last |-> <<writes, c - call.at>>]
    BY <1>1, <1>2, <1>9, <2>2, <2>3 DEF Open
  <2>5. Open = [c \in first .. last |-> <<writes, c - call.at>>]
    <3>1. Unsent \union DOMAIN job = first .. last
      BY <1>3, <1>7
    <3> QED BY <1>3, <1>7, <3>1 DEF Open
  <2>6. Deaf = FALSE /\ Deaf' = FALSE
    BY <1>4 DEF Deaf
  <2> QED BY <1>1, <1>4, <1>5, <2>4, <2>5, <2>6 DEF Store!storeVars
<1>10. CASE UNCHANGED <<busy, job>>
  <2> DEFINE T == first .. (next - 1)
  <2> HIDE DEF first, next, last
  <2>1. DOMAIN Open' = next .. last /\ \A c \in next .. last : Open'[c] = <<writes, c - call.at>>
    BY <1>1, <1>2, <1>3, <1>7, <1>10 DEF Open
  <2>2. T \in SUBSET DOMAIN Open /\ DOMAIN Open' = DOMAIN Open \ T
    BY <1>6, <1>8, <2>1
  <2>3. \A c \in DOMAIN Open' : Open'[c] = Open[c]
    BY <1>6, <1>8, <2>1
  <2>4. cells' \in [Cells -> Data \union {Blank, Torn}]
    BY <1>1 DEF TypeInv, TypeOK
  <2>5. Store!Land(T)
    BY <1>1, <2>2, <2>3, <2>4, LandStep
  <2>6. Deaf' = FALSE
    BY <1>4 DEF Deaf
  <2> HIDE DEF T
  <2> QED BY <1>4, <1>5, <2>2, <2>5, <2>6 DEF Store!StoreNext, Store!Progress
<1> QED BY <1>2, <1>9, <1>10

\* The chip finishes a job, of whichever call.
LEMMA StoreChipReady ==
  ASSUME TypeInv, PagesInv, StoreInv, ChipReady
  PROVE  Store!StoreNext
<1>1. /\ busy /\ DOMAIN job' = {}
      /\ UNCHANGED <<pc, stage, call, result, done, writes>>
      /\ \E S : cells' = Changed(S)
  BY DEF ChipReady, driver, NoJob
<1>2. PICK S : cells' = Changed(S)
  BY <1>1
<1>3. Unsent' = Unsent /\ Writing' = Writing /\ Phase' = Phase /\ Goal' = Goal
  BY <1>1 DEF Unsent, Writing, Erasing, Confirmed, Phase, Goal, Meant, Region, SectorOf
<1>4. Unsent \cap DOMAIN job = {}
  <2>1. CASE Writing
    <3>1. DOMAIN job \subseteq call.at .. (call.at + done - 1)
      BY <1>1, <2>1 DEF PagesInv, Writing
    <3>2. \A c \in Unsent : c >= call.at + done
      BY <2>1, CallNumbers DEF Unsent
    <3> QED BY <3>1, <3>2, CallNumbers
  <2>2. CASE ~Writing
    BY <2>2 DEF Unsent
  <2> QED BY <2>1, <2>2
<1>5. DOMAIN Open' = Unsent /\ \A c \in Unsent : Open'[c] = <<writes, c - call.at>>
  BY <1>1, <1>3 DEF Open
<1>6. /\ DOMAIN Open = Unsent \union DOMAIN job
      /\ \A c \in DOMAIN job : Open[c] = job[c]
      /\ \A c \in Unsent : Open[c] = <<writes, c - call.at>>
  BY <1>4, OpenIs
<1>7. cells' \in [Cells -> Data \union {Blank, Torn}]
  BY <1>2, ChangedType
<1>8. \A c \in Cells : cells'[c] = cells[c] \/ (c \in DOMAIN job /\ cells'[c] \in {Open[c], Torn})
  BY <1>2, <1>6 DEF Changed
<1>9. DOMAIN job \in SUBSET DOMAIN Open /\ DOMAIN Open' = DOMAIN Open \ DOMAIN job
  BY <1>4, <1>5, <1>6
<1>10. Store!Land(DOMAIN job)
  BY <1>5, <1>6, <1>7, <1>8, <1>9, LandStep
<1>11. Deaf' = Deaf
  <2>1. streaming' = streaming
    BY DEF ChipReady
  <2> QED BY <1>1, <1>3, <2>1 DEF Deaf
<1> QED BY <1>3, <1>9, <1>10, <1>11 DEF Store!StoreNext, Store!Progress

\* A power cut stops the job half way.
LEMMA StorePowerCut ==
  ASSUME TypeInv, ReadyInv, PagesInv, StoreInv, PowerCut
  PROVE  Store!StoreNext
<1>1. pc' = "poll" /\ stage' = "sfdp" /\ DOMAIN job' = {}
  BY DEF PowerCut, NoJob
<1>2. Unsent' = {} /\ Phase' = "none"
  BY <1>1 DEF Unsent, Writing, Erasing, Confirmed, Phase
<1>3. DOMAIN Open' = {}
  BY <1>1, <1>2 DEF Open
<1>4. PICK S, T \in SUBSET DOMAIN job :
        cells' = [c \in Cells |-> IF c \in S THEN cells[c] ELSE Changed(T)[c]]
  BY DEF PowerCut
<1>5. /\ DOMAIN Open = Unsent \union DOMAIN job
      /\ \A c \in DOMAIN job : Open[c] = job[c]
  BY OpenIs DEF StoreInv, Unsent
<1>6. Changed(T) \in [Cells -> Data \union {Blank, Torn}]
  BY ChangedType
<1>7. cells' \in [Cells -> Data \union {Blank, Torn}]
  BY <1>4, <1>6 DEF TypeInv, TypeOK
<1>8. \A c \in Cells : cells'[c] = cells[c] \/ (c \in DOMAIN Open /\ cells'[c] \in {Open[c], Torn})
  BY <1>4, <1>5 DEF Changed
<1>9. DOMAIN Open \in SUBSET DOMAIN Open /\ DOMAIN Open' = DOMAIN Open \ DOMAIN Open
  BY <1>3
<1>10. Store!Land(DOMAIN Open)
  BY <1>3, <1>7, <1>8, <1>9, LandStep
<1>11. Deaf' => Deaf
  <2>1. ~Deaf'
    BY <1>1 DEF PowerCut, Begin, Deaf
  <2> QED BY <2>1
<1> QED BY <1>2, <1>9, <1>10, <1>11, LeaveStep

LEMMA StoreStep ==
  ASSUME TypeInv, ReadyInv, LatchInv, PagesInv, StoreInv, [Next]_vars
  PROVE  [Store!StoreNext]_(Store!storeVars)
<1>1. CASE UNCHANGED vars
  <2>1. UNCHANGED <<pc, stage, call, result, done, streaming, job, cells, writes>>
    BY <1>1 DEF vars, driver, chip, bounds
  <2>2. Writing' = Writing /\ Phase' = Phase
    BY <2>1 DEF Writing, Erasing, Confirmed, Phase
  <2>3. Deaf' = Deaf
    BY <2>1, <2>2 DEF Deaf
  <2> QED BY <2>1, <2>2, <2>3, SameStep
<1>6. ASSUME Calls \/ PollTimeout \/ EnableTimeout \/ BeginReady \/ BeginFails \/ ReadData \/ Reset
      PROVE  Deaf' => Deaf
  <2>1. Next
    BY <1>6 DEF Next, Step
  <2>2. CASE Reset
    <3>1. pc' = "poll" /\ ~(call'.stale /\ call'.kind = "erase")
      BY <2>2 DEF Reset, Begin
    <3> QED BY <3>1 DEF Deaf
  <2>3. ~Verify \/ Reset
    BY <1>6 DEF Calls, CallWrite, CallErase, CallRead, Enter, PollTimeout, EnableTimeout, BeginReady,
                BeginFails, ReadData, Verify, Goto
  <2> QED BY <2>1, <2>2, <2>3, NotDeafer
<1>2. CASE Calls
  <2>1. pc' = "poll" /\ stage' \in {"prep", "erase", "read"} /\ UNCHANGED <<job, cells>>
    BY <1>2 DEF Calls, CallWrite, CallErase, CallRead, Enter, chip
  <2>2. ~Writing' /\ Phase' = "none"
    BY <2>1 DEF Writing, Erasing, Confirmed, Phase
  <2> QED BY <1>2, <1>6, <2>1, <2>2, GiveUpStep
<1>3. CASE Poll \/ Enable
  <2>1. /\ pc # "idle" /\ pc' # "idle"
        /\ UNCHANGED <<stage, call, result, done, job, cells, writes>>
    BY <1>3 DEF Poll, AfterPoll, Enable, bounds
  <2>2. Writing' = Writing /\ Phase' = Phase
    BY <2>1 DEF Writing, Erasing, Confirmed, Phase
  <2>3. Deaf' = Deaf
    BY <2>1, <2>2 DEF Deaf
  <2> QED BY <2>1, <2>2, <2>3, SameStep
<1>4. CASE PollTimeout \/ EnableTimeout \/ BeginReady \/ BeginFails \/ ReadData
  <2>1. /\ UNCHANGED <<job, cells, call>>
        /\ \/ pc' = "idle" /\ (~result' \/ call.kind \in {"begin", "read"})
           \/ pc' = "poll" /\ stage' \in {"sfdp", "jedec"}
    BY <1>4 DEF PollTimeout, EnableTimeout, BeginReady, BeginFails, ReadData, Goto, Return, chip,
                TypeInv, CallInv
  <2>2. ~Writing' /\ Phase' = "none"
    BY <2>1 DEF Writing, Erasing, Confirmed, Phase
  <2> QED BY <1>4, <1>6, <2>1, <2>2, GiveUpStep
<1>5. CASE Reset
  <2>1. pc' = "poll" /\ stage' = "sfdp" /\ UNCHANGED <<job, cells>>
    BY <1>5 DEF Reset
  <2>2. ~Writing' /\ Phase' = "none"
    BY <2>1 DEF Writing, Erasing, Confirmed, Phase
  <2> QED BY <1>5, <1>6, <2>1, <2>2, GiveUpStep
<1> QED
  BY <1>1, <1>2, <1>3, <1>4, <1>5, StoreCheckBlank, StoreProgram, StoreVerify, StoreErase,
     StoreEraseDone, StoreChipReady, StorePowerCut
  DEF Next, Step

LEMMA StoreStart == Init => Store!StoreInit
<1> SUFFICES ASSUME Init PROVE Store!StoreInit
  OBVIOUS
<1>1. pc = "poll" /\ stage = "sfdp" /\ job = NoJob /\ cells \in [Cells -> {Blank, Torn}]
  BY DEF Init
<1>2. Phase = "none" /\ Unsent = {}
  BY <1>1 DEF Phase, Writing, Erasing, Confirmed, Unsent
<1>3. Goal = Store!NoGoal
  BY <1>2 DEF Goal, NoJob, Store!NoGoal
<1>4. Open = Store!NoGoal
  <2>1. Unsent \union DOMAIN job = {}
    BY <1>1, <1>2 DEF NoJob
  <2> QED BY <2>1 DEF Open, Store!NoGoal
<1>5. Deaf = FALSE
  BY <1>1 DEF Init, Begin, Deaf
<1> QED BY <1>1, <1>2, <1>3, <1>4, <1>5 DEF Store!StoreInit

\* SPIFlash.cpp on its chip does what FlashStore says, for every page size,
\* sector size, chip size and length of a write, and for any number of faults,
\* resets and power cuts.
THEOREM DriverStores == Spec => ImplementsStore
<1>1. Init => StoreInv
  BY StoreInvInit
<1>2. FlashInv /\ StoreInv /\ [Next]_vars => StoreInv'
  BY StoreInvStep DEF FlashInv
<1>3. FlashInv /\ StoreInv /\ [Next]_vars => [Store!StoreNext]_(Store!storeVars)
  BY StoreStep DEF FlashInv
<1> QED
  BY <1>1, <1>2, <1>3, StoreStart, FlashInvariant, PTL
  DEF Spec, ImplementsStore, Store!StoreSpec

=============================================================================
