------------------------------- MODULE Logger -------------------------------
(***************************************************************************)
(* The store-and-forward core of the meter logger: src/main/main.cpp with  *)
(* the flash ring underneath.  One task runs setup() and then loop() for   *)
(* ever.  Each pass of the loop may take a reading and append it to the    *)
(* flash ring, may post a few stored records to the server, and may ask    *)
(* the server for a command.  The ring's two indices live in RAM and are   *)
(* saved, one after the other, in battery-backed NVRAM of the clock chip.  *)
(*                                                                         *)
(* A reset (watchdog, power, panic) can hit between any two steps and in   *)
(* the middle of a flash or NVRAM write.  The program counter pc names the *)
(* step the task executes next.                                            *)
(***************************************************************************)
EXTENDS FlashRing, FiniteSets

CONSTANTS NumRec,        \* records per reading: numMeter, or 1 for sensor and flow
          Kind,          \* what is read: "meter", "sensor" or "flow" (cfgG.type 1, 2, 3)
          MaxPost,       \* MAXPOST
          Batch,         \* the configured batch size, 0 for single posts
          ErrorMax,      \* FLASH_ERROR_MAX
          ByteWeights,   \* 256^k for the k bytes of an index already saved
          Garbage,       \* what the NVRAM may hold before its first use
          MaxSamples,    \* bound: readings taken in a behaviour
          MaxFaults,     \* bound: flash and I2C faults in a behaviour
          MaxResets      \* bound: unplanned resets in a behaviour

\* Records that fit into the posting buffer rBuff; a larger configured batch
\* would run past it and is outside the model.
MAXMETER == 21

ASSUME LoggerAssumption ==
  /\ NumRec \in 1 .. SectorRecs
  /\ Kind \in {"meter", "sensor", "flow"}
  /\ MaxPost \in Nat \ {0}
  /\ Batch \in 0 .. MAXMETER
  /\ ErrorMax \in 1 .. 255
  /\ ByteWeights \subseteq Nat \ {0}
  /\ Garbage \subseteq Nat
  /\ MaxSamples \in Nat
  /\ MaxFaults \in Nat
  /\ MaxResets \in Nat

\* A record is known by the reading it belongs to and its place in it.
Record == (1 .. MaxSamples) \X (0 .. NumRec - 1)

ASSUME BlankAssumption == Erased \notin Record /\ Torn \notin Record

Content == Record \union {Erased, Torn}

VARIABLES
  pc,         \* the step the task executes next
  age,        \* now - lastTime, against the interval and the posting window
  wIndex,     \* RAM copy of the index of the next record to write
  rIndex,     \* RAM copy of the index of the next record to post
  fErrorCnt,  \* failed flash writes in a row
  num,        \* records in the posting round under way
  sent,       \* records of that round answered with 200
  nvMark,     \* NVRAM: the 0x55 marker is there
  nvW, nvR,   \* NVRAM: the saved indices
  flash,      \* content of every slot of the ring
  samples,    \* readings taken so far
  stored,     \* history: records whose index was saved
  received,   \* history: what the server has taken in
  wiped,      \* history: records given up by the server's reset command
  mishaps,    \* history: the narrow windows that were hit, by step
  faults,     \* flash and I2C faults so far
  resets      \* unplanned resets so far

ram   == <<wIndex, rIndex, fErrorCnt>>
round == <<num, sent>>
nv    == <<nvMark, nvW, nvR>>
hist  == <<stored, received, wiped, mishaps>>
vars  == <<pc, age, ram, round, nv, flash, samples, hist, faults, resets>>

Ages == {"fresh", "closing", "due"}

SetSteps == {"setW", "setR", "skipR", "skipW", "resetW", "resetR", "initW", "initR"}

Steps == SetSteps \union
         {"boot", "idle", "read", "erase", "write", "post", "send", "check"}

\* A reset in one of these steps may leave the saved indices out of order.
HalfSteps == SetSteps \ {"setR"}

\* The content of the ring at record index i.
At(i) == flash[Slot(i)]

Init ==
  /\ pc = "boot"
  /\ age = "due"
  /\ wIndex = 0 /\ rIndex = 0 /\ fErrorCnt = 0
  /\ num = 0 /\ sent = 0
  /\ nvMark = FALSE
  /\ nvW \in Garbage /\ nvR \in Garbage
  /\ \E c \in {Erased, Torn} : flash = [s \in Slots |-> c]
  /\ samples = 0
  /\ stored = {} /\ received = {} /\ wiped = {} /\ mishaps = {}
  /\ faults = 0 /\ resets = 0

Fault == faults < MaxFaults /\ faults' = faults + 1

-----------------------------------------------------------------------------
(* setup(): restore the indices, or start the NVRAM when its marker is missing *)

\* A fault the runs must notice: each index is read from the other's place.
RestoreSwapped ==
  /\ pc = "boot" /\ nvMark
  /\ wIndex' = nvR /\ rIndex' = nvW
  /\ pc' = "idle"
  /\ UNCHANGED <<age, fErrorCnt, round, nv, flash, samples, hist, faults, resets>>

RestoreIndices ==
  /\ pc = "boot" /\ nvMark
  /\ wIndex' = nvW /\ rIndex' = nvR
  /\ pc' = "idle"
  /\ UNCHANGED <<age, fErrorCnt, round, nv, flash, samples, hist, faults, resets>>

\* The marker is not there, or the bus did not deliver it.
InitNvram ==
  /\ pc = "boot"
  /\ \/ ~nvMark /\ UNCHANGED <<mishaps, faults>>
     \/ nvMark /\ Fault /\ mishaps' = mishaps \union {"misread"}
  /\ nvMark' = TRUE
  /\ pc' = "initW"
  /\ UNCHANGED <<age, ram, round, nvW, nvR, flash, samples,
                 stored, received, wiped, resets>>

InitSaveW ==
  /\ pc = "initW"
  /\ nvW' = wIndex
  /\ pc' = "initR"
  /\ UNCHANGED <<age, ram, round, nvMark, nvR, flash, samples, hist, faults, resets>>

InitSaveR ==
  /\ pc = "initR"
  /\ nvR' = rIndex
  /\ pc' = "idle"
  /\ UNCHANGED <<age, ram, round, nvMark, nvW, flash, samples, hist, faults, resets>>

-----------------------------------------------------------------------------
(* loop(): the time test, then reading, posting and the server check        *)

\* Time has passed, or the clock was adjusted: any age can result.  At the
\* horizon of MaxSamples readings the clock stays in the posting window.
LoopTop ==
  /\ pc = "idle"
  /\ age' \in IF samples < MaxSamples THEN Ages ELSE {"fresh"}
  /\ pc' = "read"
  /\ UNCHANGED <<ram, round, nv, flash, samples, hist, faults, resets>>

NotDue ==
  /\ pc = "read" /\ age # "due"
  /\ pc' = "post"
  /\ UNCHANGED <<age, ram, round, nv, flash, samples, hist, faults, resets>>

\* A meter did not answer: the task returns and lastTime stays.  The analog
\* sensors always give a value.
ReadFails ==
  /\ pc = "read" /\ age = "due" /\ Kind # "sensor"
  /\ pc' = "post"
  /\ UNCHANGED <<age, ram, round, nv, flash, samples, hist, faults, resets>>

ReadOk ==
  /\ pc = "read" /\ age = "due" /\ samples < MaxSamples
  /\ samples' = samples + 1
  /\ pc' = "erase"
  /\ UNCHANGED <<age, ram, round, nv, flash, hist, faults, resets>>

-----------------------------------------------------------------------------
(* meterToFlash(): erase, program, advance or skip, save                    *)

\* The batch destroys a record that has not been acknowledged.
Overruns == \E i \in rIndex .. (wIndex - 1) : Slot(i) \in ErasedBy(wIndex, NumRec)

\* The result of eraseSector is not looked at.
EraseEntered ==
  /\ pc = "erase"
  /\ \/ /\ flash' = Blanked(flash, ErasedBy(wIndex, NumRec))
        /\ mishaps' = IF Overruns THEN mishaps \union {"overrun"} ELSE mishaps
        /\ UNCHANGED faults
     \/ Entered(wIndex, NumRec) # {} /\ Fault /\ UNCHANGED <<flash, mishaps>>
  /\ pc' = "write"
  /\ UNCHANGED <<age, ram, round, nv, samples, stored, received, wiped, resets>>

Reading == [k \in 0 .. NumRec - 1 |-> <<samples, k>>]

\* What a disturbed programming of the reading may leave in its slots.
Disturbed == {c \in [0 .. NumRec - 1 -> Content] :
                \A k \in 0 .. NumRec - 1 : c[k] \in {Reading[k], Erased, Torn}}

WriteOk ==
  /\ pc = "write"
  /\ Accepted(flash, wIndex, NumRec)
  /\ flash' = Programmed(flash, wIndex, NumRec, Reading)
  /\ wIndex' = wIndex + NumRec
  /\ fErrorCnt' = 0
  /\ pc' = "setW"
  /\ UNCHANGED <<age, rIndex, round, nv, samples, hist, faults, resets>>

\* A fault the runs must notice: the write index is not saved.
SaveWForgotten ==
  /\ pc = "setW"
  /\ stored' = stored \union {At(i) : i \in (wIndex - NumRec) .. (wIndex - 1)}
  /\ age' = "fresh"
  /\ pc' = "post"
  /\ UNCHANGED <<ram, round, nv, flash, samples,
                 received, wiped, mishaps, faults, resets>>

SaveW ==
  /\ pc = "setW"
  /\ nvW' = wIndex
  /\ stored' = stored \union {At(i) : i \in (wIndex - NumRec) .. (wIndex - 1)}
  /\ age' = "fresh"
  /\ pc' = "post"
  /\ UNCHANGED <<ram, round, nvMark, nvR, flash, samples,
                 received, wiped, mishaps, faults, resets>>

\* The write was refused, or failed part way, or did not verify.
WriteFails ==
  \/ /\ ~Accepted(flash, wIndex, NumRec)
     /\ flash' = Programmed(flash, wIndex, NumRec, Reading)
     /\ UNCHANGED faults
  \/ /\ Fault
     /\ \E c \in Disturbed : flash' = Programmed(flash, wIndex, NumRec, c)

\* A fault the runs must notice: the backlog is skipped over.
MustSkipBacklog == (fErrorCnt + 1) % 256 >= ErrorMax

\* ErrorMax failures in a row, with nothing left to post.
MustSkip == (fErrorCnt + 1) % 256 >= ErrorMax /\ wIndex = rIndex

\* The reading is lost, and the task reports success all the same.
DropReading ==
  /\ pc = "write" /\ ~MustSkip
  /\ WriteFails
  /\ fErrorCnt' = (fErrorCnt + 1) % 256
  /\ age' = "fresh"
  /\ pc' = "post"
  /\ UNCHANGED <<wIndex, rIndex, round, nv, samples, hist, resets>>

\* A fault the runs must notice: the read index stays in the bad sector.
SkipWithoutRead ==
  /\ pc = "write" /\ MustSkip
  /\ WriteFails
  /\ fErrorCnt' = 0
  /\ wIndex' = NextSector(wIndex)
  /\ pc' = "skipR"
  /\ UNCHANGED <<age, rIndex, round, nv, samples, hist, resets>>

SkipSector ==
  /\ pc = "write" /\ MustSkip
  /\ WriteFails
  /\ fErrorCnt' = 0
  /\ wIndex' = NextSector(wIndex)
  /\ rIndex' = NextSector(wIndex)
  /\ pc' = "skipR"
  /\ UNCHANGED <<age, round, nv, samples, hist, resets>>

SkipSaveR ==
  /\ pc = "skipR"
  /\ nvR' = rIndex
  /\ pc' = "skipW"
  /\ UNCHANGED <<age, ram, round, nvMark, nvW, flash, samples, hist, faults, resets>>

SkipSaveW ==
  /\ pc = "skipW"
  /\ nvW' = wIndex
  /\ age' = "fresh"
  /\ pc' = "post"
  /\ UNCHANGED <<ram, round, nvMark, nvR, flash, samples, hist, faults, resets>>

-----------------------------------------------------------------------------
(* ReadFlashMeterToPost_Task(), flashMeterToPost(), flashMeterToBatchPost() *)

Lesser(a, b) == IF a <= b THEN a ELSE b

\* A fault the runs must notice: a batch takes more than the backlog.
RoundUncapped == IF Batch = 0 THEN MaxPost ELSE Batch

RoundSize == Lesser(wIndex - rIndex, IF Batch = 0 THEN MaxPost ELSE Batch)

\* flashSensorToPost and flashFlowToPost, for single posts, are empty.
HasPostRoutine == Batch # 0 \/ Kind = "meter"

\* A fault the runs must notice: an index pair out of order is not caught.
CanPostAlways == age = "fresh" /\ HasPostRoutine

CanPost == age = "fresh" /\ rIndex < wIndex /\ HasPostRoutine

PostBegin ==
  /\ pc = "post" /\ CanPost
  /\ num' = RoundSize
  /\ sent' = 0
  /\ pc' = "send"
  /\ UNCHANGED <<age, ram, nv, flash, samples, hist, faults, resets>>

\* Outside the window, nothing to post, no network, or the flash read failed.
PostSkip ==
  /\ pc = "post"
  /\ pc' = "check"
  /\ UNCHANGED <<age, ram, round, nv, flash, samples, hist, faults, resets>>

\* A fault the runs must notice: the newest record of the round goes first.
RequestNewest == {At(rIndex + num - 1 - sent)}

\* The records of the next request: one, or the whole round in a batch.
Request ==
  IF Batch = 0 THEN {At(rIndex + sent)}
  ELSE {At(i) : i \in rIndex .. (rIndex + num - 1)}

SentAfter == IF Batch = 0 THEN sent + 1 ELSE num

\* A fault the runs must notice: the read index does not advance.
AcceptInPlace ==
  /\ pc = "send"
  /\ received' = received \union Request
  /\ IF SentAfter = num
     THEN num' = 0 /\ sent' = 0 /\ pc' = "setR"
     ELSE sent' = SentAfter /\ UNCHANGED <<num, pc>>
  /\ UNCHANGED <<age, ram, nv, flash, samples, stored, wiped, mishaps, faults, resets>>

\* The server answers 200.
Accept ==
  /\ pc = "send"
  /\ received' = received \union Request
  /\ IF SentAfter = num
     THEN /\ rIndex' = rIndex + num
          /\ num' = 0 /\ sent' = 0
          /\ pc' = "setR"
     ELSE /\ sent' = SentAfter
          /\ UNCHANGED <<rIndex, num, pc>>
  /\ UNCHANGED <<age, wIndex, fErrorCnt, nv, flash, samples,
                 stored, wiped, mishaps, faults, resets>>

\* No 200: the request or only its answer was lost.  The round is given up.
Refuse ==
  /\ pc = "send"
  /\ received' \in {received, received \union Request}
  /\ num' = 0 /\ sent' = 0
  /\ pc' = "check"
  /\ UNCHANGED <<age, ram, nv, flash, samples, stored, wiped, mishaps, faults, resets>>

SaveR ==
  /\ pc = "setR"
  /\ nvR' = rIndex
  /\ pc' = "check"
  /\ UNCHANGED <<age, ram, round, nvMark, nvW, flash, samples, hist, faults, resets>>

-----------------------------------------------------------------------------
(* serverChkTask(), the daily restart, and resets                           *)

\* ESP.restart and every other reset: RAM is zeroed, setup() runs again.
Reboot ==
  /\ pc' = "boot" /\ age' = "due"
  /\ wIndex' = 0 /\ rIndex' = 0 /\ fErrorCnt' = 0
  /\ num' = 0 /\ sent' = 0

CheckNothing ==
  /\ pc = "check"
  /\ pc' = "idle"
  /\ UNCHANGED <<age, ram, round, nv, flash, samples, hist, faults, resets>>

\* Ordered by the server, or once a day.
Restart ==
  /\ pc = "check"
  /\ Reboot
  /\ UNCHANGED <<nv, flash, samples, hist, faults, resets>>

ResetCommand ==
  /\ pc = "check"
  /\ wIndex' = 0 /\ rIndex' = 0
  /\ pc' = "resetW"
  /\ UNCHANGED <<age, fErrorCnt, round, nv, flash, samples, hist, faults, resets>>

ResetSaveW ==
  /\ pc = "resetW"
  /\ nvW' = wIndex
  /\ wiped' = wiped \union (stored \ received)
  /\ pc' = "resetR"
  /\ UNCHANGED <<age, ram, round, nvMark, nvR, flash, samples,
                 stored, received, mishaps, faults, resets>>

ResetSaveR ==
  /\ pc = "resetR"
  /\ nvR' = rIndex
  /\ Reboot
  /\ UNCHANGED <<nvMark, nvW, flash, samples, hist, faults, resets>>

\* An index goes to the clock chip low byte first.  A reset part way leaves
\* the low bytes of the new value under the high bytes of the old one.
Interrupted(old, new) ==
  {old, new} \union {(old \div b) * b + (new % b) : b \in ByteWeights}

SavesW == {"setW", "skipW", "resetW", "initW"}
SavesR == {"setR", "skipR", "resetR", "initR"}

\* The one outcome, or the two, after which setup() finds a legal pair.
Harmless(step, old, v, new) ==
  CASE step \in {"setW", "setR"}              -> v \in {old, new}
    [] step \in {"skipR", "resetW"}           -> v = old
    [] step \in {"skipW", "resetR", "initR"}  -> v = new
    [] OTHER                                  -> FALSE

ResetInSave ==
  \/ /\ pc \in SavesW
     /\ \E v \in Interrupted(nvW, wIndex) :
          /\ nvW' = v
          /\ mishaps' = IF Harmless(pc, nvW, v, wIndex)
                        THEN mishaps ELSE mishaps \union {pc}
          /\ stored' = IF pc = "setW" /\ v = wIndex
                       THEN stored \union
                              {At(i) : i \in (wIndex - NumRec) .. (wIndex - 1)}
                       ELSE stored
     /\ UNCHANGED nvR
  \/ /\ pc \in SavesR
     /\ \E v \in Interrupted(nvR, rIndex) :
          /\ nvR' = v
          /\ mishaps' = IF Harmless(pc, nvR, v, rIndex)
                        THEN mishaps ELSE mishaps \union {pc}
     /\ UNCHANGED <<nvW, stored>>

\* An interrupted erase leaves its sectors as they were, blank or unreadable.
ResetInErase ==
  /\ pc = "erase"
  /\ LET S == ErasedBy(wIndex, NumRec) IN
       \/ UNCHANGED <<flash, mishaps>>
       \/ /\ \E c \in {Erased, Torn} :
               flash' = [s \in Slots |-> IF s \in S THEN c ELSE flash[s]]
          /\ mishaps' = IF Overruns THEN mishaps \union {"overrun"} ELSE mishaps

ResetInWrite ==
  /\ pc = "write"
  /\ \E c \in Disturbed : flash' = Programmed(flash, wIndex, NumRec, c)

\* A watchdog, a panic or the power resets the logger at any moment.
Reset ==
  /\ resets < MaxResets
  /\ resets' = resets + 1
  /\ Reboot
  /\ \/ ResetInSave /\ UNCHANGED <<flash, received>>
     \/ ResetInErase /\ UNCHANGED <<nvW, nvR, stored, received>>
     \/ ResetInWrite /\ UNCHANGED <<nvW, nvR, stored, received, mishaps>>
     \/ /\ pc = "send"
        /\ received' \in {received, received \union Request}
        /\ UNCHANGED <<nvW, nvR, flash, stored, mishaps>>
     \/ /\ pc \in Steps \ (SetSteps \union {"erase", "write", "send"})
        /\ UNCHANGED <<nvW, nvR, flash, stored, received, mishaps>>
  /\ UNCHANGED <<nvMark, samples, wiped, faults>>

-----------------------------------------------------------------------------

Boot == RestoreIndices \/ InitNvram \/ InitSaveW \/ InitSaveR

Store == EraseEntered \/ WriteOk \/ SaveW \/ DropReading
           \/ SkipSector \/ SkipSaveR \/ SkipSaveW

Forward == PostBegin \/ PostSkip \/ Accept \/ Refuse \/ SaveR

Check == CheckNothing \/ Restart \/ ResetCommand \/ ResetSaveW \/ ResetSaveR

Loop == LoopTop \/ NotDue \/ ReadFails \/ ReadOk \/ Store \/ Forward \/ Check

Next == Boot \/ Loop \/ Reset

Spec == Init /\ [][Next]_vars

\* The task keeps running, the interval keeps elapsing, and meters, network
\* and server answer again and again: the server accepts a request at every
\* place of a round that keeps being reached.  Fairness of Accept as a whole
\* would allow the first record of a round to be accepted and the second one
\* to be refused for ever, since a refusal starts the round again.
Fairness ==
  /\ WF_vars(Boot \/ Loop)
  /\ SF_vars(LoopTop /\ age' = "due")
  /\ SF_vars(ReadOk)
  /\ SF_vars(PostBegin)
  /\ \A k \in 0 .. MaxPost - 1 : SF_vars(Accept /\ sent = k)

FairSpec == Spec /\ Fairness

-----------------------------------------------------------------------------

\* The type of the state: indices are naturals, slots hold records or blanks,
\* and a posting round never sends more than it set out to.
TypeOK ==
  /\ pc \in Steps
  /\ age \in Ages
  /\ wIndex \in Nat /\ rIndex \in Nat
  /\ fErrorCnt \in 0 .. 255
  /\ num \in Nat /\ sent \in Nat
  /\ nvMark \in BOOLEAN
  /\ nvW \in Nat /\ nvR \in Nat
  /\ flash \in [Slots -> Content]
  /\ samples \in 0 .. MaxSamples
  /\ stored \subseteq Content
  /\ received \subseteq Content
  /\ wiped \subseteq Content
  /\ mishaps \subseteq SetSteps \union {"misread", "overrun"}
  /\ faults \in 0 .. MaxFaults
  /\ resets \in 0 .. MaxResets

\* The read index of main.cpp stays at or below the write index, whatever
\* faults, planned restarts and resets occur, unless a reset falls into one
\* of the paired or multi-byte index saves.
IndexOrder == mishaps \intersect HalfSteps = {} => rIndex <= wIndex

\* Steps at which the saved indices and their RAM copies agree.
Quiet == Steps \ (SetSteps \union {"boot"})

\* The inductive form of IndexOrder.  It says how the four indices stand at
\* every step of the save sequences: which copy is ahead, by how much, and
\* that what a reset at that step leaves in the NVRAM is again a legal pair.
IndexInv ==
  /\ pc \in Quiet \union {"setR", "initR", "resetR"} => nvW = wIndex
  /\ pc \in Quiet \union {"setW", "skipW"} => nvR = rIndex
  /\ pc \in {"boot", "initW", "initR", "resetW", "resetR"} => wIndex = 0 /\ rIndex = 0
  /\ pc \in {"skipR", "skipW"} => wIndex = rIndex
  /\ mishaps \intersect HalfSteps = {} =>
       /\ rIndex <= wIndex
       /\ pc = "boot" /\ nvMark => nvR <= nvW
       /\ pc \in {"resetW", "skipR"} => nvR <= nvW
       /\ pc = "setW" => nvR <= nvW /\ wIndex = nvW + NumRec
       /\ pc = "setR" => nvR <= rIndex
       /\ pc = "send" => num <= wIndex - rIndex

\* The records a restart would find waiting in the ring.
Pending == {At(i) : i \in nvR .. (nvW - 1)}

\* No record whose index was saved is lost: the server has it, the ring still
\* holds it inside the saved window, or the server ordered a wipe.  A read
\* index torn in the middle of its save costs duplicates, never records.
Durable ==
  mishaps \subseteq {"setR"} => stored \subseteq received \union wiped \union Pending

\* The server is sent stored records only: never blank or half-written flash,
\* and never the slots of a batch whose index was not saved.
PostedGenuine == mishaps = {} => received \subseteq stored

\* The ring erases an unacknowledged record only when the backlog and the
\* new batch together leave less than one sector of room.
OverrunOnlyWhenFull ==
  [][("overrun" \in mishaps' \ mishaps) =>
       wIndex + NumRec - rIndex > MaxRecord - SectorRecs]_vars

\* Without faults and unplanned resets a batch always meets blank flash: the
\* sector it enters has been erased and no slot is programmed twice.
CleanWrites == faults = 0 /\ resets = 0 => fErrorCnt = 0

\* Under recurring readings and network every stored record gets to the
\* server, unless it is wiped by command or a mishap other than a torn read
\* index is on record.
EventuallyPosted ==
  \A r \in Record :
    (r \in stored) ~> (r \in received \/ r \in wiped \/ ~(mishaps \subseteq {"setR"}))

=============================================================================
