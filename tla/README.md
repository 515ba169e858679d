# Verification of the ENRES logger

The repository is the firmware of an ESP32 data logger. It reads energy meters,
analog sensors or a flow meter at an interval, keeps the readings in a ring on a
NOR flash chip, and posts them to a server when there is a network. This
directory holds TLA+ models of it, the TLC runs that check them on small
instances, and proofs that TLAPS checks for every value of the constants.

Paths below are relative to `src/`; `lib/` stands for
`components/arduino/libraries/`.

## 1. The system

### Components, their state and operations

| Component | State | Operations | What makes it correct |
|---|---|---|---|
| Store-and-forward core, `main/main.cpp` | `wIndex`, `rIndex`, `fErrorCnt`, `lastTime`, copies of the indices in NVRAM | `setup`, `loop`, `meterToFlash` (and `sensorToFlash`, `flowToFlash`), `flash…ToPost`, `flash…ToBatchPost`, `serverChkTask` | no stored reading is lost or skipped; the server gets them in order, and gets stored readings only; the indices survive resets in order |
| Record ring, `lib/SPIFlashMeter` | the flash content behind the first 8 KB | `writeMeterData`, `readMeterData` and their sensor and flow copies; `writeConfigFlash`, `readConfigFlash` | index to slot, erase before write, no unposted record erased while there is room |
| NOR flash driver, `lib/SPIFlash` | chip select, write enable, cached address | `_prep`, `_notBusy`, `_writeEnable`, `readByteArray`, `writeByteArray`, `eraseSector` | refuses to program what is not blank, reports what it could not program |
| Modbus energy meters, `lib/ModbusMeter` | `md[]`, the response buffer, the UART's receive queue | `masterTransaction`, `readMeterData` | a value comes from the meter, the register block and the pass it is stored under |
| Flow meter, `lib/ModbusFlow` | `fd` | a copy, line for line, of the Modbus master; `readFlowData` | as above |
| Analog sensors, `lib/AnalogSensor`, `lib/Mcp3208` | sample arrays | `getAvgAdc`: sort, trim, average | the trimmed mean lies within the samples |
| Clock discipline, `loop` lines 1353-1396, `lib/NTPClient` | `lastTime`, `lastUpdateRTC`, `tAdj`, the epoch, the socket | `update`, `forceUpdate`, the due test | one reading per interval in spite of steps of the clock |
| Clock chip, `lib/RTClib` | the MCP7940's registers and NVRAM | `adjust`, `now`, `DateTime`, `readnvram`, `writenvram` | the date read is the date set, as far as time has passed |
| Configuration, `lib/SDConfig`, `writeConfigFlash`, `readConfigFlash` | `cfgG`, `cfgM[]`, ..., the first sector of the flash | read from SD, backed up in flash, read back without a card | the backup is what the card held |
| Watchdogs, `lib/HardwareWDT` and the ESP32 task watchdog | enabled or not, the time since they were fed | `disable`, `enable`, `kickDog`, `esp_task_wdt_feed` | a hang ends in a reset; slow operations do only where those between two feedings can take as long as the timeout |
| Status bits, `errlog` in `main.cpp` | eight bits in RAM | set and cleared in the tasks, sent and cleared by `logPostTask` | what went wrong reaches the log server |
| Network, `lib/WiFi`, `lib/HTTPClient` | third-party | `wifiMulti.run`, `GET`, `POST` | a request is answered 200 or it is not |
| 3G uplink, `lib/UC20`, `lib/ENRES3G`, `lib/ENRESClient` | third-party and unused by `main.cpp` | | |

### How they interact

There is one task: `setup()` and then `loop()` for ever. Everything is a direct
call. There is no second thread that shares state with it. What runs against the
task is the outside world: resets (watchdog, panic, power, the planned daily
restart, a restart ordered by the server), the flash chip and the I2C bus, the
meters on the RS-485 line, and the server behind an unreliable network. RAM is
lost in a reset. The flash and the NVRAM stay, in whatever state the
interrupted step left them.

The write index and the read index are two 32-bit words that are saved one
after the other, byte by byte. Most of what is hard in this program comes from
the order of five things: erase, program, save the write index, request, save
the read index.

### Hard behaviour

`PROJECT.json` lists the hazards with their lines. In short: a reset between the two index saves
of the sector skip or of the reset command; a torn index; the NVRAM marker that
is written before what it vouches for; half-programmed slots under an index
that was not advanced; a configuration backup that is erased before it is
replaced; a lost answer to a request that took effect; a wrapped
batch that is written in two pieces, the second whatever became of the first; an
erase whose result is ignored; the writer overtaking the reader; the three
ways to lose a reading on purpose (drop, skip, wipe), of which only the last
may touch stored records; late and cut Modbus replies that are taken for the
reply to a later request, and words that an earlier one left in the response buffer;
an erase that the chip ignores after a write that did not verify; late time answers; posts of a round that add up
against a watchdog that is fed after it; status bits that one event sets and
another clears before they are sent.

## 2. Plan

In this order; all of them are written.

1. `FlashRing`: slots, sectors, two-piece writes. Data only.
2. `Logger`: the task with its resets. Abstract specification: `ForwardQueue`.
3. `ForwardQueue`: an in-order, at-least-once queue. `LoggerQueue` relates the two.
4. `LoggerProof`: types, the order of the indices, the overrun condition, and
   what the ring holds. `ForwardProof` on top of it: the refinement of the queue.
5. `ModbusLink` with `ModbusProof`: the master on a line that delays and loses bytes.
6. `SPIFlashChip` with `SPIFlashProof`: the driver's write-enable, busy and
   chip-select protocol.
7. `LoopClock` with `LoopClockProof`: NTP, the chip clock and the due test, with
   late answers and clock steps.
8. `TrimmedMean`: the average of the analog samples against the definition of a trimmed mean.
9. `ClockChip`: `RTClib`'s date arithmetic and the MCP7940's registers against the calendar.
   `AlgorithmsProof` proves both for every input.
10. `ConfigBackup` with `ConfigProof`: the copy of the configuration in flash, and a
    crash between erasing the old one and writing the new one.
11. `Watchdog`, and `StatusLog` that extends it with the status bits, with
    `WatchdogProof`: feedings, blocking calls and hangs; reports.
12. `FlashStore`: what a caller counts on when it calls the driver, without the
    chip's protocol. `ChipStore` relates it to `SPIFlashChip`, and `SPIFlashProof`
    proves the refinement.

What is left to do is liveness, which the proof system does not reach, and the parts of
section 6.

## 3. Modules and how they correspond to the code

`PROJECT.json` maps every definition to its lines.

**FlashRing** is the arithmetic of `SPIFlashMeter`. A record is one slot; 64
records of 64 bytes make a 4 KB sector. `Entered` and `ErasedBy` are the loop of
`writeMeterData` that erases a sector for each record of the batch that opens
one. `HeadPart` and `TailPart` are the two writes of a batch that wraps.
`Programmable` says that the driver judges each piece on its own, by the
`_notPrevWritten` test. A piece is either programmed or refused.

**Logger** is `main.cpp`. Its variable `pc` names the step the task executes next; a step
ends where a reset would be seen to make a difference. `age` abstracts
`now - lastTime` to three classes: `fresh` (posting allowed), `closing` (the last
`POSTSAVETIME` seconds, neither posting nor reading) and `due`. Any class can
follow at the top of a pass, which includes clock steps in both directions.

| Actions | Code |
|---|---|
| `RestoreIndices`, `InitNvram`, `InitSaveW`, `InitSaveR` | `setup` 1300-1313 |
| `LoopTop`, `NotDue`, `ReadFails`, `ReadOk` | `loop` 1353-1413, the `Read…ToFlash_Task`s |
| `EraseEntered`, `WriteOk`, `SaveW`, `DropReading`, `SkipSector`, `SkipSaveR`, `SkipSaveW` | `meterToFlash` 229-264 and its two copies, `writeMeterData` |
| `PostBegin`, `PostSkip`, `Accept`, `Refuse`, `SaveR` | the `ReadFlash…ToPost_Task`s, `flash…ToPost`, `flash…ToBatchPost` |
| `CheckNothing`, `Restart`, `ResetCommand`, `ResetSaveW`, `ResetSaveR` | `serverChkTask`, the daily restart |
| `Reset` | a reset in any step; in the middle of an erase, of a programming or of an index save |

The three kinds of logger differ in two ways that matter: how many records a
reading has (`NumRec`), and whether single posts do anything (`HasPostRoutine`:
`flashSensorToPost` and `flashFlowToPost` are empty). A sensor reading never
fails.

`stored`, `received`, `wiped` and `mishaps` are history. `mishaps` records
which narrow windows a behaviour hit: the name of an index save whose reset left
an unlucky outcome, `misread` when a bus fault hid the marker, `overrun` when
an unposted record was erased. The properties say which mishaps they
excuse, so that each of them also says how narrow the window is.

Assumed of the hardware: an interrupted erase leaves its sectors as they were,
blank, or unreadable; an interrupted programming leaves each slot blank, whole
or torn; an interrupted index save leaves the low bytes of the new value under
the high bytes of the old one, because `writenvram` sends the low byte first
and the chip stores each byte as it comes. A faulty programming, without a reset,
leaves each slot blank, whole or torn as an interrupted one does. A faulty erase leaves its
sectors as they were; an erase that is left half done without a reset is not in the
model. The data of a flash read and the restored indices are taken
to be read correctly; of the reads only the marker's may be faulty.

**ForwardQueue** is what an operator expects: readings wait in order, a request
carries a bounded stretch of the queue whose predecessors have all been
delivered, and records leave the queue only when delivered, or all at once on
command. Delivery may repeat. `LoggerQueue` gives the mapping: the queue is what the
saved indices span. `ForwardsInOrder` is `QSpec` of that queue for every step up to a
mishap; after one the saved indices may be out of order, and no queue is left to
map to.

**ModbusLink** is `masterTransaction` and the chains that call it. A byte is
known by the reply it belongs to and its place there. The action `Transmit` leaves the
receive queue alone, as the code does. The header is tested when five bytes
have been read, the byte count is believed, the CRC ends the frame, and 500 ms end it
otherwise. Bytes out of place can look like a good header and like any byte
count; the CRC is taken to be right for the bytes of one whole frame only. An
exception reply is an error that consumes its frame, as a silent slave is here.
The words of the accepted reply go to `buffer`, as many as it has (`Loaded`), and the block
is read from there, as many as were asked for (`TakeOver`). The code compares neither number
with the other and never clears the buffer, so behind a reply that is too short stand the words of
earlier ones: `RightReply` is what the tests of `masterTransaction` give, and
`RightMeter` is what they do not give. The history
variable `disturbed` says that a reply was late or cut; `ReadingConsistent`
holds up to then. `ModbusFlow.cpp` is the same master with one slave and four
blocks.

**SPIFlashChip** is what the logger uses of `SPIFlash.cpp`: `begin`,
`writeByteArray` with its check, `readByteArray`, `eraseSector`. A call goes
through `poll` (`_notBusy`), `enable` (`_writeEnable`) and `act`, once per part
of the call; `stage` names the part. The chip is on the other side: it obeys a program or
an erase only when its latch is set and it is not busy, a program command wraps
at the end of its page, and the work goes on after the command, also through a
reset of the logger. `streaming` says that the select line is low in the middle of a
read; a status read then returns whatever the data holds. It is low after a
failed verify and, since the pin starts low, at `begin()`. A timeout of a wait
counts as a fault, and so does an answer of the chip that `begin()` rejects (`BeginFails`). When
`_writeEnable` gives up, the latch may be set all the same: the command was sent first. An interrupted erase or program leaves each cell old, new or torn.

A failed verify is followed in `Logger` by a retry, a skip to another sector, or
nothing. When the next call is `eraseSector`, the data byte it takes for the status can
show the write-enable latch set; the erase command is then ignored by the chip and
reported as done. `ErasesObeyed` excuses exactly this call; `ErasesDone` does not, and the run
`flash_erase` shows the call. In `Logger` it is
covered by the fault that made the verify fail: an erase with a fault
may leave its sector as it was.

**FlashStore** is the same flash as its callers see it. `content` is what the cells
hold, `goal` what the operation under way or confirmed last is for, `open` the part
of an operation that may still reach the cells, `phase` how far the operation is. An operation
is begun when nothing older is open, and a write on blank cells only; cells that are
open become what they were meant to be, torn, or stay (`Progress`); the operation is
left, by failure, reset or the next call (`Leave`), or confirmed when nothing of it is
open and the cells hold what was meant (`Confirm`). An erase that was confirmed may have left
torn cells, since `eraseSector` does not read back. A write that is left may leave the chip
`deaf`: the next operation, if it is an erase, may then be confirmed with nothing done
(`IgnoreErase`). This is the one exception to what a confirmed operation has done, and the
abstract specification states it. `ChipStore` gives the mapping:
a write begins when `_notPrevWritten` has found its cells blank, an erase when the chip
takes the command; open are the cells not yet sent and those of the chip's job,
whoever asked for it. That the job is part of `open` is the point: after a reset
an operation may go on in a chip whose driver knows nothing of it, and no other may
begin until it is over. This is what `FlashRing`'s `Programmable` and the outcomes of
interrupted operations in `Logger` rest on.

**LoopClock** is `loop` lines 1353-1413, the wait at the end of `setup`, and
`NTPClient.cpp` over `WiFiUDP`. Time is counted in polls of `forceUpdate`
(`delay(10)` each). The chip clock is kept as its error `rtc`, so that time passing needs no
action of its own; it passes in the polls and in `Rest`, the blocking part of
a pass. `mailbox` is the socket's queue of answers, `held` the answer in
`rx_buffer` that was parsed and never read. An answer carries the time at which it
passed the server, any time from its request to its arrival. The history
variable `late` says that an answer came after its request had timed out;
`SyncedWithin` and `ReadingsSpaced` hold up to then. What `now()` reads is
linear in time here. In a leap year it is not (see `ClockChip`): it jumps at the ends of
months and at the end of the year. Such a jump is outside this module, and with it what it does to the due test:
a jump forward makes a reading early, which `ReadingsSpaced` would forbid, and a jump back
makes the next one late, which `ReadingNotDelayed` would forbid, since no setting of the clock caused it.

**TrimmedMean** is `getAvgAdc`. One step takes one sample. `Inserted` is the nested
test that keeps the three least, and mirrored the three greatest. The reference has no
insertion and no order: there are three places whose samples are no greater, and three
other places whose samples are no less, than all the rest, and the mean is that of the
rest.

**ClockChip** is `DateTime` and `RTC_MCP7940` of `RTClib.cpp`. A step is a day.
`civil` is the calendar's date, `chip` the date the chip counts, `Registers`
its registers as `now()` reads them. The year and the day go through `bin2bcd` and
`bcd2bin` unharmed. The month register shows a leap year in bit 5, which
`now()` takes for a digit: in 2020, 2024, ... the month is 20 too large, and
`mktime` turns the date into one about twenty months ahead. By how many days depends on the
lengths of the months, from 607 to 612, so that within the year the stamps jump by one
or two days, back or forward, at the ends of some months, and back by
twenty months at the end of the year. `StampRight` bounds the error, and says that nothing else goes wrong.

**ConfigBackup** is `SDConfig.cpp`, and `writeConfigFlash` and
`readConfigFlash` of `SPIFlashMeter.cpp`. A text is known by its name, its
length and the place of its closing brace; a page holds a part of a text. Each
page that is written is a step. `Parsed` is what `parseObject` makes of
the sector: a cut text gives an empty configuration, pages of several texts may give anything.
`toCharArray` is passed the length as the size of the buffer, so the last
character is lost (`Copyable`). The file is read at once: a card that is pulled in the middle of
the loop over its bytes (`SDConfig.cpp:47`) is not modelled, one that is pulled between the two times the
file is opened is. `owed` is the configuration the copy has to give.

**Watchdog** is every place of `setup` and `loop` that takes time, with the
feedings between them. `pc` names the place, `At` its kind of operation,
`Longest` the longest time an operation of the kind takes when it returns;
`Hang` makes one that does not. Nothing is assumed of these times and of the timeouts: the
code does not make the one fit the other. The HTTP client waits up to 5 s for an answer, a
round has up to 6 posts, and the task watchdog bites after 20 s. So a server that accepts
each post after 4 s makes the watchdog reset the logger before `rIndex` is saved; the same
round is sent again, and again for as long as the server is that slow. `TaskSpan` and `DogSpan` say how long the
operations that the code puts between two feedings can take at most, at each place;
`HealthyNotBitten` says that a logger whose operations return is reset only where this
reaches the timeout. So nothing else adds up: no earlier meter, round, check or pass.
`WiFiMulti::run` waits without limit with the hardware watchdog off
(`WiFiMulti.cpp:122`); only the task watchdog ends that. The count of the
hardware watchdog is taken to stand still while it is disabled. While `setup`
waits for the time the hardware watchdog is not kicked, which
`HealthyNotBitten` has to allow (`pc = "sync"`).

**StatusLog** adds the bits of `errlog` to the same steps. `missed` and `heard`
are history: whether a meter failed in the last pass, and whether the log
server has heard of the restart. One bit stands for the data server and the log
server. It is lowered by the check that precedes each report, so no report
ever shows it (`ServerNeverAccused`).

## 4. Runs

| Run | Instance | Shows |
|---|---|---|
| `logger` | 2 sectors of 3 slots, 2 meters, single posts, 4 readings, 1 fault, 1 reset | `TypeOK`; `IndexOrder` and its inductive form `IndexInv`; `Durable`: a record whose index was saved is with the server, in the saved window, or wiped by command; `PostedGenuine`: the server gets stored records only; `CleanWrites`: without faults no batch meets a slot that is not blank; `OverrunOnlyWhenFull`: an unposted record is erased only when the backlog and the new batch leave less than a sector free; `ForwardsInOrder`: the logger implements `ForwardQueue` |
| `forward_batch` | 3 sectors of 3 slots, 2 meters, posts of up to 3 records, 5 readings, 1 fault, 1 reset | `ForwardsInOrder` for batched posts; the fifth reading is written past the last slot, its second piece into slots that were used and erased again |
| `live` | 2 sectors of 2 slots, 1 meter, 3 readings, 1 fault, 1 reset | `EventuallyPosted` |
| `modbus` | 2 meters, 3 blocks, 3 passes; slaves that are silent, late replies and lost bytes | `RightReply`: the reply that is accepted for a block is whole and of a meter with the address and function asked; `ReplyUsedOnce`: none is accepted twice; `TypeOK`; `ReadingConsistent` as long as no reply was late or cut |
| `modbus_mixed` | 2 meters of blocks of 1 and 2 registers, 2 passes | the violation below |
| `flash_chip` | 2 sectors of one page of 2 cells, writes of up to 3 cells, 2 writes, any number of erases and reads, 1 fault, 1 reset or power cut | `WriteVerified`: a write that returns true is in the chip; `ProgramsOwnBlankCells`: no program command touches cells that are not blank or not of this write; `ErasesObeyed`; `CallsReturn`; `ImplementsStore`: driver and chip implement `FlashStore` |
| `flash_erase` | as `flash_chip` | the violation below |
| `clock` | updates and settings every 3, readings every 4 units, 10 units, 1 reset, answers at any time or never | `NeverAhead`; `ReadingNotDelayed`; as long as no answer was late, `SyncedWithin`: the clock is right up to the wait for an answer, and `ReadingsSpaced` |
| `clock_held` | as `clock` | the violation below |
| `algorithms` | all sequences of 8 samples of 4 values; every day from 2000 to 2099 | `IsTrimmedMean`: the result is the average without three least and three greatest samples; `Robust`: three wrong samples anywhere cannot move the result out of the range of the others; `CalendarAgrees`; `StampRight`; `TrustsSetClock`: an empty chip never passes the year test of `setup` |
| `config_backup` | 4 texts of 1 to 3 pages, 3 changes of the card, 1 fault, 2 resets | `BackupServes`: a logger without a card runs with what was copied last; `NeverMixed`: it never runs with parts of two texts unless a flash operation was disturbed or the card was pulled between the two times the file is opened |
| `watchdog` | task watchdog 10, hardware watchdog 4 units, 2 meters, rounds of up to 3 posts, 4 records, 1 hang; a request takes up to 2 units, everything else 1 | `HealthyNotBitten`; `GuardedOutsideCalls`; `HangEnds`; `ServerNeverAccused`; `MissedMeterReported`; `RestartHeard` |

Why the bounds are enough. Two meters on sectors of three slots make a batch
straddle a sector and run past the last slot, which 21 meters on sectors of 64
do as well. Four readings in `logger` go round the ring of six slots, so that wrapped writes,
erases of used sectors and overruns all happen; in `forward_batch` the ring has nine slots, and the fifth reading
goes past its end. The byte weight 4 makes
an index carry into its second byte within the behaviour. `ErrorMax` is 2 where
one fault shall lead to a skip (the torn slot refuses the second reading by
itself) and 3, as in the code, in `forward_batch`, where a request carries the records of
more than one reading. One reset at every possible step, with every
outcome of the interrupted operation, covers each crash window; planned restarts
are not bounded. A write of three cells on pages of two has a first piece
that is shorter than a page, a whole page, and a last piece. The clock runs are
long enough for a first sync, a late answer taken at the next update, a setting from
it, and an interval after that. Eight samples leave two to average, so
that division and ties matter. Texts of one, two and three pages make a
new copy shorter and longer than the old one, one text ends with its page, one with its
brace. The times of `watchdog` are such that the third answer of a round of
posts reaches the task watchdog's timeout and no other stretch of the code does: the bite of a working logger
happens, and where a feeding is left out it happens in places where the spans of `HealthyNotBitten` do not allow it. The blocks of `modbus_mixed` have different
lengths at both meters, as those of most types of meter in the code. `Garbage` gives the fresh NVRAM a read index above the write
index.

### What the properties had to exclude

- A reset between the two saves of a sector skip, of the reset command or of the
  first start, or in the middle of a multi-byte save, can leave the read index
  above the write index. Nothing is posted until the write index
  has caught up, the sector skip can not happen, and then records of the gap
  are never posted. `IndexOrder` holds up to these windows and no further.
- A reset in the middle of the read-index save costs duplicates, not records:
  `Durable` and `EventuallyPosted` allow it.
- With late replies or with lost bytes `ReadingConsistent` is false: since the
  receive queue is not emptied, the reply to one request is taken for the
  reply to the next one to the same address, and a reading is stored that
  mixes register blocks. The property holds until `disturbed`. What remains on any
  line is `RightReply` and `ReplyUsedOnce`, which are about the reply that was accepted. They do not
  say that all words of a block are of that reply: where it is shorter than the block, the others are
  what an earlier transaction left in the buffer (`RightMeter`, violated below).
- A watchdog does reset a working logger: see `Watchdog` above.
- An `eraseSector` after a write that did not verify may return true with nothing
  done. `ErasesObeyed` and `ImplementsStore` allow it for this call and for no other.
- A marker that is misread at the start makes `setup` save indices of zero over good ones. The code forgets the
  backlog then, and the properties promise nothing after it (`misread`).
- A flash operation that fails while the configuration is copied, and a card that is pulled between the two
  times the file is opened, leave a backup of which nothing is promised (`spoilt`): `NeverMixed` and
  `BackupServes` say that nothing else does.
- The bits of `errlog` are all cleared when a report is answered, and `missed` with them;
  `MissedMeterReported` says only that no meter hides another.
- With late answers `SyncedWithin` is false, and there is no bound on how far
  the clock lags. Nothing empties the socket before a request, so after one
  late answer each update takes the answer to the request before. Every further
  late answer adds an update interval, until the logger restarts. What remains
  is that the clock never runs ahead (`NeverAhead`) and that the steps back do
  not suppress readings (`ReadingNotDelayed`).
- Between the erase of the backup and its last page there is none: a reset there and a
  card that is gone at the next start leave the logger without a configuration. The
  same holds for a file whose last character is its closing brace. A card
  pulled between the two times the file is opened replaces the good
  backup by what lay on the stack.
- In leap years the stamps are 607 to 612 days ahead, and the clock as read is not linear.
- After a request that was not answered, the next one is sent at the next pass,
  not after the update interval.

### Findings

`lib/ModbusMeter/ModbusMeter.cpp:127` says "verify response is for correct Modbus slave", and
`ModbusMeter.h:67` calls `_u16ResponseBuffer` the buffer for the slave's response. A reply is
copied there with as many words as it has (230-238), whatever was asked for, over what the last
one left. The run `modbus_mixed` shows a late reply of one word that is taken for the reply to
a request for two. The second word that is stored was sent by another meter. The reply
waits in the receive queue when the request is sent: line 78 announces that the queue is flushed
first, and the two ways to do it (79-83) are commented out.

`lib/SPIFlash/src/SPIFlash.cpp:1651` says of `eraseSector` that it erases the sector containing
the address. The verify loop of `writeByteArray` returns at 1118 with the chip selected in the
middle of a read, without the `_endSPI` that "should be called after all the required data is read" (219).
The erase that comes next takes a byte of data for the status. When this shows the write-enable
latch set and no operation under way, no write enable is sent, the chip
ignores the erase, and the call returns true. The run `flash_erase` shows it.

`lib/NTPClient/NTPClient.cpp:70` says that the loop waits "till data is there or
timeout". The loop parses a packet and then, if it was the last poll, returns false
without reading it (75-76). The run `clock_held` shows a request that times out on an
answer it has taken. `WiFiUDP::parsePacket` returns 0 while a
packet is not read (`WiFiUdp.cpp:206`), and nothing else reads or flushes
it: no update succeeds until the logger restarts, at the latest with the daily
restart.

### Fairness

`WF_vars(Boot \/ Loop)`: the one task keeps running. Strong fairness of
`LoopTop` with a due age: intervals keep elapsing. Of `ReadOk`, `PostBegin` and of
`Accept` at each place of a round: meters, network and server work
again and again. The code justifies the first; the others are assumptions
about the world, without which nothing can be posted. Fairness of `Accept` as a whole would
not be enough: a refusal in the middle of a round sends the whole round again
(`flashMeterToPost` returns without moving `rIndex`), so a server that always takes the first
record and always refuses the second one stops everything.

`flash_chip` assumes `WF_vars(Step)`, the driver's code runs on, and
`WF_vars(ChipReady)`, the chip finishes what it has begun. A poll that reads data for
the status deselects the chip, so the next one reads the status.

`watchdog` assumes that time passes in an operation (`Tick`) and that a watchdog
that has expired bites (`Bite`), and that the reset it makes ends the hang. Nothing is assumed of the operations: one that is
stuck stays so.

## 5. Proofs

`LoggerProof` proves, for every ring, every number of records per reading and
every bound:

- `TypeCorrect`: `Spec => []TypeOK`.
- `ReadIndexBehind`: `Spec => []IndexOrder`. `IndexOrder` alone is not
  inductive: after a reset the indices come from the NVRAM, so the invariant
  must say how the saved pair stands to the RAM pair at each step of the four
  save sequences. `IndexInv` says that: outside these sequences the copies
  agree; inside, it names the copy that is ahead and by how much. `IndexInv` is
  also checked by TLC.
- `OverrunNeedsFullRing`: `Spec => OverrunOnlyWhenFull`. If a record in the
  backlog shares a slot with a sector the batch enters, its index is congruent to
  one of that sector modulo the ring size and below the batch, so it lies at least
  a ring minus a sector below the batch's end. The lemmas on division
  (`DivMod`, `SlotTurns`, `SectorDistance`, `SlotAligned`, `MultiplesApart`) carry the argument.
- `SavesInStep`: `Spec => []IndexInv`.
- `StoredStays`: `Spec => []Durable`. `StoredInv` says that the slots below a write
  index that is about to be saved hold the reading, so that what becomes
  `stored` is whole. `DurableInv` follows the saved window through the steps: it is
  moved over records the server has, replaced when it is empty or wiped, and
  otherwise only grows. An erase or a programming touches none of its
  slots unless `overrun` is recorded, by the lemmas above.
- `PostsStored`: `Spec => []PostedGenuine`. `GenuineInv` adds that the saved window holds
  stored records only.
- `WritesClean`: `Spec => []CleanWrites` for a ring of more than one sector. The
  invariant says which slots are blank: those from the write index to the
  end of its sector (`Reach`, `Clear`), in RAM and after a restart. With a single
  sector it is false: a batch that wraps programs both ends of the sector, and
  the next one opens no sector and meets them.

`ForwardProof` proves `ImplementsQueue`: `Spec => ForwardsInOrder`, for every ring, batch
and round. Each action is shown to be a step of `ForwardQueue` or to leave the queue
as it is. `SaveW` appends a reading, `Accept` delivers the front of the queue,
`SaveR` lets it go and the reset command empties it. A sector is skipped only when the
queue is empty. Everything else, a reset included, leaves the saved window and its slots alone. The invariants of
`LoggerProof` say what the window holds; the lemmas on sequences read it as a queue.

`LoopClockProof` proves, for all intervals, any network and any number of resets:

- `ClockNeverAhead`: `Spec => []NeverAhead`. The invariant `ClockInv` adds that no
  queued answer is from the future and that the epoch, taken with the time it is
  counted from, exceeds the true time by the polls for one answer at most.
- `ReadingInTime`: `Spec => []ReadingNotDelayed`. The invariant `DelayInv` says that
  `lastTime` is zero, or was shown by the clock as it is set now at the last
  reading or step back or earlier. In the one place where a step back
  breaks this, the correction in `loop` (1392) restores it before the due test.
- `ClockTyped`: `Spec => []TypeOK`, with the limit of the socket's queue.
- `ClockSynced`: `Spec => []SyncedWithin`. `SyncInv` says that, as long as no answer was
  late, the socket is empty outside `forceUpdate` and in it holds at most the
  answer to the request that was sent, stamped since.
- `ReadingsApart`: `Spec => ReadingsSpaced`, from the same invariant: both readings were
  timed by a clock that is right up to the wait for an answer.

`ConfigProof` proves, for all texts that fit the buffer, all page sizes and any number of
cards, faults and resets:

- `ConfigTyped`: `Spec => []TypeOK`; the lemmas on division say that the pages of a text
  stay inside the sector.
- `BackupKept`: `Spec => []BackupServes`, and `NoMixture`: `Spec => []NeverMixed`. `CutInv`
  says that a sector that is not spoilt holds the first pages of one text and
  is blank behind them; a reset shortens the text but never mixes it. `OwedInv` says that a
  copy that is owed is whole until the erase that ends the debt.

`SPIFlashProof` proves, for all page and sector sizes and all lengths of a write:

- `FlashTyped`: `Spec => []TypeOK`, with `CallInv`: which stages a call can be in, and
  that a write stays inside its buffer.
- `WritesHold`, `ProgramsBlank`, `ErasesTaken`: the safety invariants of `flash_chip`, and
  `CallsWait`: a call that returned true leaves no job running in the chip. `ReadyInv` is what the driver knows of the chip: between a poll that
  found it ready and the next command it is idle, except after the first poll after
  a reset, which may take data for the status. `LatchInv` is what it knows of
  the write-enable latch. `PagesInv` says that in a write the cells still to be sent
  are blank and that a job is about cells that have been sent. The lemma `PieceInPage`
  shows that no piece that `writeByteArray` sends crosses the end of a page,
  where the chip would wrap.
- `DriverStores`: `Spec => ImplementsStore`. Each action of driver and chip is shown to be a
  step of `FlashStore` under the mapping of `ChipStore`, or to leave the store as it is.
  `StoreInv` adds what the mapping needs: a chip that is not busy has no job, the job
  of a write carries the data of that write, and when the job of an erase is over the
  sector is blank or torn. The poll that ends a write or an erase confirms it;
  a call that fails, a reset and a power cut leave it, with every outcome for the cells
  that are open. The lemmas `DeafBoolean`, `NotDeafer` and `GiveUpLands` follow the chip that was left
  selected: only a write that is given up makes it deaf, and only an erase that is the very next call is
  ignored, as `IgnoreErase` says. That nothing is begun while something is open is `ReadyInv`.

`ModbusProof` proves, for all meters, blocks and block sizes and on any line:

- `LinkTyped`: `Spec => []TypeOK`.
- `ReplyRight`: `Spec => []RightReply`. `HeaderInv` says that a header that was
  looked at names the address and function that were asked. `PlaceInv` says that words keep their place in
  the buffer and in `md`. So every word up to the end of the accepted reply is the reply's own, and its first
  word (`Source`) tells which reply it was.
- `RepliesOnce`: `Spec => []ReplyUsedOnce`. The first byte of a reply is its identity.
  It is in flight, in the receive queue or at the head of the frame,
  and in one of these at most (`OnceInv`); requests are made in a strict order,
  and every reply on its way or used is to one that was made (`OrderInv`); a reply
  that was accepted is nowhere on its way (`SpentInv`). Words left in the buffer by earlier replies do not
  matter: the first word of a block is always of the reply that was accepted for it.
- `ReadingsConsistent`: `Spec => []ReadingConsistent`. On an undisturbed line nothing
  but the reply to the present request is in flight, queue and frame, and
  what was taken in this pass is right (`CleanInv`). Such a reply has as many words as were
  asked for, so nothing older shows behind it.

`WatchdogProof` proves, for all times of the operations, all timeouts and any
number of meters, posts, records and hangs:

- `WatchdogTyped`: `Spec => []TypeOK`, from `Flags` and `Numbers`. `Numbers` adds that
  in a round there is a request left, and no more than a round has.
- `GuardedAlways`: `Spec => []GuardedOutsideCalls`. `GuardInv` says in which places the
  hardware watchdog is off, not only that it is off in no other.
- `NotBitten`: `Spec => []HealthyNotBitten`. `HealthInv` bounds at each place what both
  watchdogs have counted by the time of the operations since the last feeding.
  In a round of posts the count grows with each request: the bound is the wait for the
  network and the time of the requests that have been answered (`Answered`), and each answer adds
  one to these. Where nothing is awaited neither watchdog has anything to bite for. `GuardInv`
  is needed because the hardware watchdog does not count in network calls.
- `NoServerReported`, `MeterReported`, `RestartTold`: the three properties of the status
  bits. `StatusInv` adds the place between the check's answer and the report,
  and that a pass that missed a meter has ended: the next meter to be read is the first.

`AlgorithmsProof` proves, for any number of samples of any width, and for every day of the
century:

- `MeanTrimmed`: `Spec => []IsTrimmedMean`, and `MeanRobust`: `Spec => []Robust`. TLC
  reaches 8 samples of 4 values; the code takes 16 of 4096. `MeanInv` says that
  there is an arrangement of the samples in order, and that `low` and `high` are its
  first three and last three, filled up by the initial values while there are fewer.
  A sample is put into the arrangement where the nested tests put it, and the
  sum stays the same. At the end the arrangement names the places that are
  left out. For `Robust`, one of the four least and one of the four greatest samples is
  not among any three wrong ones.
- `CalendarRight`: `ChipSpec => []CalendarAgrees`, `ClockTrusted`:
  `ChipSpec => []TrustsSetClock` and `StampsRight`: `ChipSpec => []StampRight`. `CalendarInv` says
  that the true day is the number of the civil date, and that a chip that was set shows
  the civil date and one that was not the first day. `YearStart` and `DaysBefore`, the sums that
  the loops of `DateTime(t)` and `date2days` build up, are shown to be what the calendar
  gives in closed form, so that the loops stop at the year and the month of the date
  whose number they are given. For `StampRight` the days are counted that `mktime` makes
  of a month that is 20 too large.

What the recursive functions of these two modules compute is proved by least
counterexample: the lemma `Least`, that a set of naturals that is not empty has a least
element, follows from `WFMin` of the library, which takes no operator, and the value before the least
counterexample settles it.

The proofs rest on the named assumptions of the modules, which TLC evaluates in every
run of the modules concerned: `RingAssumption`, `LoggerAssumption`, `BlankAssumption`,
`ClockAssumption`, `TimingAssumption`, `ConfigAssumption`, `PartAssumption`,
`ChipAssumption`, `DataAssumption`, `ModbusAssumption`, `MeanAssumption` and `YearAssumption`. Most say that sizes are
positive and that the marks for blank and torn flash are no data. The others:

- `ClockAssumption` includes that no clock shows a time less than an interval after
  1970: `now()` adds 2000 to the year of the chip.
- `ConfigAssumption` includes that a text is shorter than the sector, which is the size of
  the buffer `writeConfigFlash` copies it to without a test of the length.
- `ModbusAssumption` has at most 127 registers in a block, because a reply gives the
  number of its bytes in one byte.
- `MeanAssumption` has more than six samples, and `YearAssumption` years from 2000 to
  2099, for which `RTClib` is made.
- `WritesClean` has the hypothesis `Sectors > 1`: the ring is all of the chip but two sectors.

Only model-checked: liveness (`EventuallyPosted`, `CallsReturn`, `HangEnds`), which is
beyond the proof system. Every invariant, every action property and both refinements that
the runs check are theorems.

## 6. Not modelled

`PROJECT.json` gives the reason for each component. The repository is mostly
vendored: the Arduino core for the ESP32 with its SDK headers and stock
libraries, of which the logger's own code (`main.cpp` and nine libraries) is a small part.

- Third-party code: the Arduino core, WiFi, the HTTP client, JSON, SD. A request is answered 200 or it
  is not, and may have had its effect in both cases.
- The 3G uplink (`UC20`, `ENRES3G`, `ENRESClient`): commented out in `main.cpp`.
- Of the flash driver and of `RTClib`, what the logger does not call.
- Values: register addresses, unit conversions and floating-point arithmetic
  of the meters and sensors, the text of the requests.
- LEDs, serial output, the pins and pulses of the hardware watchdog.
- Drift of the clocks and rounding to seconds, in `LoopClock`.
- The indices are natural numbers: 2^32 records are not reached in the life of a
  logger.

Some configurations have a certain outcome that needs no run. A batch above 21
overruns the posting buffer (`main.cpp:384`); an assumption excludes it. A
sensor or flow logger that is configured for single posts never posts, since both
routines are empty (`main.cpp:640`). An interval of 10 s or less never posts
(`main.cpp:1419`).
