----------------------------- MODULE ModbusLink -----------------------------
(***************************************************************************)
(* The RS-485 master: ModbusMeter::masterTransaction and the chains of     *)
(* transactions of readMeterData, as ReadMeterToFlash_Task drives them.    *)
(* A pass asks every meter for every register block, in order, and is      *)
(* given up at the first error.  A reply is a sequence of bytes in the     *)
(* UART's receive queue, which the master does not empty before a request. *)
(*                                                                         *)
(* Bytes are known by the reply they belong to and their place in it: 1 is *)
(* the slave's id, 2 the function, 3 the byte count, then data and CRC.    *)
(* Words, the registers of a reply, are known likewise.  They pass through *)
(* the response buffer, which is never cleared: a reply overwrites as many *)
(* words as it has, and a block is read from it with as many as were asked *)
(* for, a number that is never compared with the other.                    *)
(***************************************************************************)
EXTENDS Sequences, Integers, SequencesExt

CONSTANTS Meters,    \* the configured meters, in the order they are asked
          Slave,       \* the RS-485 address of a meter
          Function,    \* the Modbus function a meter's blocks are read with
          Words,       \* 16-bit registers in each block of a meter, by block
          MaxPasses    \* bound: passes in a behaviour

\* The byte count of a reply is one byte: at most 127 registers.
ASSUME ModbusAssumption ==
  /\ Meters \in Seq(DOMAIN Words) /\ Meters # <<>>
  /\ \A m \in DOMAIN Words : Words[m] \in Seq(1 .. 127) /\ Words[m] # <<>>
  /\ MaxPasses \in Nat \ {0}

\* A request: the pass it is part of, the place of the meter, the block.
Request == [pass : 0 .. MaxPasses + 1, meter : DOMAIN Meters, block : Nat]

Meter(r) == Meters[r.meter]

\* Registers asked for by r, bytes of data in its reply, and of the whole reply.
Quantity(r) == Words[Meter(r)][r.block]
DataBytes(r) == 2 * Quantity(r)
FrameSize(r) == DataBytes(r) + 5

Frame(r) == [i \in 1 .. FrameSize(r) |-> [of |-> r, at |-> i]]

VARIABLES
  ask,       \* the request being made, or to be made next
  listening, \* the request has been sent and the master reads
  flight,    \* requests whose reply is under way
  rx,        \* the UART's receive queue
  adu,       \* bytes read in this transaction
  left,      \* u8BytesLeft
  buffer,    \* _u16ResponseBuffer: the word in each place
  md,        \* the words each block's values were last taken from
  readings,  \* history: md as it was when a whole pass had succeeded
  disturbed  \* history: a reply was late, or bytes of one were lost

vars == <<ask, listening, flight, rx, adu, left, buffer, md, readings, disturbed>>

Blocks == UNION {{<<m, b>> : b \in DOMAIN Words[Meters[m]]} : m \in DOMAIN Meters}

\* Registers of block x, and the places of the response buffer in use.
Size(x) == Words[Meters[x[1]]][x[2]]
Places == UNION {1 .. Size(x) : x \in Blocks}

\* Words no reply has set: the buffer and md start at zero.
Unset == [pass |-> 0, meter |-> 1, block |-> 1]

FirstAsk(p) == [pass |-> p, meter |-> 1, block |-> 1]

Init ==
  /\ ask = FirstAsk(1)
  /\ listening = FALSE
  /\ flight = {} /\ rx = <<>> /\ adu = <<>> /\ left = 8
  /\ buffer = [i \in Places |-> [of |-> Unset, at |-> i]]
  /\ md = [x \in Blocks |-> [i \in 1 .. Size(x) |-> [of |-> Unset, at |-> i]]]
  /\ readings = {}
  /\ disturbed = FALSE

\* The receive queue is left as it is; the slave may be silent.
Transmit ==
  /\ ~listening /\ ask.pass <= MaxPasses
  /\ listening' = TRUE
  /\ flight' \in {flight, flight \union {ask}}
  /\ adu' = <<>> /\ left' = 8
  /\ UNCHANGED <<ask, rx, buffer, md, readings, disturbed>>

\* What may become of a reply on the line: its first byte, its byte count or
\* its last byte is lost.
Cut(r) == {RemoveAt(Frame(r), i) : i \in {1, 3, FrameSize(r)}}

\* A reply comes in.
Arrive(r) ==
  /\ r \in flight
  /\ flight' = flight \ {r}
  /\ \E f \in {Frame(r)} \union Cut(r) :
       /\ rx' = rx \o f
       /\ disturbed' = (disturbed \/ f # Frame(r))
  /\ UNCHANGED <<ask, listening, adu, left, buffer, md, readings>>

\* A fault the runs must notice: the last meter is taken for one before.
LastAskBeyond(r) == r.meter > Len(Meters) /\ r.block = Len(Words[Meter(r)])

\* r asks for the last block of the last meter.
LastAsk(r) == r.meter = Len(Meters) /\ r.block = Len(Words[Meter(r)])

\* The request after r in its pass.
NextAsk(r) ==
  IF r.block < Len(Words[Meter(r)]) THEN [r EXCEPT !.block = @ + 1]
  ELSE [r EXCEPT !.meter = @ + 1, !.block = 1]

\* A fault the runs must notice: the error is ignored and the pass goes on.
CarryOn ==
  /\ listening' = FALSE
  /\ ask' = IF LastAsk(ask) THEN FirstAsk(ask.pass + 1) ELSE NextAsk(ask)

\* The transaction ends with an error: the pass is given up, a new one starts.
GiveUp ==
  /\ listening' = FALSE
  /\ ask' = FirstAsk(ask.pass + 1)

\* A fault the runs must notice: the slave's address is not compared.
HeaderUnaddressed(bytes) == Function[Meter(bytes[2].of)] = Function[Meter(ask)]

\* The first two of five bytes name the slave and the function asked for.
HeaderFits(bytes) ==
  /\ Slave[Meter(bytes[1].of)] = Slave[Meter(ask)]
  /\ Function[Meter(bytes[2].of)] = Function[Meter(ask)]

\* Whether the header passes the tests.  Bytes out of place may look like any.
HeaderLooks(bytes) ==
  IF bytes[1].at = 1 /\ bytes[2].at = 2 THEN {HeaderFits(bytes)} ELSE BOOLEAN

\* The byte count that is believed.  A third byte that is no count may stand
\* for none, for some bytes or for more than will ever come.
Counts(bytes) ==
  IF bytes[3].at = 3 THEN {DataBytes(bytes[3].of)} ELSE {0, 2, 4, 255}

\* The CRC is right: these are the bytes of one frame in order.
CrcFits(bytes) == bytes = Frame(bytes[1].of)

\* A byte that is not the fifth nor the last of the frame.
ReadByte ==
  /\ listening /\ rx # <<>>
  /\ Len(adu) + 1 # 5 /\ left > 1
  /\ adu' = Append(adu, Head(rx))
  /\ rx' = Tail(rx)
  /\ left' = left - 1
  /\ UNCHANGED <<ask, listening, flight, buffer, md, readings, disturbed>>

\* The fifth byte: the header is looked at and its byte count believed.  With
\* a count of zero the loop ends, and five bytes of a frame have no right CRC.
ReadFifth ==
  /\ listening /\ rx # <<>>
  /\ Len(adu) + 1 = 5
  /\ rx' = Tail(rx)
  /\ LET bytes == Append(adu, Head(rx)) IN
       \E fits \in HeaderLooks(bytes), n \in Counts(bytes) :
         IF fits /\ n > 0
         THEN adu' = bytes /\ left' = n /\ UNCHANGED <<ask, listening>>
         ELSE GiveUp /\ UNCHANGED <<adu, left>>
  /\ UNCHANGED <<flight, buffer, md, readings, disturbed>>

\* A fault the runs must notice: the last word is not loaded.
LoadedShort(r) ==
  [i \in Places |-> IF i < Quantity(r) THEN [of |-> r, at |-> i] ELSE buffer[i]]

\* The buffer after reply r: its words are loaded, beyond them nothing changes.
Loaded(r) ==
  [i \in Places |-> IF i <= Quantity(r) THEN [of |-> r, at |-> i] ELSE buffer[i]]

\* The reply is loaded and the block is read from the buffer, in the quantity
\* that was asked for; the pass goes on or is complete.
TakeOver(r) ==
  /\ listening' = FALSE
  /\ buffer' = Loaded(r)
  /\ md' = [md EXCEPT ![<<ask.meter, ask.block>>] = [i \in 1 .. Quantity(ask) |-> Loaded(r)[i]]]
  /\ ask' = IF LastAsk(ask) THEN FirstAsk(ask.pass + 1) ELSE NextAsk(ask)
  /\ readings' = IF LastAsk(ask)
                 THEN readings \union {[pass |-> ask.pass, md |-> md']} ELSE readings

\* The last byte.  It may come in so late that the time is over all the same.
ReadLast ==
  /\ listening /\ rx # <<>>
  /\ Len(adu) + 1 > 5 /\ left = 1
  /\ rx' = Tail(rx)
  /\ LET bytes == Append(adu, Head(rx)) IN
       \/ CrcFits(bytes) /\ TakeOver(bytes[1].of) /\ UNCHANGED disturbed
       \/ ~CrcFits(bytes) /\ GiveUp /\ UNCHANGED <<buffer, md, readings, disturbed>>
       \/ GiveUp /\ disturbed' = TRUE /\ UNCHANGED <<buffer, md, readings>>
  /\ UNCHANGED <<flight, adu, left>>

\* 500 ms are over.  A punctual slave has answered by then or never will; a
\* late one leaves its reply, or the rest of it, to the next transaction.
Timeout ==
  /\ listening
  /\ GiveUp
  /\ disturbed' = (disturbed \/ rx # <<>> \/ ask \in flight)
  /\ UNCHANGED <<flight, rx, adu, left, buffer, md, readings>>

\* The bound on passes is reached.
Horizon == ask.pass > MaxPasses /\ UNCHANGED vars

Next ==
  \/ Transmit
  \/ \E r \in flight : Arrive(r)
  \/ ReadByte \/ ReadFifth \/ ReadLast \/ Timeout
  \/ Horizon

Spec == Init /\ [][Next]_vars

-----------------------------------------------------------------------------

\* The state is well formed: bytes and words name replies to requests.
TypeOK ==
  /\ ask \in Request
  /\ listening \in BOOLEAN
  /\ flight \subseteq Request
  /\ \A i \in DOMAIN rx : rx[i].of \in Request
  /\ \A i \in DOMAIN adu : adu[i].of \in Request
  /\ left \in 0 .. 255
  /\ \A i \in Places : buffer[i].of \in Request
  /\ \A x \in Blocks : /\ Len(md[x]) = Size(x)
                       /\ \A i \in 1 .. Size(x) : md[x][i].of \in Request
  /\ disturbed \in BOOLEAN

\* The reply that was accepted for a block: it set the first word at least.
Source(words) == words[1].of

\* The tests of masterTransaction are enough for the reply they accept: it is
\* of a meter with the address asked and the function asked, it is whole, and
\* each of its words stands in its own place, however replies are delayed, cut
\* or run together.  Words beyond its end are not promised: see RightMeter.
RightReply ==
  \A x \in Blocks : LET r == Source(md[x]) IN r # Unset =>
    /\ Slave[Meter(r)] = Slave[Meters[x[1]]]
    /\ Function[Meter(r)] = Function[Meters[x[1]]]
    /\ \A i \in 1 .. Size(x) : /\ md[x][i].at = i
                               /\ i <= Quantity(r) => md[x][i].of = r

\* A stored reading holds what was asked for: every word of a block comes from
\* the reply to that block's request in the same pass, as long as the line has
\* lost nothing and the slaves have answered within the timeout or not at all.
\* The buffer's old words, and blocks of a pass given up, never show then.
ReadingConsistent ==
  ~disturbed =>
    \A g \in readings : \A x \in Blocks : \A i \in 1 .. Size(x) :
      g.md[x][i] = [of |-> [pass |-> g.pass, meter |-> x[1], block |-> x[2]], at |-> i]

\* No reply is accepted twice: in a stored reading every block was read after a
\* reply of its own, one that no other block and no other pass accepted, on any
\* line and although the receive queue is never emptied.  That a block longer
\* than its reply shows old words besides is not excluded.
ReplyUsedOnce ==
  \A g, h \in readings : \A x, y \in Blocks :
    Source(g.md[x]) = Source(h.md[y]) => g.pass = h.pass /\ x = y

\* The comments at the response buffer ("buffer to store Modbus slave response")
\* and in masterTransaction ("verify response is for correct Modbus slave"): what
\* is read for a block is that slave's response.
RightMeter ==
  \A x \in Blocks : \A i \in 1 .. Size(x) :
    md[x][i].of # Unset => Slave[Meter(md[x][i].of)] = Slave[Meters[x[1]]]

=============================================================================
