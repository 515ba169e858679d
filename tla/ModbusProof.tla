----------------------------- MODULE ModbusProof -----------------------------
(***************************************************************************)
(* What the readings of the energy meters may be relied on for, whatever   *)
(* meters, blocks and block sizes are configured: the type of the state,   *)
(* that the reply accepted for a block is whole and of a meter with the    *)
(* right address, that no reply is accepted twice, and that on an          *)
(* undisturbed line every word is of the answer to the request it is       *)
(* stored for.                                                             *)
(*                                                                         *)
(* The first byte of a reply is its identity: it is sent once, it can head *)
(* a frame once, and a frame is believed only when its first byte comes    *)
(* first.  Requests are made in a strict order, so that a request that is  *)
(* about to be made has left no byte anywhere.                             *)
(***************************************************************************)
EXTENDS ModbusLink, SequenceTheorems, TLAPS

\* Requests for blocks that exist, and the bytes of replies to them.
Asks == {r \in Request : r.block \in DOMAIN Words[Meters[r.meter]]}
Bytes == [of : Asks, at : Nat]

\* What md may hold: as many words of replies as each block has.
Values == {v \in [Blocks -> Seq(Bytes)] : \A x \in Blocks : Len(v[x]) = Size(x)}

TypeInv ==
  /\ ask \in Asks /\ ask.pass >= 1
  /\ listening \in BOOLEAN /\ disturbed \in BOOLEAN
  /\ listening => ask.pass <= MaxPasses
  /\ flight \subseteq Asks
  /\ rx \in Seq(Bytes) /\ adu \in Seq(Bytes)
  /\ left \in 0 .. 255
  /\ buffer \in [Places -> Bytes]
  /\ md \in Values
  /\ readings \subseteq [pass : Nat, md : Values]

\* A word stays in its place, in the buffer and in md.
PlaceInv ==
  /\ \A i \in Places : buffer[i].at = i
  /\ \A x \in Blocks : \A i \in 1 .. Size(x) : md[x][i].at = i

\* A header that has been looked at names the meter that was asked.
HeaderInv ==
  listening /\ Len(adu) >= 5 /\ adu[1].at = 1 /\ adu[2].at = 2 => HeaderFits(adu)

\* r is asked for before s.
Before(r, s) ==
  \/ r.pass < s.pass
  \/ r.pass = s.pass /\ r.meter < s.meter
  \/ r.pass = s.pass /\ r.meter = s.meter /\ r.block < s.block

\* Block x has been read in the pass under way.
Taken(x) == x[1] < ask.meter \/ (x[1] = ask.meter /\ x[2] < ask.block)

\* The replies accepted for a stored reading, or for the next.
Used ==
  {Source(md[x]) : x \in {y \in Blocks : Taken(y)}}
    \union UNION {{Source(g.md[x]) : x \in Blocks} : g \in readings}

\* Reply r has its first byte in the queue, or at the head of the bytes read.
First(r) == [of |-> r, at |-> 1]
InQueue(r) == \E i \in 1 .. Len(rx) : rx[i] = First(r)
AtHead(r) == listening /\ Len(adu) >= 1 /\ adu[1] = First(r)

\* The first byte of a reply is in one place at most.
OnceInv ==
  /\ \A i, j \in 1 .. Len(rx) : rx[i].at = 1 /\ rx[i] = rx[j] => i = j
  /\ \A r \in flight : ~InQueue(r) /\ ~AtHead(r)
  /\ listening /\ Len(adu) >= 1 /\ adu[1].at = 1 => \A i \in 1 .. Len(rx) : rx[i] # adu[1]

\* The replies that are on their way are to requests that have been made, and
\* the ones that have been used to requests before the present one.
Made(r) == Before(r, ask) \/ (listening /\ r = ask)
OrderInv ==
  /\ \A r \in flight : Made(r)
  /\ \A i \in 1 .. Len(rx) : Made(rx[i].of)
  /\ listening /\ Len(adu) >= 1 => Made(adu[1].of)
  /\ \A r \in Used : Before(r, ask)

\* A reply that has been used is nowhere on its way.
SpentInv == \A r \in Used : r \notin flight /\ ~InQueue(r) /\ ~AtHead(r)

\* No reply is used twice.
DistinctInv ==
  /\ \A x, y \in Blocks : Taken(x) /\ Taken(y) /\ Source(md[x]) = Source(md[y]) => x = y
  /\ \A x, y \in Blocks, g \in readings : Taken(x) => Source(md[x]) # Source(g.md[y])
  /\ ReplyUsedOnce

\* On an undisturbed line: the reply being read is the one asked for, and the
\* blocks read so far hold the replies to their requests.
Whole ==
  /\ Len(rx) >= 1 /\ Len(adu) + Len(rx) = FrameSize(ask)
  /\ \A i \in 1 .. Len(adu) : adu[i] = [of |-> ask, at |-> i]
  /\ \A i \in 1 .. Len(rx) : rx[i] = [of |-> ask, at |-> Len(adu) + i]
  /\ left = IF Len(adu) < 5 THEN 8 - Len(adu) ELSE Len(rx)
LineClean ==
  /\ ~listening => flight = {} /\ rx = <<>>
  /\ listening => \/ flight \subseteq {ask} /\ rx = <<>> /\ adu = <<>> /\ left = 8
                  \/ flight = {} /\ Whole
Answer(p, x) == [pass |-> p, meter |-> x[1], block |-> x[2]]
Answers(p, x, words) == \A i \in 1 .. Size(x) : words[i] = [of |-> Answer(p, x), at |-> i]
ValuesClean == \A x \in Blocks : Taken(x) => Answers(ask.pass, x, md[x])
CleanInv == ~disturbed => LineClean /\ ValuesClean

-----------------------------------------------------------------------------
(* Meters, blocks and frames *)

LEMMA MetersType ==
  /\ Len(Meters) \in Nat \ {0} /\ DOMAIN Meters = 1 .. Len(Meters) /\ 1 \in DOMAIN Meters
  /\ \A m \in DOMAIN Meters :
       LET w == Words[Meters[m]] IN
         /\ w \in Seq(1 .. 127) /\ Len(w) \in Nat \ {0} /\ DOMAIN w = 1 .. Len(w)
         /\ \A b \in DOMAIN w : w[b] \in 1 .. 127
<1>1. Meters \in Seq(DOMAIN Words) /\ Meters # <<>>
  BY ModbusAssumption
<1>2. Len(Meters) \in Nat \ {0} /\ DOMAIN Meters = 1 .. Len(Meters)
  BY <1>1, EmptySeq, LenProperties
<1>3. ASSUME NEW m \in DOMAIN Meters
      PROVE  LET w == Words[Meters[m]] IN
               /\ w \in Seq(1 .. 127) /\ Len(w) \in Nat \ {0} /\ DOMAIN w = 1 .. Len(w)
               /\ \A b \in DOMAIN w : w[b] \in 1 .. 127
  <2>1. Meters[m] \in DOMAIN Words
    BY <1>1, <1>2, ElementOfSeq
  <2>2. PICK w : w = Words[Meters[m]]
    OBVIOUS
  <2>3. w \in Seq(1 .. 127) /\ w # <<>>
    BY <2>1, <2>2, ModbusAssumption
  <2>4. Len(w) \in Nat \ {0} /\ DOMAIN w = 1 .. Len(w)
    BY <2>3, EmptySeq, LenProperties
  <2>5. \A b \in DOMAIN w : w[b] \in 1 .. 127
    BY <2>3, <2>4, ElementOfSeq
  <2> QED BY <2>2, <2>3, <2>4, <2>5
<1>4. 1 \in DOMAIN Meters
  BY <1>2
<1> QED BY <1>2, <1>3, <1>4

LEMMA AskType ==
  ASSUME NEW r \in Asks
  PROVE  /\ r \in Request /\ r.pass \in 0 .. MaxPasses + 1
         /\ r.meter \in DOMAIN Meters /\ r.meter \in 1 .. Len(Meters)
         /\ Len(Words[Meter(r)]) \in Nat \ {0}
         /\ r.block \in DOMAIN Words[Meter(r)] /\ r.block \in 1 .. Len(Words[Meter(r)])
         /\ DataBytes(r) \in 2 .. 254 /\ FrameSize(r) = DataBytes(r) + 5 /\ FrameSize(r) \in 7 .. 259
         /\ r = [pass |-> r.pass, meter |-> r.meter, block |-> r.block]
<1>1. r \in Request /\ r.block \in DOMAIN Words[Meter(r)]
  BY DEF Asks, Meter
<1>2. /\ r.pass \in 0 .. MaxPasses + 1 /\ r.meter \in DOMAIN Meters
      /\ r = [pass |-> r.pass, meter |-> r.meter, block |-> r.block]
  BY <1>1 DEF Request
<1>3. /\ Len(Words[Meter(r)]) \in Nat \ {0}
      /\ DOMAIN Words[Meter(r)] = 1 .. Len(Words[Meter(r)])
      /\ Words[Meter(r)][r.block] \in 1 .. 127
      /\ DOMAIN Meters = 1 .. Len(Meters)
  BY <1>1, <1>2, MetersType DEF Meter
<1>4. DataBytes(r) \in 2 .. 254
  <2>1. PICK w \in 1 .. 127 : w = Words[Meter(r)][r.block]
    BY <1>3
  <2>2. DataBytes(r) = 2 * w
    BY <2>1 DEF DataBytes, Quantity
  <2> QED BY <2>2
<1>5. FrameSize(r) = DataBytes(r) + 5 /\ FrameSize(r) \in 7 .. 259
  BY <1>4 DEF FrameSize
<1> QED BY <1>1, <1>2, <1>3, <1>4, <1>5

LEMMA MakeAsk ==
  ASSUME NEW p \in 0 .. MaxPasses + 1, NEW m \in DOMAIN Meters, NEW b \in DOMAIN Words[Meters[m]]
  PROVE  [pass |-> p, meter |-> m, block |-> b] \in Asks
<1>1. b \in Nat
  BY MetersType
<1> QED BY <1>1 DEF Asks, Request

LEMMA FirstAskType ==
  ASSUME NEW p \in 0 .. MaxPasses + 1
  PROVE  FirstAsk(p) \in Asks /\ FirstAsk(p).pass = p
<1>1. 1 \in DOMAIN Meters /\ 1 \in DOMAIN Words[Meters[1]]
  BY MetersType
<1> QED BY <1>1, MakeAsk DEF FirstAsk

LEMMA UnsetType == Unset \in Asks
<1>1. 1 \in DOMAIN Meters /\ 1 \in DOMAIN Words[Meters[1]] /\ 0 \in 0 .. MaxPasses + 1
  BY MetersType, ModbusAssumption
<1> QED BY <1>1, MakeAsk DEF Unset

LEMMA BlockType ==
  /\ \A x \in Blocks : /\ x = <<x[1], x[2]>> /\ x[1] \in 1 .. Len(Meters)
                       /\ x[2] \in 1 .. Len(Words[Meters[x[1]]])
                       /\ Len(Words[Meters[x[1]]]) \in Nat
  /\ \A r \in Asks : <<r.meter, r.block>> \in Blocks
<1>1. ASSUME NEW x \in Blocks
      PROVE  /\ x = <<x[1], x[2]>> /\ x[1] \in 1 .. Len(Meters)
             /\ x[2] \in 1 .. Len(Words[Meters[x[1]]])
             /\ Len(Words[Meters[x[1]]]) \in Nat
  <2>1. PICK m \in DOMAIN Meters : \E b \in DOMAIN Words[Meters[m]] : x = <<m, b>>
    BY DEF Blocks
  <2>2. PICK b \in DOMAIN Words[Meters[m]] : x = <<m, b>>
    BY <2>1
  <2>3. x[1] = m /\ x[2] = b
    BY <2>2
  <2> QED BY <2>2, <2>3, MetersType
<1>2. ASSUME NEW r \in Asks PROVE <<r.meter, r.block>> \in Blocks
  <2>1. r.meter \in DOMAIN Meters /\ r.block \in DOMAIN Words[Meters[r.meter]]
    BY AskType DEF Meter
  <2> QED BY <2>1 DEF Blocks
<1> QED BY <1>1, <1>2

\* The registers of a block fit into the places of the buffer.
LEMMA SizeType ==
  /\ \A x \in Blocks : /\ Size(x) \in 1 .. 127 /\ 1 \in 1 .. Size(x)
                       /\ 1 .. Size(x) \subseteq Places
  /\ Places \subseteq Nat
  /\ \A r \in Asks : Quantity(r) \in 1 .. 127 /\ Quantity(r) = Size(<<r.meter, r.block>>)
<1>1. ASSUME NEW x \in Blocks
      PROVE  Size(x) \in 1 .. 127 /\ 1 \in 1 .. Size(x) /\ 1 .. Size(x) \subseteq Places
  <2>1. x[1] \in DOMAIN Meters /\ x[2] \in DOMAIN Words[Meters[x[1]]]
    BY BlockType, MetersType
  <2>2. PICK n \in 1 .. 127 : n = Size(x)
    BY <2>1, MetersType DEF Size
  <2>3. 1 \in 1 .. n
    OBVIOUS
  <2>4. 1 .. Size(x) \subseteq Places
    BY DEF Places
  <2> QED BY <2>2, <2>3, <2>4
<1>2. Places \subseteq Nat
  <2>1. \A x \in Blocks : 1 .. Size(x) \subseteq Nat
    OBVIOUS
  <2> QED BY <2>1 DEF Places
<1>3. ASSUME NEW r \in Asks
      PROVE  Quantity(r) \in 1 .. 127 /\ Quantity(r) = Size(<<r.meter, r.block>>)
  <2>1. Quantity(r) = Size(<<r.meter, r.block>>)
    BY DEF Quantity, Size, Meter
  <2> QED BY <1>1, <2>1, BlockType
<1> QED BY <1>1, <1>2, <1>3

\* The pass goes on with the next block, and comes to every block.
LEMMA NextAskType ==
  ASSUME NEW r \in Asks, ~LastAsk(r)
  PROVE  /\ NextAsk(r) \in Asks /\ NextAsk(r).pass = r.pass
         /\ \/ NextAsk(r).meter = r.meter /\ NextAsk(r).block = r.block + 1
            \/ /\ r.block = Len(Words[Meter(r)])
               /\ NextAsk(r).meter = r.meter + 1 /\ NextAsk(r).block = 1
<1>1. /\ r.pass \in 0 .. MaxPasses + 1 /\ r.meter \in 1 .. Len(Meters)
      /\ r.block \in 1 .. Len(Words[Meter(r)]) /\ Len(Words[Meter(r)]) \in Nat \ {0}
      /\ r = [pass |-> r.pass, meter |-> r.meter, block |-> r.block]
  BY AskType
<1>2. Len(Meters) \in Nat /\ DOMAIN Meters = 1 .. Len(Meters)
  BY MetersType
<1>3. CASE r.block < Len(Words[Meter(r)])
  <2>1. NextAsk(r) = [pass |-> r.pass, meter |-> r.meter, block |-> r.block + 1]
    BY <1>1, <1>3 DEF NextAsk
  <2>2. r.meter \in DOMAIN Meters /\ r.block + 1 \in DOMAIN Words[Meters[r.meter]]
    BY <1>1, <1>2, <1>3, MetersType DEF Meter
  <2>3. NextAsk(r) \in Asks
    BY <1>1, <2>1, <2>2, MakeAsk
  <2> QED BY <2>1, <2>3
<1>4. CASE ~(r.block < Len(Words[Meter(r)]))
  <2>1. NextAsk(r) = [pass |-> r.pass, meter |-> r.meter + 1, block |-> 1]
    BY <1>1, <1>4 DEF NextAsk
  <2>2. r.block = Len(Words[Meter(r)]) /\ r.meter # Len(Meters)
    BY <1>1, <1>4 DEF LastAsk
  <2>3. r.meter + 1 \in DOMAIN Meters
    BY <1>1, <1>2, <2>2
  <2>4. 1 \in DOMAIN Words[Meters[r.meter + 1]]
    BY <2>3, MetersType
  <2>5. NextAsk(r) \in Asks
    BY <1>1, <2>1, <2>3, <2>4, MakeAsk
  <2> QED BY <2>1, <2>2, <2>5
<1> QED BY <1>3, <1>4

LEMMA FrameType ==
  ASSUME NEW r \in Asks
  PROVE  /\ Frame(r) \in Seq(Bytes) /\ Len(Frame(r)) = FrameSize(r)
         /\ \A i \in 1 .. FrameSize(r) : Frame(r)[i] = [of |-> r, at |-> i]
<1>1. PICK n \in Nat : n = FrameSize(r)
  <2>1. FrameSize(r) \in 7 .. 259
    BY AskType
  <2>2. FrameSize(r) \in Nat
    BY <2>1
  <2> QED BY <2>2
<1>2. \A i \in 1 .. n : [of |-> r, at |-> i] \in Bytes
  BY DEF Bytes
<1>3. Frame(r) = [i \in 1 .. n |-> [of |-> r, at |-> i]]
  BY <1>1 DEF Frame
<1>4. Frame(r) \in Seq(Bytes) /\ Len(Frame(r)) = n
  BY <1>2, <1>3
<1> QED BY <1>1, <1>3, <1>4

LEMMA ByteOf ==
  ASSUME NEW s \in Seq(Bytes), NEW i \in 1 .. Len(s)
  PROVE  /\ s[i] \in Bytes /\ s[i].of \in Asks /\ s[i].at \in Nat
         /\ s[i] = [of |-> s[i].of, at |-> s[i].at]
<1>1. s[i] \in Bytes
  BY ElementOfSeq
<1> QED BY <1>1 DEF Bytes

\* A reply as it comes in, whole or cut: bytes of that reply, none of them twice.
LEMMA ReplyType ==
  ASSUME NEW r \in Asks, NEW f \in {Frame(r)} \union Cut(r)
  PROVE  /\ f \in Seq(Bytes) /\ Len(f) \in Nat
         /\ \A i \in 1 .. Len(f) : f[i].of = r
         /\ \A i, j \in 1 .. Len(f) : f[i] = f[j] => i = j
<1>1. FrameSize(r) \in 7 .. 259
  BY AskType
<1>2. PICK n \in Nat : n = FrameSize(r) /\ n \in 7 .. 259
  BY <1>1
<1>3. PICK F : F = Frame(r)
  OBVIOUS
<1>4. F \in Seq(Bytes) /\ Len(F) = n /\ \A i \in 1 .. n : F[i] = [of |-> r, at |-> i]
  BY <1>2, <1>3, FrameType
<1>5. \A i \in 1 .. n : F[i].of = r /\ F[i].at = i /\ F[i] \in Bytes
  BY <1>4 DEF Bytes
<1>6. CASE f = F
  <2>1. ASSUME NEW i \in 1 .. Len(f), NEW j \in 1 .. Len(f), f[i] = f[j] PROVE i = j
    BY <1>4, <1>5, <1>6, <2>1
  <2> QED BY <1>4, <1>5, <1>6, <2>1
<1>7. CASE f \in Cut(r)
  <2>1. PICK k \in {1, 3, n} : f = RemoveAt(F, k)
    BY <1>2, <1>3, <1>7 DEF Cut
  <2>2. k \in 1 .. n
    BY <1>2, <2>1
  <2> DEFINE s == SubSeq(F, 1, k - 1)
             t == SubSeq(F, k + 1, n)
  <2>3. f = s \o t
    BY <1>4, <2>1 DEF RemoveAt
  <2>4. s \in Seq(Bytes) /\ Len(s) = k - 1 /\ \A i \in 1 .. k - 1 : s[i] = F[i]
    <3>1. 1 \in Int /\ k - 1 \in Int /\ \A i \in 1 .. k - 1 : F[i] \in Bytes
      BY <1>5, <2>2
    <3>2. /\ s \in Seq(Bytes)
          /\ Len(s) = IF 1 <= k - 1 THEN (k - 1) - 1 + 1 ELSE 0
          /\ \A i \in 1 .. (k - 1) - 1 + 1 : s[i] = F[1 + i - 1]
      BY <3>1, SubSeqProperties
    <3>3. \A i \in 1 .. k - 1 : s[i] = F[i]
      BY <2>2, <3>2
    <3> QED BY <2>2, <3>2, <3>3
  <2>5. t \in Seq(Bytes) /\ Len(t) = n - k /\ \A i \in 1 .. n - k : t[i] = F[k + i]
    <3>1. k + 1 \in Int /\ n \in Int /\ \A i \in k + 1 .. n : F[i] \in Bytes
      BY <1>2, <1>5, <2>2
    <3>2. /\ t \in Seq(Bytes)
          /\ Len(t) = IF k + 1 <= n THEN n - (k + 1) + 1 ELSE 0
          /\ \A i \in 1 .. n - (k + 1) + 1 : t[i] = F[(k + 1) + i - 1]
      BY <3>1, SubSeqProperties
    <3>3. \A i \in 1 .. n - k : t[i] = F[k + i]
      BY <1>2, <2>2, <3>2
    <3> QED BY <1>2, <2>2, <3>2, <3>3
  <2> HIDE DEF s, t
  <2>6. /\ f \in Seq(Bytes) /\ Len(f) = Len(s) + Len(t)
        /\ \A i \in 1 .. Len(s) + Len(t) : f[i] = IF i <= Len(s) THEN s[i] ELSE t[i - Len(s)]
    BY <2>3, <2>4, <2>5, ConcatProperties
  <2>7. Len(f) = n - 1 /\ Len(f) \in Nat
    BY <1>2, <2>2, <2>4, <2>5, <2>6
  <2>8. ASSUME NEW i \in 1 .. Len(f)
        PROVE  f[i].of = r /\ f[i].at = (IF i <= k - 1 THEN i ELSE i + 1)
    <3>0. i \in 1 .. n - 1 /\ i \in 1 .. Len(s) + Len(t) /\ Len(s) = k - 1
      BY <2>4, <2>6, <2>7
    <3>3. f[i] = IF i <= k - 1 THEN s[i] ELSE t[i - (k - 1)]
      BY <2>6, <3>0
    <3>1. CASE i <= k - 1
      <4>1. f[i] = s[i] /\ i \in 1 .. k - 1 /\ i \in 1 .. n
        BY <1>2, <2>2, <3>0, <3>3, <3>1
      <4>2. f[i] = F[i]
        BY <2>4, <4>1
      <4> QED BY <1>5, <3>1, <4>1, <4>2
    <3>2. CASE ~(i <= k - 1)
      <4>1. f[i] = t[i - (k - 1)] /\ i - (k - 1) \in 1 .. n - k
        BY <1>2, <2>2, <3>0, <3>3, <3>2
      <4>2. f[i] = F[i + 1] /\ i + 1 \in 1 .. n
        <5>1. k + (i - (k - 1)) = i + 1 /\ i + 1 \in 1 .. n
          BY <1>2, <2>2, <2>7
        <5> QED BY <2>5, <4>1, <5>1
      <4> QED BY <1>5, <3>2, <4>2
    <3> QED BY <3>1, <3>2
  <2>9. ASSUME NEW i \in 1 .. Len(f), NEW j \in 1 .. Len(f), f[i] = f[j] PROVE i = j
    BY <2>2, <2>7, <2>8, <2>9
  <2> QED BY <2>6, <2>7, <2>8, <2>9
<1> QED BY <1>3, <1>6, <1>7

\* What it is to read the next byte from the queue.
LEMMA TakeByte ==
  ASSUME TypeInv, rx # <<>>
  PROVE  /\ Len(rx) \in Nat \ {0} /\ Len(adu) \in Nat
         /\ Head(rx) = rx[1] /\ Head(rx) \in Bytes
         /\ Tail(rx) \in Seq(Bytes) /\ Len(Tail(rx)) = Len(rx) - 1
         /\ \A i \in 1 .. Len(rx) - 1 : Tail(rx)[i] = rx[i + 1]
         /\ Append(adu, Head(rx)) \in Seq(Bytes)
         /\ Len(Append(adu, Head(rx))) = Len(adu) + 1
         /\ \A i \in 1 .. Len(adu) : Append(adu, Head(rx))[i] = adu[i]
         /\ Append(adu, Head(rx))[Len(adu) + 1] = rx[1]
<1>1. rx \in Seq(Bytes) /\ adu \in Seq(Bytes)
  BY DEF TypeInv
<1>2. Len(rx) \in Nat \ {0} /\ Len(adu) \in Nat
  BY <1>1, EmptySeq, LenProperties
<1>3. /\ Head(rx) \in Bytes /\ Tail(rx) \in Seq(Bytes) /\ Len(Tail(rx)) = Len(rx) - 1
      /\ \A i \in 1 .. Len(Tail(rx)) : Tail(rx)[i] = rx[i + 1]
  BY <1>1, HeadTailProperties
<1>4. Head(rx) = rx[1]
  BY <1>1
<1>5. PICK b : b = Head(rx)
  OBVIOUS
<1>6. /\ Append(adu, b) \in Seq(Bytes) /\ Len(Append(adu, b)) = Len(adu) + 1
      /\ \A i \in 1 .. Len(adu) : Append(adu, b)[i] = adu[i]
      /\ Append(adu, b)[Len(adu) + 1] = b
  BY <1>1, <1>2, <1>3, <1>5, AppendProperties
<1> QED BY <1>2, <1>3, <1>4, <1>5, <1>6

-----------------------------------------------------------------------------
(* The type of the state *)

LEMMA LinkTypeInit == Init => TypeInv
<1> SUFFICES ASSUME Init PROVE TypeInv
  OBVIOUS
<1>1. ask \in Asks /\ ask.pass >= 1
  <2>1. 1 \in 0 .. MaxPasses + 1
    BY ModbusAssumption
  <2>2. FirstAsk(1) \in Asks /\ FirstAsk(1).pass = 1
    BY <2>1, FirstAskType
  <2> QED BY <2>2 DEF Init
<1>2. listening \in BOOLEAN /\ disturbed \in BOOLEAN /\ ~listening
  BY DEF Init
<1>3. rx \in Seq(Bytes) /\ adu \in Seq(Bytes)
  BY EmptySeq DEF Init
<1>4. md \in Values
  <2>1. md = [x \in Blocks |-> [i \in 1 .. Size(x) |-> [of |-> Unset, at |-> i]]]
    BY DEF Init
  <2>2. ASSUME NEW x \in Blocks
        PROVE  md[x] \in Seq(Bytes) /\ Len(md[x]) = Size(x)
    <3>1. PICK n \in 1 .. 127 : n = Size(x)
      BY SizeType
    <3>2. \A i \in 1 .. n : [of |-> Unset, at |-> i] \in Bytes
      BY UnsetType DEF Bytes
    <3>3. PICK w : w = [i \in 1 .. n |-> [of |-> Unset, at |-> i]]
      OBVIOUS
    <3>4. md[x] = w
      BY <2>1, <3>1, <3>3
    <3>5. w \in Seq(Bytes) /\ Len(w) = n
      BY <3>2, <3>3
    <3> QED BY <3>1, <3>4, <3>5
  <2> QED BY <2>1, <2>2 DEF Values
<1>7. buffer \in [Places -> Bytes]
  <2>1. \A i \in Places : [of |-> Unset, at |-> i] \in Bytes
    BY UnsetType, SizeType DEF Bytes
  <2> QED BY <2>1 DEF Init
<1>5. flight \subseteq Asks /\ readings \subseteq [pass : Nat, md : Values]
  BY DEF Init
<1>6. left \in 0 .. 255
  BY DEF Init
<1> QED BY <1>1, <1>2, <1>3, <1>4, <1>5, <1>6, <1>7 DEF TypeInv

\* The pass that follows.
LEMMA NextPass ==
  ASSUME TypeInv, listening
  PROVE  /\ FirstAsk(ask.pass + 1) \in Asks /\ FirstAsk(ask.pass + 1).pass = ask.pass + 1
         /\ ask.pass \in 1 .. MaxPasses
<1>1. ask.pass \in 1 .. MaxPasses
  BY AskType, ModbusAssumption DEF TypeInv
<1>2. ask.pass + 1 \in 0 .. MaxPasses + 1
  BY <1>1, ModbusAssumption
<1> QED BY <1>1, <1>2, FirstAskType

LEMMA TypeGiveUp ==
  ASSUME TypeInv, listening, GiveUp
  PROVE  ask' \in Asks /\ ask'.pass >= 1 /\ ~listening' /\ listening' \in BOOLEAN
<1>1. ask' \in Asks /\ ask'.pass >= 1
  BY NextPass DEF GiveUp
<1> QED BY <1>1 DEF GiveUp

Present == <<ask.meter, ask.block>>

\* What the block asked for is read from: the reply, and beyond it the buffer.
LEMMA WordsTaken ==
  ASSUME TypeInv, NEW r \in Asks, TakeOver(r)
  PROVE  /\ Present \in Blocks /\ Quantity(r) \in 1 .. 127 /\ 1 .. Size(Present) \subseteq Places
         /\ buffer' \in [Places -> Bytes]
         /\ \A i \in Places : buffer'[i] = IF i <= Quantity(r) THEN [of |-> r, at |-> i] ELSE buffer[i]
         /\ Size(Present) \in 1 .. 127 /\ Len(md'[Present]) = Size(Present)
         /\ md'[Present] \in Seq(Bytes) /\ Source(md'[Present]) = r
         /\ \A i \in 1 .. Size(Present) : md'[Present][i] = buffer'[i]
         /\ \A x \in Blocks : x # Present => md'[x] = md[x]
         /\ md' \in Values
<1>1. ask \in Asks /\ Present \in Blocks /\ Quantity(ask) = Size(Present)
  BY SizeType, BlockType DEF TypeInv, Present
<1>2. Size(Present) \in 1 .. 127 /\ 1 .. Size(Present) \subseteq Places /\ Places \subseteq Nat
  BY <1>1, SizeType
<1>3. Quantity(r) \in 1 .. 127
  BY SizeType
<1>4. buffer' = Loaded(r)
  BY DEF TakeOver
<1>5. /\ buffer' \in [Places -> Bytes]
      /\ \A i \in Places : buffer'[i] = IF i <= Quantity(r) THEN [of |-> r, at |-> i] ELSE buffer[i]
  <2>1. \A i \in Places : /\ [of |-> r, at |-> i] \in Bytes
                         /\ buffer[i] \in Bytes
    BY <1>2 DEF TypeInv, Bytes
  <2> QED BY <1>4, <2>1 DEF Loaded
<1>6. PICK n \in 1 .. 127 : n = Size(Present)
  BY <1>2
<1>7. md \in [Blocks -> Seq(Bytes)] /\ \A x \in Blocks : Len(md[x]) = Size(x)
  BY DEF TypeInv, Values
<1>8. PICK w : w = [i \in 1 .. n |-> buffer'[i]]
  OBVIOUS
<1>9. md' = [md EXCEPT ![Present] = w]
  BY <1>1, <1>4, <1>6, <1>8 DEF TakeOver, Present
<1>10. w \in Seq(Bytes) /\ Len(w) = n /\ \A i \in 1 .. n : w[i] = buffer'[i]
  <2>1. \A i \in 1 .. n : buffer'[i] \in Bytes
    BY <1>2, <1>5, <1>6
  <2> QED BY <1>8, <2>1
<1>11. md'[Present] = w /\ \A x \in Blocks : x # Present => md'[x] = md[x]
  BY <1>1, <1>7, <1>9
<1>12. Source(w) = r
  <2>1. 1 \in 1 .. n /\ 1 \in Places /\ 1 <= Quantity(r)
    BY <1>2, <1>3, <1>6
  <2>2. w[1] = [of |-> r, at |-> 1]
    BY <1>5, <1>10, <2>1
  <2> QED BY <2>2 DEF Source
<1>13. md' \in Values
  <2>1. md' \in [Blocks -> Seq(Bytes)]
    BY <1>7, <1>9, <1>10
  <2>2. \A x \in Blocks : Len(md'[x]) = Size(x)
    BY <1>6, <1>7, <1>10, <1>11
  <2> QED BY <2>1, <2>2 DEF Values
<1> QED BY <1>1, <1>2, <1>3, <1>5, <1>6, <1>10, <1>11, <1>12, <1>13

LEMMA TypeTakeOver ==
  ASSUME TypeInv, listening, NEW r \in Asks, TakeOver(r)
  PROVE  /\ ask' \in Asks /\ ask'.pass >= 1 /\ ~listening' /\ listening' \in BOOLEAN
         /\ buffer' \in [Places -> Bytes] /\ md' \in Values
         /\ readings' \subseteq [pass : Nat, md : Values]
<1>1. ask \in Asks /\ ask.pass \in 1 .. MaxPasses
  BY NextPass DEF TypeInv
<1>2. ask' \in Asks /\ ask'.pass >= 1
  <2>1. CASE LastAsk(ask)
    BY <1>1, <2>1, NextPass DEF TakeOver
  <2>2. CASE ~LastAsk(ask)
    BY <1>1, <2>2, NextAskType DEF TakeOver
  <2> QED BY <2>1, <2>2
<1>3. buffer' \in [Places -> Bytes] /\ md' \in Values
  BY WordsTaken
<1>4. [pass |-> ask.pass, md |-> md'] \in [pass : Nat, md : Values]
  BY <1>1, <1>3
<1>5. readings' \subseteq [pass : Nat, md : Values]
  BY <1>4 DEF TakeOver, TypeInv
<1> QED BY <1>2, <1>3, <1>5 DEF TakeOver

LEMMA LinkTypeStep == TypeInv /\ [Next]_vars => TypeInv'
<1> SUFFICES ASSUME TypeInv, [Next]_vars PROVE TypeInv'
  OBVIOUS
<1>1. CASE UNCHANGED vars
  BY <1>1 DEF vars, TypeInv
<1>2. CASE Transmit
  <2>1. UNCHANGED <<ask, rx, buffer, md, readings, disturbed>> /\ ask.pass <= MaxPasses
    BY <1>2 DEF Transmit
  <2>2. flight' \subseteq Asks /\ listening' \in BOOLEAN
    BY <1>2 DEF Transmit, TypeInv
  <2>3. adu' \in Seq(Bytes) /\ left' \in 0 .. 255
    BY <1>2, EmptySeq DEF Transmit
  <2> QED BY <2>1, <2>2, <2>3 DEF TypeInv
<1>3. ASSUME NEW r \in flight, Arrive(r) PROVE TypeInv'
  <2>1. PICK f \in {Frame(r)} \union Cut(r) :
          rx' = rx \o f /\ disturbed' = (disturbed \/ f # Frame(r))
    BY <1>3 DEF Arrive
  <2>2. r \in Asks
    BY DEF TypeInv
  <2>3. f \in Seq(Bytes)
    BY <2>2, ReplyType
  <2>4. rx' \in Seq(Bytes)
    BY <2>1, <2>3, ConcatProperties DEF TypeInv
  <2>5. disturbed' \in BOOLEAN
    BY <2>1
  <2>6. UNCHANGED <<ask, listening, adu, left, buffer, md, readings>> /\ flight' \subseteq Asks
    BY <1>3 DEF Arrive, TypeInv
  <2> QED BY <2>4, <2>5, <2>6 DEF TypeInv
<1>4. CASE ReadByte
  <2>1. /\ rx # <<>> /\ left > 1 /\ left' = left - 1
        /\ adu' = Append(adu, Head(rx)) /\ rx' = Tail(rx)
        /\ UNCHANGED <<ask, listening, flight, buffer, md, readings, disturbed>>
    BY <1>4 DEF ReadByte
  <2>2. adu' \in Seq(Bytes) /\ rx' \in Seq(Bytes)
    BY <2>1, TakeByte
  <2>3. left' \in 0 .. 255
    BY <2>1 DEF TypeInv
  <2> QED BY <2>1, <2>2, <2>3 DEF TypeInv
<1>5. CASE ReadFifth
  <2>1. /\ listening /\ rx # <<>> /\ Len(adu) + 1 = 5 /\ rx' = Tail(rx)
        /\ UNCHANGED <<flight, buffer, md, readings, disturbed>>
    BY <1>5 DEF ReadFifth
  <2>2. PICK bytes : bytes = Append(adu, Head(rx))
    OBVIOUS
  <2>3. PICK fits \in HeaderLooks(bytes), n \in Counts(bytes) :
          IF fits /\ n > 0
          THEN adu' = bytes /\ left' = n /\ UNCHANGED <<ask, listening>>
          ELSE GiveUp /\ UNCHANGED <<adu, left>>
    BY <1>5, <2>2 DEF ReadFifth
  <2>4. bytes \in Seq(Bytes) /\ Len(bytes) = 5 /\ rx' \in Seq(Bytes)
    BY <2>1, <2>2, TakeByte
  <2>5. n \in 0 .. 255
    <3>1. bytes[3].of \in Asks
      <4>1. 3 \in 1 .. Len(bytes)
        BY <2>4
      <4> QED BY <2>4, <4>1, ByteOf
    <3>2. DataBytes(bytes[3].of) \in 2 .. 254
      BY <3>1, AskType
    <3>3. n = DataBytes(bytes[3].of) \/ n \in {0, 2, 4, 255}
      BY DEF Counts
    <3> QED BY <3>2, <3>3
  <2>6. CASE adu' = bytes /\ left' = n /\ UNCHANGED <<ask, listening>>
    BY <2>1, <2>4, <2>5, <2>6 DEF TypeInv
  <2>7. CASE GiveUp /\ UNCHANGED <<adu, left>>
    <3>1. ask' \in Asks /\ ask'.pass >= 1 /\ ~listening' /\ listening' \in BOOLEAN
      BY <2>1, <2>7, TypeGiveUp
    <3> QED BY <2>1, <2>4, <2>7, <3>1 DEF TypeInv
  <2> QED BY <2>3, <2>6, <2>7
<1>6. CASE ReadLast
  <2>1. /\ listening /\ rx # <<>> /\ Len(adu) + 1 > 5 /\ rx' = Tail(rx)
        /\ UNCHANGED <<flight, adu, left>>
    BY <1>6 DEF ReadLast
  <2>2. PICK bytes : bytes = Append(adu, Head(rx))
    OBVIOUS
  <2>3. \/ TakeOver(bytes[1].of) /\ UNCHANGED disturbed
        \/ GiveUp /\ UNCHANGED <<buffer, md, readings, disturbed>>
        \/ GiveUp /\ disturbed' = TRUE /\ UNCHANGED <<buffer, md, readings>>
    BY <1>6, <2>2 DEF ReadLast
  <2>4. bytes \in Seq(Bytes) /\ Len(bytes) = Len(adu) + 1 /\ Len(adu) \in Nat /\ rx' \in Seq(Bytes)
    BY <2>1, <2>2, TakeByte
  <2>5. bytes[1].of \in Asks
    <3>1. 1 \in 1 .. Len(bytes)
      BY <2>4
    <3> QED BY <2>4, <3>1, ByteOf
  <2>6. disturbed' \in BOOLEAN
    BY <2>3 DEF TypeInv
  <2>7. CASE TakeOver(bytes[1].of)
    <3>1. /\ ask' \in Asks /\ ask'.pass >= 1 /\ ~listening' /\ listening' \in BOOLEAN
          /\ buffer' \in [Places -> Bytes] /\ md' \in Values
          /\ readings' \subseteq [pass : Nat, md : Values]
      BY <2>1, <2>5, <2>7, TypeTakeOver
    <3> QED BY <2>1, <2>4, <2>6, <3>1 DEF TypeInv
  <2>8. CASE GiveUp /\ UNCHANGED <<buffer, md, readings>>
    <3>1. ask' \in Asks /\ ask'.pass >= 1 /\ ~listening' /\ listening' \in BOOLEAN
      BY <2>1, <2>8, TypeGiveUp
    <3> QED BY <2>1, <2>4, <2>6, <2>8, <3>1 DEF TypeInv
  <2> QED BY <2>3, <2>7, <2>8
<1>7. CASE Timeout
  <2>1. listening /\ GiveUp /\ UNCHANGED <<flight, rx, adu, left, buffer, md, readings>>
    BY <1>7 DEF Timeout
  <2>2. ask' \in Asks /\ ask'.pass >= 1 /\ ~listening' /\ listening' \in BOOLEAN
    BY <2>1, TypeGiveUp
  <2>3. disturbed' \in BOOLEAN
    BY <1>7 DEF Timeout
  <2> QED BY <2>1, <2>2, <2>3 DEF TypeInv
<1> QED BY <1>1, <1>2, <1>3, <1>4, <1>5, <1>6, <1>7 DEF Next, Horizon

\* The state of the link is well formed for every set of meters and blocks:
\* every byte and every word belongs to a request for a block that exists, and
\* u8BytesLeft stays a byte.
THEOREM LinkTyped == Spec => []TypeOK
<1>1. TypeInv => TypeOK
  <2> SUFFICES ASSUME TypeInv PROVE TypeOK
    OBVIOUS
  <2>1. Asks \subseteq Request
    BY DEF Asks
  <2>2. ASSUME NEW s \in Seq(Bytes), NEW i \in DOMAIN s PROVE s[i].of \in Request
    BY <2>1, ByteOf, LenProperties
  <2>3. \A i \in DOMAIN rx : rx[i].of \in Request
    BY <2>2 DEF TypeInv
  <2>4. \A i \in DOMAIN adu : adu[i].of \in Request
    BY <2>2 DEF TypeInv
  <2>5. \A i \in Places : buffer[i].of \in Request
    BY <2>1 DEF TypeInv, Bytes
  <2>6. ASSUME NEW x \in Blocks
        PROVE  Len(md[x]) = Size(x) /\ \A i \in 1 .. Size(x) : md[x][i].of \in Request
    <3>1. PICK w : w = md[x]
      OBVIOUS
    <3>2. w \in Seq(Bytes) /\ Len(w) = Size(x)
      BY <3>1 DEF TypeInv, Values
    <3>3. \A i \in 1 .. Len(w) : w[i].of \in Request
      BY <2>1, <3>2, ByteOf
    <3> QED BY <3>1, <3>2, <3>3
  <2> QED BY <2>1, <2>3, <2>4, <2>5, <2>6 DEF TypeInv, TypeOK
<1>2. Spec => []TypeInv
  BY LinkTypeInit, LinkTypeStep, PTL DEF Spec
<1> QED BY <1>1, <1>2, PTL

-----------------------------------------------------------------------------
(* The right reply *)

LEMMA HeaderInit == Init => HeaderInv /\ PlaceInv /\ RightReply
<1> SUFFICES ASSUME Init PROVE HeaderInv /\ PlaceInv /\ RightReply
  OBVIOUS
<1>1. ASSUME NEW x \in Blocks
      PROVE  /\ \A i \in 1 .. Size(x) : md[x][i] = [of |-> Unset, at |-> i]
             /\ Source(md[x]) = Unset
  <2>1. md[x] = [i \in 1 .. Size(x) |-> [of |-> Unset, at |-> i]]
    BY DEF Init
  <2>2. 1 \in 1 .. Size(x)
    BY SizeType
  <2>3. md[x][1] = [of |-> Unset, at |-> 1]
    BY <2>1, <2>2
  <2> QED BY <2>1, <2>3 DEF Source
<1>2. PlaceInv
  BY <1>1 DEF Init, PlaceInv
<1>3. RightReply
  BY <1>1 DEF RightReply
<1> QED BY <1>2, <1>3 DEF Init, HeaderInv

LEMMA HeaderStep ==
  ASSUME TypeInv, HeaderInv, [Next]_vars PROVE HeaderInv'
<1>1. CASE UNCHANGED vars
  BY <1>1 DEF vars, HeaderInv, HeaderFits
<1>2. CASE Transmit
  <2>1. Len(adu') = 0
    BY <1>2 DEF Transmit
  <2> QED BY <2>1 DEF HeaderInv
<1>3. ASSUME NEW r \in flight, Arrive(r) PROVE HeaderInv'
  BY <1>3 DEF Arrive, HeaderInv, HeaderFits
<1>4. CASE ReadByte
  <2>1. /\ rx # <<>> /\ Len(adu) + 1 # 5
        /\ adu' = Append(adu, Head(rx)) /\ UNCHANGED <<ask, listening>>
    BY <1>4 DEF ReadByte
  <2>2. /\ Len(adu) \in Nat /\ Len(adu') = Len(adu) + 1
        /\ \A i \in 1 .. Len(adu) : adu'[i] = adu[i]
    BY <2>1, TakeByte
  <2>3. CASE Len(adu') >= 5
    <3>1. Len(adu) >= 5 /\ adu'[1] = adu[1] /\ adu'[2] = adu[2]
      BY <2>1, <2>2, <2>3
    <3> QED BY <2>1, <3>1 DEF HeaderInv, HeaderFits
  <2>4. CASE ~(Len(adu') >= 5)
    BY <2>4 DEF HeaderInv
  <2> QED BY <2>3, <2>4
<1>5. CASE ReadFifth
  <2>1. PICK bytes : bytes = Append(adu, Head(rx))
    OBVIOUS
  <2>2. PICK fits \in HeaderLooks(bytes), n \in Counts(bytes) :
          IF fits /\ n > 0
          THEN adu' = bytes /\ left' = n /\ UNCHANGED <<ask, listening>>
          ELSE GiveUp /\ UNCHANGED <<adu, left>>
    BY <1>5, <2>1 DEF ReadFifth
  <2>3. CASE fits /\ n > 0
    <3>1. adu' = bytes /\ ask' = ask
      BY <2>2, <2>3
    <3>2. bytes[1].at = 1 /\ bytes[2].at = 2 => HeaderFits(bytes)
      BY <2>3 DEF HeaderLooks
    <3> QED BY <3>1, <3>2 DEF HeaderInv, HeaderFits
  <2>4. CASE ~(fits /\ n > 0)
    <3>1. ~listening'
      BY <2>2, <2>4 DEF GiveUp
    <3> QED BY <3>1 DEF HeaderInv
  <2> QED BY <2>3, <2>4
<1>6. CASE ReadLast \/ Timeout
  <2>1. ~listening'
    BY <1>6 DEF ReadLast, Timeout, TakeOver, GiveUp
  <2> QED BY <2>1 DEF HeaderInv
<1> QED BY <1>1, <1>2, <1>3, <1>4, <1>5, <1>6 DEF Next, Horizon

\* A frame with a right CRC: its reply, which stands at the head of the bytes
\* read, and whose header has been looked at.
LEMMA BelievedFrame ==
  ASSUME TypeInv, HeaderInv, ReadLast,
         NEW bytes, bytes = Append(adu, Head(rx)), CrcFits(bytes)
  PROVE  /\ bytes[1].of \in Asks /\ AtHead(bytes[1].of)
         /\ Slave[Meter(bytes[1].of)] = Slave[Meter(ask)]
         /\ Function[Meter(bytes[1].of)] = Function[Meter(ask)]
<1>1. listening /\ rx # <<>> /\ Len(adu) + 1 > 5
  BY DEF ReadLast
<1>2. /\ Len(adu) \in Nat /\ bytes \in Seq(Bytes) /\ Len(bytes) = Len(adu) + 1
      /\ \A i \in 1 .. Len(adu) : bytes[i] = adu[i]
  BY <1>1, TakeByte
<1>3. Len(adu) >= 5 /\ adu[1] = bytes[1] /\ adu[2] = bytes[2] /\ 1 \in 1 .. Len(bytes)
  BY <1>1, <1>2
<1>4. PICK r : r = bytes[1].of
  OBVIOUS
<1>5. r \in Asks
  BY <1>2, <1>3, <1>4, ByteOf
<1>6. bytes = Frame(r)
  BY <1>4 DEF CrcFits
<1>7. FrameSize(r) \in 7 .. 259 /\ \A i \in 1 .. FrameSize(r) : Frame(r)[i] = [of |-> r, at |-> i]
  BY <1>5, AskType, FrameType
<1>8. bytes[1] = [of |-> r, at |-> 1] /\ bytes[2] = [of |-> r, at |-> 2]
  <2>1. PICK n \in 7 .. 259 : n = FrameSize(r)
    BY <1>5, AskType
  <2>2. 1 \in 1 .. n /\ 2 \in 1 .. n
    OBVIOUS
  <2> QED BY <1>6, <1>7, <2>1, <2>2
<1>9. HeaderFits(adu)
  BY <1>1, <1>3, <1>8 DEF HeaderInv
<1>10. adu[1].of = r /\ adu[2].of = r
  BY <1>3, <1>8
<1>11. Slave[Meter(r)] = Slave[Meter(ask)] /\ Function[Meter(r)] = Function[Meter(ask)]
  BY <1>9, <1>10 DEF HeaderFits
<1>12. AtHead(r)
  BY <1>1, <1>3, <1>8 DEF AtHead, First
<1> QED BY <1>4, <1>5, <1>11, <1>12

LEMMA RightReplyStep ==
  ASSUME TypeInv, HeaderInv, PlaceInv, RightReply, [Next]_vars PROVE PlaceInv' /\ RightReply'
<1>1. CASE UNCHANGED <<buffer, md>>
  BY <1>1 DEF RightReply, PlaceInv
<1>2. CASE ~UNCHANGED <<buffer, md>>
  <2>1. ReadLast
    BY <1>2 DEF Next, vars, Transmit, Arrive, ReadByte, ReadFifth, Timeout, Horizon
  <2>2. PICK bytes : bytes = Append(adu, Head(rx))
    OBVIOUS
  <2>3. CrcFits(bytes) /\ TakeOver(bytes[1].of)
    BY <1>2, <2>1, <2>2 DEF ReadLast
  <2>4. PICK r : r = bytes[1].of
    OBVIOUS
  <2>5. r \in Asks /\ Slave[Meter(r)] = Slave[Meter(ask)] /\ Function[Meter(r)] = Function[Meter(ask)]
    BY <2>1, <2>2, <2>3, <2>4, BelievedFrame
  <2>6. /\ \A i \in Places : buffer'[i] = IF i <= Quantity(r) THEN [of |-> r, at |-> i] ELSE buffer[i]
        /\ 1 .. Size(Present) \subseteq Places /\ Source(md'[Present]) = r
        /\ \A i \in 1 .. Size(Present) : md'[Present][i] = buffer'[i]
        /\ \A x \in Blocks : x # Present => md'[x] = md[x]
    BY <2>3, <2>4, <2>5, WordsTaken
  <2>7. ASSUME NEW i \in Places PROVE buffer'[i].at = i
    <3>1. buffer'[i] = (IF i <= Quantity(r) THEN [of |-> r, at |-> i] ELSE buffer[i]) /\ buffer[i].at = i
      BY <2>6 DEF PlaceInv
    <3>2. CASE i <= Quantity(r)
      BY <3>1, <3>2
    <3>3. CASE ~(i <= Quantity(r))
      BY <3>1, <3>3
    <3> QED BY <3>2, <3>3
  <2>8. \A x \in Blocks : \A i \in 1 .. Size(x) : md'[x][i].at = i
    BY <2>6, <2>7 DEF PlaceInv
  <2>9. ASSUME NEW x \in Blocks, Source(md'[x]) # Unset
        PROVE  LET q == Source(md'[x]) IN
                 /\ Slave[Meter(q)] = Slave[Meters[x[1]]]
                 /\ Function[Meter(q)] = Function[Meters[x[1]]]
                 /\ \A i \in 1 .. Size(x) : i <= Quantity(q) => md'[x][i].of = q
    <3>1. CASE x = Present
      <4>1. Source(md'[x]) = r /\ x[1] = ask.meter
        BY <2>6, <3>1 DEF Present
      <4>2. ASSUME NEW i \in 1 .. Size(x), i <= Quantity(r) PROVE md'[x][i].of = r
        <5>1. i \in Places /\ md'[x][i] = buffer'[i]
          BY <2>6, <3>1
        <5>2. buffer'[i] = [of |-> r, at |-> i]
          BY <2>6, <4>2, <5>1
        <5> QED BY <5>1, <5>2
      <4> QED BY <2>5, <4>1, <4>2 DEF Meter
    <3>2. CASE x # Present
      <4>1. md'[x] = md[x]
        BY <2>6, <3>2
      <4> QED BY <2>9, <4>1 DEF RightReply
    <3> QED BY <3>1, <3>2
  <2> QED BY <2>7, <2>8, <2>9 DEF RightReply, PlaceInv
<1> QED BY <1>1, <1>2

\* masterTransaction's tests of address, function and CRC are enough for the
\* reply they accept: however replies are delayed, cut or run together, it is
\* of a meter at the address that was asked, its words are whole and in their
\* places.  What is read beyond its end the theorem leaves open, and has to.
THEOREM ReplyRight == Spec => []RightReply
<1> DEFINE Inv == TypeInv /\ HeaderInv /\ PlaceInv /\ RightReply
<1>1. Init => Inv
  BY LinkTypeInit, HeaderInit
<1>2. Inv /\ [Next]_vars => Inv'
  BY LinkTypeStep, HeaderStep, RightReplyStep
<1>3. Inv => RightReply
  OBVIOUS
<1> QED BY <1>1, <1>2, <1>3, PTL DEF Spec

-----------------------------------------------------------------------------
(* The order of the requests *)

LEMMA Irreflexive == ASSUME NEW r \in Asks PROVE ~Before(r, r)
BY AskType DEF Before

\* When a transaction ends, whatever has been asked for was asked for before.
LEMMA Advances ==
  ASSUME TypeInv, listening,
         ask' = FirstAsk(ask.pass + 1) \/ (~LastAsk(ask) /\ ask' = NextAsk(ask)),
         NEW r \in Asks, Made(r)
  PROVE  Before(r, ask')
<1>1. /\ ask.pass \in 1 .. MaxPasses /\ ask.meter \in 1 .. Len(Meters)
      /\ ask.block \in 1 .. Len(Words[Meter(ask)]) /\ Len(Words[Meter(ask)]) \in Nat
  BY NextPass, AskType DEF TypeInv
<1>2. /\ r.pass \in 0 .. MaxPasses + 1 /\ r.meter \in 1 .. Len(Meters)
      /\ r.block \in 1 .. Len(Words[Meter(r)]) /\ Len(Words[Meter(r)]) \in Nat
  BY AskType
<1>3. Len(Meters) \in Nat
  BY MetersType
<1>4. CASE ask' = FirstAsk(ask.pass + 1)
  <2>1. ask'.pass = ask.pass + 1
    BY <1>4, NextPass
  <2>2. r.pass <= ask.pass
    BY <1>1, <1>2, ModbusAssumption DEF Made, Before
  <2>3. r.pass < ask'.pass
    BY <1>1, <1>2, <2>1, <2>2, ModbusAssumption
  <2> QED BY <2>3 DEF Before
<1>5. CASE ~LastAsk(ask) /\ ask' = NextAsk(ask)
  <2>1. /\ ask'.pass = ask.pass
        /\ \/ ask'.meter = ask.meter /\ ask'.block = ask.block + 1
           \/ ask'.meter = ask.meter + 1 /\ ask'.block = 1
    BY <1>5, NextAskType DEF TypeInv
  <2>2. CASE r = ask
    BY <1>1, <1>3, <2>1, <2>2 DEF Before
  <2>3. CASE Before(r, ask)
    BY <1>1, <1>2, <1>3, <2>1, <2>3, ModbusAssumption DEF Before
  <2> QED BY <2>2, <2>3 DEF Made
<1> QED BY <1>4, <1>5

LEMMA NoneTaken ==
  ASSUME NEW p, ask' = FirstAsk(p), NEW x \in Blocks
  PROVE  ~Taken(x)'
<1>1. ask'.meter = 1 /\ ask'.block = 1
  BY DEF FirstAsk
<1>2. x[1] \in 1 .. Len(Meters) /\ x[2] \in 1 .. Len(Words[Meters[x[1]]])
      /\ Len(Meters) \in Nat /\ Len(Words[Meters[x[1]]]) \in Nat
  BY BlockType, MetersType
<1>3. ~(x[1] < 1) /\ ~(x[2] < 1)
  BY <1>2
<1> QED BY <1>1, <1>3 DEF Taken

LEMMA TakenNext ==
  ASSUME TypeInv, ~LastAsk(ask), ask' = NextAsk(ask), NEW x \in Blocks, Taken(x)'
  PROVE  Taken(x) \/ x = Present
<1>1. /\ x = <<x[1], x[2]>> /\ x[1] \in 1 .. Len(Meters) /\ x[2] \in 1 .. Len(Words[Meters[x[1]]])
      /\ Len(Meters) \in Nat /\ Len(Words[Meters[x[1]]]) \in Nat
  BY BlockType, MetersType
<1>2. ask.meter \in 1 .. Len(Meters) /\ ask.block \in 1 .. Len(Words[Meter(ask)])
  BY AskType DEF TypeInv
<1>3. \/ ask'.meter = ask.meter /\ ask'.block = ask.block + 1
      \/ /\ ask.block = Len(Words[Meter(ask)])
         /\ ask'.meter = ask.meter + 1 /\ ask'.block = 1
  BY NextAskType DEF TypeInv
<1>4. x[1] < ask'.meter \/ (x[1] = ask'.meter /\ x[2] < ask'.block)
  BY DEF Taken
<1>5. x[1] < ask.meter \/ (x[1] = ask.meter /\ x[2] <= ask.block)
  <2>1. CASE ask'.meter = ask.meter /\ ask'.block = ask.block + 1
    <3>1. ask.block \in Nat
      BY <1>2
    <3> QED BY <1>1, <1>4, <2>1, <3>1
  <2>2. CASE ask.block = Len(Words[Meter(ask)]) /\ ask'.meter = ask.meter + 1 /\ ask'.block = 1
    <3>1. x[1] <= ask.meter
      BY <1>1, <1>2, <1>4, <2>2
    <3>2. x[1] = ask.meter => x[2] <= ask.block
      BY <1>1, <2>2 DEF Meter
    <3> QED BY <1>1, <1>2, <3>1, <3>2
  <2> QED BY <1>3, <2>1, <2>2
<1>6. x[2] \in Int /\ ask.block \in Int
  BY <1>1, <1>2
<1>7. CASE x[1] = ask.meter /\ x[2] = ask.block
  BY <1>1, <1>7 DEF Present
<1>8. CASE ~(x[1] = ask.meter /\ x[2] = ask.block)
  BY <1>5, <1>6, <1>8 DEF Taken
<1> QED BY <1>7, <1>8

LEMMA AllTaken ==
  ASSUME TypeInv, LastAsk(ask), NEW x \in Blocks
  PROVE  Taken(x) \/ x = Present
<1>1. /\ x = <<x[1], x[2]>> /\ x[1] \in 1 .. Len(Meters) /\ x[2] \in 1 .. Len(Words[Meters[x[1]]])
      /\ Len(Meters) \in Nat /\ Len(Words[Meters[x[1]]]) \in Nat
  BY BlockType, MetersType
<1>2. ask.meter = Len(Meters) /\ ask.block = Len(Words[Meter(ask)])
  BY DEF LastAsk
<1>3. x[1] < ask.meter \/ (x[1] = ask.meter /\ x[2] <= ask.block)
  <2>1. x[1] = ask.meter => x[2] <= ask.block
    BY <1>1, <1>2 DEF Meter
  <2> QED BY <1>1, <1>2, <2>1
<1>4. x[2] \in Int /\ ask.block \in Int
  BY <1>1, <1>2, AskType DEF TypeInv
<1>5. CASE x[1] = ask.meter /\ x[2] = ask.block
  BY <1>1, <1>5 DEF Present
<1>6. CASE ~(x[1] = ask.meter /\ x[2] = ask.block)
  BY <1>3, <1>4, <1>6 DEF Taken
<1> QED BY <1>5, <1>6

LEMMA PresentNotTaken == ASSUME TypeInv PROVE Present \in Blocks /\ ~Taken(Present)
<1>1. ask \in Asks /\ ask.meter \in 1 .. Len(Meters) /\ ask.block \in 1 .. Len(Words[Meter(ask)])
  BY AskType DEF TypeInv
<1>2. Present \in Blocks /\ Present[1] = ask.meter /\ Present[2] = ask.block
  BY <1>1, BlockType DEF Present
<1>3. ~(ask.meter < ask.meter) /\ ~(ask.block < ask.block)
  BY <1>1
<1> QED BY <1>2, <1>3 DEF Taken

-----------------------------------------------------------------------------
(* No reply is used twice *)

LEMMA UsedType == TypeInv => Used \subseteq Asks
<1> SUFFICES ASSUME TypeInv PROVE Used \subseteq Asks
  OBVIOUS
<1>1. ASSUME NEW v \in Values, NEW x \in Blocks PROVE Source(v[x]) \in Asks
  <2>1. PICK w : w = v[x]
    OBVIOUS
  <2>2. w \in Seq(Bytes) /\ 1 \in 1 .. Len(w)
    BY <2>1, SizeType DEF Values
  <2> QED BY <2>1, <2>2, ByteOf DEF Source
<1>2. md \in Values /\ \A g \in readings : g.md \in Values
  BY DEF TypeInv
<1> QED BY <1>1, <1>2 DEF Used

\* With a reply that has not been used before, the values of the pass under
\* way stay different from one another and from those of stored readings.
LEMMA FreshValues ==
  ASSUME TypeInv, DistinctInv, NEW r \in Asks, r \notin Used,
         NEW x \in Blocks, Taken(x) \/ x = Present, TakeOver(r)
  PROVE  /\ Source(md'[x]) \in Used \union {r}
         /\ \A y \in Blocks : (Taken(y) \/ y = Present) /\ Source(md'[x]) = Source(md'[y]) => x = y
         /\ \A y \in Blocks, g \in readings : Source(md'[x]) # Source(g.md[y])
<1>2. Source(md'[Present]) = r /\ \A y \in Blocks : y # Present => md'[y] = md[y]
  BY WordsTaken
<1>3. \A y \in Blocks : Taken(y) => y # Present /\ md'[y] = md[y] /\ Source(md[y]) \in Used
  BY <1>2, PresentNotTaken DEF Used
<1>4. \A y \in Blocks, g \in readings : Source(g.md[y]) \in Used
  BY DEF Used
<1>5. Source(md'[x]) \in Used \union {r}
  BY <1>2, <1>3
<1>6. ASSUME NEW y \in Blocks, Taken(y) \/ y = Present, Source(md'[x]) = Source(md'[y]) PROVE x = y
  <2>1. CASE Taken(x) /\ Taken(y)
    BY <1>3, <1>6, <2>1 DEF DistinctInv
  <2>2. CASE ~(Taken(x) /\ Taken(y))
    BY <1>2, <1>3, <1>6, <2>2
  <2> QED BY <2>1, <2>2
<1>7. ASSUME NEW y \in Blocks, NEW g \in readings PROVE Source(md'[x]) # Source(g.md[y])
  <2>1. CASE Taken(x)
    BY <1>3, <2>1 DEF DistinctInv
  <2>2. CASE x = Present
    BY <1>2, <1>4, <2>2
  <2> QED BY <2>1, <2>2
<1> QED BY <1>5, <1>6, <1>7

\* The replies in use when a transaction has failed.
LEMMA UsedGiveUp ==
  ASSUME TypeInv, DistinctInv, GiveUp, UNCHANGED <<buffer, md, readings>>
  PROVE  Used' \subseteq Used /\ DistinctInv'
<1>1. \A x \in Blocks : ~Taken(x)'
  BY NoneTaken DEF GiveUp
<1>2. Used' = UNION {{Source(g.md[x]) : x \in Blocks} : g \in readings}
  BY <1>1 DEF Used
<1>3. Used' \subseteq Used
  BY <1>2 DEF Used
<1> QED BY <1>1, <1>3 DEF DistinctInv, ReplyUsedOnce

\* The replies in use when the values of r have been taken over.
LEMMA UsedTakeOver ==
  ASSUME TypeInv, DistinctInv, NEW r \in Asks, r \notin Used, TakeOver(r)
  PROVE  Used' \subseteq Used \union {r} /\ DistinctInv'
<1>2. ASSUME NEW x \in Blocks, Taken(x) \/ x = Present
      PROVE  /\ Source(md'[x]) \in Used \union {r}
             /\ \A y \in Blocks : (Taken(y) \/ y = Present) /\ Source(md'[x]) = Source(md'[y]) => x = y
             /\ \A y \in Blocks, g \in readings : Source(md'[x]) # Source(g.md[y])
  BY <1>2, FreshValues
<1>3. \A y \in Blocks, g \in readings : Source(g.md[y]) \in Used
  BY DEF Used
<1>4. CASE LastAsk(ask)
  <2> DEFINE G == [pass |-> ask.pass, md |-> md']
  <2>1. ask' = FirstAsk(ask.pass + 1) /\ readings' = readings \union {G}
    BY <1>4 DEF TakeOver
  <2>2. \A x \in Blocks : ~Taken(x)'
    BY <2>1, NoneTaken
  <2>3. \A x \in Blocks : Taken(x) \/ x = Present
    BY <1>4, AllTaken
  <2>4. G.md = md'
    OBVIOUS
  <2> HIDE DEF G
  <2>5. \A x \in Blocks : Source(G.md[x]) \in Used \union {r}
    BY <1>2, <2>3, <2>4
  <2>6. \A g \in readings' : \A x \in Blocks : Source(g.md[x]) \in Used \union {r}
    BY <1>3, <2>1, <2>5
  <2>7. Used' \subseteq Used \union {r}
    <3>1. Used' = UNION {{Source(g.md[x]) : x \in Blocks} : g \in readings'}
      BY <2>2 DEF Used
    <3> QED BY <2>6, <3>1
  <2>8. ASSUME NEW g \in readings', NEW h \in readings', NEW x \in Blocks, NEW y \in Blocks,
               Source(g.md[x]) = Source(h.md[y])
        PROVE  g.pass = h.pass /\ x = y
    <3>1. CASE g \in readings /\ h \in readings
      BY <2>8, <3>1 DEF DistinctInv, ReplyUsedOnce
    <3>2. CASE g = G /\ h = G
      BY <1>2, <2>3, <2>4, <2>8, <3>2
    <3>3. CASE g = G /\ h \in readings
      BY <1>2, <2>3, <2>4, <2>8, <3>3
    <3>4. CASE g \in readings /\ h = G
      BY <1>2, <2>3, <2>4, <2>8, <3>4
    <3> QED BY <2>1, <3>1, <3>2, <3>3, <3>4
  <2> QED BY <2>2, <2>7, <2>8 DEF DistinctInv, ReplyUsedOnce
<1>5. CASE ~LastAsk(ask)
  <2>1. ask' = NextAsk(ask) /\ readings' = readings
    BY <1>5 DEF TakeOver
  <2>2. \A x \in Blocks : Taken(x)' => Taken(x) \/ x = Present
    BY <1>5, <2>1, TakenNext
  <2>3. \A x \in Blocks : Taken(x)' => Source(md'[x]) \in Used \union {r}
    BY <1>2, <2>2
  <2>4. Used' \subseteq Used \union {r}
    BY <1>3, <2>1, <2>3 DEF Used
  <2>5. \A x, y \in Blocks : Taken(x)' /\ Taken(y)' /\ Source(md'[x]) = Source(md'[y]) => x = y
    BY <1>2, <2>2
  <2>6. \A x, y \in Blocks, g \in readings' : Taken(x)' => Source(md'[x]) # Source(g.md[y])
    BY <1>2, <2>1, <2>2
  <2>7. ReplyUsedOnce'
    BY <2>1 DEF DistinctInv, ReplyUsedOnce
  <2> QED BY <2>4, <2>5, <2>6, <2>7 DEF DistinctInv
<1> QED BY <1>4, <1>5

ReplyInv == OnceInv /\ OrderInv /\ SpentInv /\ DistinctInv

LEMMA ReplyInit == Init => ReplyInv
<1> SUFFICES ASSUME Init PROVE ReplyInv
  OBVIOUS
<1>1. \A x \in Blocks : ~Taken(x)
  <2>1. ask.meter = 1 /\ ask.block = 1
    BY DEF Init, FirstAsk
  <2>2. \A x \in Blocks : x[1] \in Nat \ {0} /\ x[2] \in Nat \ {0}
    BY BlockType, MetersType
  <2> QED BY <2>1, <2>2 DEF Taken
<1>2. Used = {}
  BY <1>1 DEF Init, Used
<1>3. Len(rx) = 0 /\ ~listening /\ flight = {} /\ readings = {}
  BY DEF Init
<1>4. \A i \in 1 .. Len(rx) : FALSE
  BY <1>3
<1> QED BY <1>1, <1>2, <1>3, <1>4 DEF ReplyInv, OnceInv, OrderInv, SpentInv, DistinctInv, ReplyUsedOnce

\* The queue after a step that may read a byte from it.
LEMMA QueueShrinks ==
  ASSUME TypeInv, rx' = rx \/ (rx # <<>> /\ rx' = Tail(rx))
  PROVE  \E d \in {0, 1} : /\ Len(rx') = Len(rx) - d
                           /\ Len(rx) \in Nat
                           /\ d = 1 => rx' = Tail(rx) /\ rx # <<>>
                           /\ \A i \in 1 .. Len(rx') : i + d \in 1 .. Len(rx) /\ rx'[i] = rx[i + d]
<1>1. Len(rx) \in Nat
  BY LenProperties DEF TypeInv
<1>2. CASE rx' = rx
  <2>1. \A i \in 1 .. Len(rx') : i + 0 \in 1 .. Len(rx) /\ rx'[i] = rx[i + 0]
    BY <1>1, <1>2
  <2> QED BY <1>1, <1>2, <2>1
<1>3. CASE rx # <<>> /\ rx' = Tail(rx)
  <2>1. /\ Len(rx') = Len(rx) - 1 /\ \A i \in 1 .. Len(rx) - 1 : rx'[i] = rx[i + 1]
    BY <1>3, TakeByte
  <2>2. \A i \in 1 .. Len(rx') : i + 1 \in 1 .. Len(rx) /\ rx'[i] = rx[i + 1]
    BY <1>1, <2>1
  <2> QED BY <1>1, <1>3, <2>1, <2>2
<1> QED BY <1>2, <1>3

\* A transaction ends: what is left on the line and in the queue is late.
LEMMA ReplyEnds ==
  ASSUME TypeInv, ReplyInv, listening, ~listening', flight' = flight,
         rx' = rx \/ (rx # <<>> /\ rx' = Tail(rx)),
         ask' = FirstAsk(ask.pass + 1) \/ (~LastAsk(ask) /\ ask' = NextAsk(ask)),
         DistinctInv',
         \A r \in Used' : r \in Used \/ (r \in Asks /\ AtHead(r))
  PROVE  ReplyInv'
<1>1. PICK d \in {0, 1} :
        /\ Len(rx') = Len(rx) - d /\ Len(rx) \in Nat
        /\ \A i \in 1 .. Len(rx') : i + d \in 1 .. Len(rx) /\ rx'[i] = rx[i + d]
  BY QueueShrinks
<1>2. \A r : ~AtHead(r)'
  BY DEF AtHead
<1>3. \A r : InQueue(r)' => InQueue(r)
  BY <1>1 DEF InQueue, First
<1>4. OnceInv'
  <2>1. ASSUME NEW i \in 1 .. Len(rx'), NEW j \in 1 .. Len(rx'), rx'[i].at = 1, rx'[i] = rx'[j]
        PROVE  i = j
    <3>1. /\ i + d \in 1 .. Len(rx) /\ j + d \in 1 .. Len(rx)
          /\ rx[i + d].at = 1 /\ rx[i + d] = rx[j + d]
      BY <1>1, <2>1
    <3>2. i + d = j + d
      BY <3>1 DEF ReplyInv, OnceInv
    <3> QED BY <1>1, <3>2
  <2>2. \A r \in flight' : ~InQueue(r)' /\ ~AtHead(r)'
    BY <1>2, <1>3 DEF ReplyInv, OnceInv
  <2> QED BY <2>1, <2>2 DEF OnceInv
<1>5. \A r \in Asks : Made(r) => Before(r, ask')
  BY Advances
<1>6. \A i \in 1 .. Len(rx) : rx[i].of \in Asks
  BY ByteOf DEF TypeInv
<1>7. OrderInv'
  <2>1. \A r \in flight' : Before(r, ask')
    BY <1>5 DEF ReplyInv, OrderInv, TypeInv
  <2>2. \A i \in 1 .. Len(rx') : Before(rx'[i].of, ask')
    BY <1>1, <1>5, <1>6 DEF ReplyInv, OrderInv
  <2>3. ASSUME NEW r \in Used' PROVE Before(r, ask')
    <3>1. CASE r \in Used
      <4>1. Before(r, ask)
        BY <3>1 DEF ReplyInv, OrderInv
      <4>2. r \in Asks
        BY <3>1, UsedType
      <4> QED BY <1>5, <4>1, <4>2 DEF Made
    <3>2. CASE r \in Asks /\ AtHead(r)
      <4>1. adu[1].of = r /\ Len(adu) >= 1
        BY <3>2 DEF AtHead, First
      <4> QED BY <1>5, <3>2, <4>1 DEF ReplyInv, OrderInv
    <3> QED BY <3>1, <3>2
  <2> QED BY <2>1, <2>2, <2>3 DEF OrderInv, Made
<1>8. SpentInv'
  <2> SUFFICES ASSUME NEW r \in Used' PROVE r \notin flight /\ ~InQueue(r)
    BY <1>2, <1>3 DEF SpentInv
  <2>1. CASE r \in Used
    BY <2>1 DEF ReplyInv, SpentInv
  <2>2. CASE r \in Asks /\ AtHead(r)
    <3>1. adu[1] = First(r) /\ adu[1].at = 1 /\ Len(adu) >= 1
      BY <2>2 DEF AtHead, First
    <3> QED BY <2>2, <3>1 DEF ReplyInv, OnceInv, InQueue
  <2> QED BY <2>1, <2>2
<1> QED BY <1>4, <1>7, <1>8 DEF ReplyInv

\* The request, the values and the readings are as they were.
LEMMA UsedSame ==
  ASSUME UNCHANGED <<ask, buffer, md, readings>>
  PROVE  Used' = Used /\ (DistinctInv => DistinctInv')
<1>1. \A x : Taken(x)' <=> Taken(x)
  BY DEF Taken
<1>2. Used' = Used
  BY DEF Used, Taken
<1> QED BY <1>1, <1>2 DEF DistinctInv, ReplyUsedOnce

LEMMA ReplyTransmit ==
  ASSUME TypeInv, ReplyInv, Transmit PROVE ReplyInv'
<1>1. /\ ~listening /\ listening' /\ UNCHANGED <<ask, rx, buffer, md, readings>>
      /\ flight' \subseteq flight \union {ask} /\ Len(adu') = 0
  BY DEF Transmit
<1>2. Used' = Used /\ DistinctInv'
  BY <1>1, UsedSame DEF ReplyInv
<1>3. ask \in Asks /\ ~Before(ask, ask)
  BY Irreflexive DEF TypeInv
<1>4. \A r : InQueue(r)' <=> InQueue(r)
  BY <1>1 DEF InQueue, First
<1>5. \A r : ~AtHead(r)'
  BY <1>1 DEF AtHead
<1>6. ~InQueue(ask)
  <2> SUFFICES ASSUME NEW i \in 1 .. Len(rx), rx[i] = First(ask) PROVE FALSE
    BY DEF InQueue
  <2>1. rx[i].of = ask
    BY DEF First
  <2>2. Made(rx[i].of)
    BY DEF ReplyInv, OrderInv
  <2> QED BY <1>1, <1>3, <2>1, <2>2 DEF Made
<1>7. OnceInv'
  BY <1>1, <1>4, <1>5, <1>6 DEF ReplyInv, OnceInv
<1>8. OrderInv'
  BY <1>1, <1>2 DEF ReplyInv, OrderInv, Made
<1>9. SpentInv'
  <2>1. ask \notin Used
    BY <1>3 DEF ReplyInv, OrderInv
  <2> QED BY <1>1, <1>2, <1>4, <1>5, <2>1 DEF ReplyInv, SpentInv
<1> QED BY <1>2, <1>7, <1>8, <1>9 DEF ReplyInv

LEMMA ReplyArrive ==
  ASSUME TypeInv, ReplyInv, NEW r \in flight, Arrive(r) PROVE ReplyInv'
<1>1. /\ flight' = flight \ {r}
      /\ UNCHANGED <<ask, listening, adu, left, buffer, md, readings>>
  BY DEF Arrive
<1>2. PICK f \in {Frame(r)} \union Cut(r) : rx' = rx \o f
  BY DEF Arrive
<1>3. r \in Asks
  BY DEF TypeInv
<1>4. /\ f \in Seq(Bytes) /\ Len(f) \in Nat /\ \A i \in 1 .. Len(f) : f[i].of = r
      /\ \A i, j \in 1 .. Len(f) : f[i] = f[j] => i = j
  BY <1>3, ReplyType
<1>5. PICK n \in Nat : n = Len(rx)
  BY LenProperties DEF TypeInv
<1>6. PICK m \in Nat : m = Len(f)
  BY <1>4
<1>7. /\ Len(rx') = n + m
      /\ \A i \in 1 .. n + m : rx'[i] = IF i <= n THEN rx[i] ELSE f[i - n]
  BY <1>2, <1>4, <1>5, <1>6, ConcatProperties DEF TypeInv
<1>8. \A i \in 1 .. n + m : \/ i \in 1 .. n /\ rx'[i] = rx[i]
                            \/ i - n \in 1 .. m /\ rx'[i] = f[i - n]
  BY <1>5, <1>6, <1>7
<1>9. ASSUME NEW k \in 1 .. m, f[k].at = 1 PROVE f[k] = First(r)
  BY <1>4, <1>6, <1>9, ByteOf DEF First
<1>10. Used' = Used /\ DistinctInv'
  BY <1>1, UsedSame DEF ReplyInv
<1>11. \A q : AtHead(q)' <=> AtHead(q)
  BY <1>1 DEF AtHead, First
<1>12. ASSUME NEW q, InQueue(q)' PROVE InQueue(q) \/ q = r
  <2>1. PICK i \in 1 .. n + m : rx'[i] = First(q)
    BY <1>7, <1>12 DEF InQueue, First
  <2>2. CASE i \in 1 .. n /\ rx'[i] = rx[i]
    BY <1>5, <2>1, <2>2 DEF InQueue
  <2>3. CASE i - n \in 1 .. m /\ rx'[i] = f[i - n]
    <3>1. f[i - n].of = r /\ First(q).of = q
      BY <1>4, <1>6, <2>3 DEF First
    <3> QED BY <2>1, <2>3, <3>1
  <2> QED BY <1>8, <2>2, <2>3
<1>13. ~InQueue(r) /\ ~AtHead(r)
  BY DEF ReplyInv, OnceInv
<1>14. OnceInv'
  <2>1. ASSUME NEW i \in 1 .. n + m, NEW j \in 1 .. n + m, rx'[i].at = 1, rx'[i] = rx'[j]
        PROVE  i = j
    <3>1. CASE i \in 1 .. n /\ rx'[i] = rx[i] /\ j \in 1 .. n /\ rx'[j] = rx[j]
      BY <1>5, <2>1, <3>1 DEF ReplyInv, OnceInv
    <3>2. CASE i \in 1 .. n /\ rx'[i] = rx[i] /\ j - n \in 1 .. m /\ rx'[j] = f[j - n]
      BY <1>5, <1>9, <1>13, <2>1, <3>2 DEF InQueue
    <3>3. CASE i - n \in 1 .. m /\ rx'[i] = f[i - n] /\ j \in 1 .. n /\ rx'[j] = rx[j]
      BY <1>5, <1>9, <1>13, <2>1, <3>3 DEF InQueue
    <3>4. CASE i - n \in 1 .. m /\ rx'[i] = f[i - n] /\ j - n \in 1 .. m /\ rx'[j] = f[j - n]
      <4>1. i - n = j - n
        BY <1>4, <1>6, <2>1, <3>4
      <4> QED BY <4>1
    <3> QED BY <1>8, <3>1, <3>2, <3>3, <3>4
  <2>2. \A q \in flight' : ~InQueue(q)' /\ ~AtHead(q)'
    BY <1>1, <1>11, <1>12 DEF ReplyInv, OnceInv
  <2>3. ASSUME listening, Len(adu) >= 1, adu[1].at = 1, NEW i \in 1 .. n + m
        PROVE  rx'[i] # adu[1]
    <3>1. CASE i \in 1 .. n /\ rx'[i] = rx[i]
      BY <1>5, <2>3, <3>1 DEF ReplyInv, OnceInv
    <3>2. CASE i - n \in 1 .. m /\ rx'[i] = f[i - n]
      BY <1>9, <1>13, <2>3, <3>2 DEF AtHead
    <3> QED BY <1>8, <3>1, <3>2
  <2> QED BY <1>1, <1>7, <2>1, <2>2, <2>3 DEF OnceInv
<1>15. OrderInv'
  <2>1. Made(r) /\ \A q : Made(q)' <=> Made(q)
    BY <1>1 DEF ReplyInv, OrderInv, Made
  <2>2. \A i \in 1 .. n + m : Made(rx'[i].of)
    BY <1>4, <1>5, <1>6, <1>8, <2>1 DEF ReplyInv, OrderInv
  <2> QED BY <1>1, <1>7, <1>10, <2>1, <2>2 DEF ReplyInv, OrderInv
<1>16. SpentInv'
  BY <1>1, <1>10, <1>11, <1>12 DEF ReplyInv, SpentInv
<1> QED BY <1>10, <1>14, <1>15, <1>16 DEF ReplyInv

\* A byte is read and the transaction goes on.
LEMMA ReplyReads ==
  ASSUME TypeInv, ReplyInv, listening, rx # <<>>, adu' = Append(adu, Head(rx)), rx' = Tail(rx),
         UNCHANGED <<ask, listening, flight, buffer, md, readings>>
  PROVE  ReplyInv'
<1>1. /\ Len(rx) \in Nat \ {0} /\ Len(adu) \in Nat
      /\ Len(rx') = Len(rx) - 1 /\ \A i \in 1 .. Len(rx) - 1 : rx'[i] = rx[i + 1]
      /\ Len(adu') = Len(adu) + 1
      /\ \A i \in 1 .. Len(adu) : adu'[i] = adu[i]
      /\ adu'[Len(adu) + 1] = rx[1]
  BY TakeByte
<1>2. \A i \in 1 .. Len(rx') : i + 1 \in 1 .. Len(rx) /\ rx'[i] = rx[i + 1]
  BY <1>1
<1>3. \/ Len(adu) >= 1 /\ adu'[1] = adu[1]
      \/ Len(adu) = 0 /\ adu'[1] = rx[1]
  BY <1>1
<1>4. 1 \in 1 .. Len(rx)
  BY <1>1
<1>5. Used' = Used /\ DistinctInv'
  BY UsedSame DEF ReplyInv
<1>6. \A q : InQueue(q)' => InQueue(q)
  BY <1>2 DEF InQueue, First
<1>7. \A q : AtHead(q)' => AtHead(q) \/ InQueue(q)
  BY <1>3, <1>4 DEF AtHead, InQueue, First
<1>8. OnceInv'
  <2>1. ASSUME NEW i \in 1 .. Len(rx'), NEW j \in 1 .. Len(rx'), rx'[i].at = 1, rx'[i] = rx'[j]
        PROVE  i = j
    <3>1. /\ i + 1 \in 1 .. Len(rx) /\ j + 1 \in 1 .. Len(rx)
          /\ rx[i + 1].at = 1 /\ rx[i + 1] = rx[j + 1]
      BY <1>2, <2>1
    <3>2. i + 1 = j + 1
      BY <3>1 DEF ReplyInv, OnceInv
    <3> QED BY <3>2
  <2>2. \A q \in flight' : ~InQueue(q)' /\ ~AtHead(q)'
    BY <1>6, <1>7 DEF ReplyInv, OnceInv
  <2>3. ASSUME adu'[1].at = 1, NEW i \in 1 .. Len(rx') PROVE rx'[i] # adu'[1]
    <3>1. CASE Len(adu) >= 1 /\ adu'[1] = adu[1]
      BY <1>2, <2>3, <3>1 DEF ReplyInv, OnceInv
    <3>2. CASE adu'[1] = rx[1]
      <4>1. i + 1 \in 1 .. Len(rx) /\ rx'[i] = rx[i + 1] /\ i + 1 # 1
        BY <1>2
      <4> QED BY <1>4, <2>3, <3>2, <4>1 DEF ReplyInv, OnceInv
    <3> QED BY <1>3, <3>1, <3>2
  <2> QED BY <2>1, <2>2, <2>3 DEF OnceInv
<1>9. OrderInv'
  <2>1. \A q : Made(q)' <=> Made(q)
    BY DEF Made
  <2>2. Made(adu'[1].of)
    BY <1>3, <1>4 DEF ReplyInv, OrderInv
  <2> QED BY <1>2, <1>5, <2>1, <2>2 DEF ReplyInv, OrderInv
<1>10. SpentInv'
  BY <1>5, <1>6, <1>7 DEF ReplyInv, SpentInv
<1> QED BY <1>5, <1>8, <1>9, <1>10 DEF ReplyInv

LEMMA ReplyStep ==
  ASSUME TypeInv, HeaderInv, ReplyInv, [Next]_vars PROVE ReplyInv'
<1>1. CASE UNCHANGED vars
  <2>1. Used' = Used /\ DistinctInv'
    BY <1>1, UsedSame DEF vars, ReplyInv
  <2>2. /\ \A q : InQueue(q)' <=> InQueue(q)
        /\ \A q : AtHead(q)' <=> AtHead(q)
        /\ \A q : Made(q)' <=> Made(q)
    BY <1>1 DEF vars, InQueue, AtHead, First, Made
  <2> QED BY <1>1, <2>1, <2>2 DEF vars, ReplyInv, OnceInv, OrderInv, SpentInv
<1>2. CASE ReadByte
  BY <1>2, ReplyReads DEF ReadByte
<1>3. CASE ReadFifth
  <2>1. listening /\ rx # <<>> /\ rx' = Tail(rx) /\ UNCHANGED <<flight, buffer, md, readings>>
    BY <1>3 DEF ReadFifth
  <2>2. \/ adu' = Append(adu, Head(rx)) /\ UNCHANGED <<ask, listening>>
        \/ GiveUp
    BY <1>3 DEF ReadFifth
  <2>3. CASE GiveUp
    <3>1. ~listening' /\ ask' = FirstAsk(ask.pass + 1)
      BY <2>3 DEF GiveUp
    <3>2. DistinctInv' /\ Used' \subseteq Used
      BY <2>1, <2>3, UsedGiveUp DEF ReplyInv
    <3> QED BY <2>1, <3>1, <3>2, ReplyEnds
  <2> QED BY <2>1, <2>2, <2>3, ReplyReads
<1>4. CASE ReadLast
  <2>1. listening /\ rx # <<>> /\ rx' = Tail(rx) /\ UNCHANGED flight
    BY <1>4 DEF ReadLast
  <2>2. PICK bytes : bytes = Append(adu, Head(rx))
    OBVIOUS
  <2>3. \/ CrcFits(bytes) /\ TakeOver(bytes[1].of)
        \/ GiveUp /\ UNCHANGED <<buffer, md, readings>>
    BY <1>4, <2>2 DEF ReadLast
  <2>4. CASE CrcFits(bytes) /\ TakeOver(bytes[1].of)
    <3>1. PICK r : r = bytes[1].of
      OBVIOUS
    <3>2. r \in Asks /\ AtHead(r)
      BY <1>4, <2>2, <2>4, <3>1, BelievedFrame
    <3>3. r \notin Used
      BY <3>2 DEF ReplyInv, SpentInv
    <3>4. DistinctInv' /\ Used' \subseteq Used \union {r}
      BY <2>4, <3>1, <3>2, <3>3, UsedTakeOver DEF ReplyInv
    <3>5. /\ ~listening'
          /\ ask' = FirstAsk(ask.pass + 1) \/ (~LastAsk(ask) /\ ask' = NextAsk(ask))
      BY <2>4 DEF TakeOver
    <3> QED BY <2>1, <3>2, <3>4, <3>5, ReplyEnds
  <2>5. CASE GiveUp /\ UNCHANGED <<buffer, md, readings>>
    <3>1. ~listening' /\ ask' = FirstAsk(ask.pass + 1)
      BY <2>5 DEF GiveUp
    <3>2. DistinctInv' /\ Used' \subseteq Used
      BY <2>5, UsedGiveUp DEF ReplyInv
    <3> QED BY <2>1, <3>1, <3>2, ReplyEnds
  <2> QED BY <2>3, <2>4, <2>5
<1>5. CASE Timeout
  <2>1. listening /\ GiveUp /\ UNCHANGED <<flight, rx, buffer, md, readings>>
    BY <1>5 DEF Timeout
  <2>2. ~listening' /\ ask' = FirstAsk(ask.pass + 1)
    BY <2>1 DEF GiveUp
  <2>3. DistinctInv' /\ Used' \subseteq Used
    BY <2>1, UsedGiveUp DEF ReplyInv
  <2> QED BY <2>1, <2>2, <2>3, ReplyEnds
<1> QED BY <1>1, <1>2, <1>3, <1>4, <1>5, ReplyTransmit, ReplyArrive DEF Next, Horizon

\* No reply is used twice, on any line: the receive queue is never flushed, yet
\* a late reply that is taken for another serves once only, and a stored
\* reading holds nothing that was left over from an earlier pass.
THEOREM RepliesOnce == Spec => []ReplyUsedOnce
<1> DEFINE Inv == TypeInv /\ HeaderInv /\ ReplyInv
<1>1. Init => Inv
  BY LinkTypeInit, HeaderInit, ReplyInit
<1>2. Inv /\ [Next]_vars => Inv'
  BY LinkTypeStep, HeaderStep, ReplyStep
<1>3. Inv => ReplyUsedOnce
  BY DEF ReplyInv, DistinctInv
<1> QED BY <1>1, <1>2, <1>3, PTL DEF Spec

-----------------------------------------------------------------------------
(* An undisturbed line *)

LEMMA CleanInit == Init => CleanInv /\ ReadingConsistent
<1> SUFFICES ASSUME Init PROVE CleanInv /\ ReadingConsistent
  OBVIOUS
<1>1. \A x \in Blocks : ~Taken(x)
  <2>1. ask.meter = 1 /\ ask.block = 1
    BY DEF Init, FirstAsk
  <2>2. \A x \in Blocks : x[1] \in Nat \ {0} /\ x[2] \in Nat \ {0}
    BY BlockType, MetersType
  <2> QED BY <2>1, <2>2 DEF Taken
<1>2. ~listening /\ flight = {} /\ rx = <<>> /\ readings = {}
  BY DEF Init
<1> QED BY <1>1, <1>2 DEF CleanInv, LineClean, ValuesClean, ReadingConsistent

LEMMA ValuesSame ==
  ASSUME ValuesClean, UNCHANGED <<ask, md>> PROVE ValuesClean'
BY DEF ValuesClean, Taken, Answers, Answer

LEMMA CleanArrive ==
  ASSUME TypeInv, LineClean, NEW r \in flight, Arrive(r), ~disturbed' PROVE LineClean'
<1>1. listening /\ r = ask /\ flight = {ask} /\ rx = <<>> /\ adu = <<>> /\ left = 8
  BY DEF LineClean
<1>2. flight' = {} /\ UNCHANGED <<ask, listening, adu, left>>
  BY <1>1 DEF Arrive
<1>3. ask \in Asks
  BY DEF TypeInv
<1>4. rx' = <<>> \o Frame(ask)
  BY <1>1 DEF Arrive
<1>5. PICK F : F = Frame(ask)
  OBVIOUS
<1>6. /\ F \in Seq(Bytes) /\ Len(F) = FrameSize(ask)
      /\ \A i \in 1 .. FrameSize(ask) : F[i] = [of |-> ask, at |-> i]
  BY <1>3, <1>5, FrameType
<1>7. rx' = F
  BY <1>4, <1>5, <1>6, ConcatEmptySeq
<1>8. PICK n \in 7 .. 259 : n = FrameSize(ask)
  BY <1>3, AskType
<1>9. Len(adu) = 0 /\ Len(rx') = n /\ FrameSize(ask') = n
  BY <1>1, <1>2, <1>6, <1>7, <1>8
<1>10. Whole'
  <2>1. \A i \in 1 .. Len(adu') : adu'[i] = [of |-> ask', at |-> i]
    BY <1>2, <1>9
  <2>2. \A i \in 1 .. Len(rx') : rx'[i] = [of |-> ask', at |-> Len(adu') + i]
    BY <1>2, <1>6, <1>7, <1>8, <1>9
  <2>3. Len(rx') >= 1 /\ Len(adu') + Len(rx') = FrameSize(ask') /\ left' = 8 - Len(adu') /\ Len(adu') < 5
    <3>1. Len(adu') = 0 /\ left' = 8 /\ Len(rx') = n /\ FrameSize(ask') = n
      BY <1>1, <1>2, <1>9
    <3> QED BY <3>1
  <2> QED BY <2>1, <2>2, <2>3 DEF Whole
<1> QED BY <1>1, <1>2, <1>10 DEF LineClean

\* What is read of a whole reply to the request.
LEMMA WholeByte ==
  ASSUME TypeInv, Whole, rx # <<>>
  PROVE  /\ Len(rx) \in Nat \ {0} /\ Len(adu) \in Nat
         /\ FrameSize(ask) \in 7 .. 259 /\ FrameSize(ask) = DataBytes(ask) + 5 /\ DataBytes(ask) \in 2 .. 254
         /\ Len(adu) + Len(rx) = FrameSize(ask)
         /\ Append(adu, Head(rx)) \in Seq(Bytes)
         /\ Len(Append(adu, Head(rx))) = Len(adu) + 1
         /\ \A i \in 1 .. Len(adu) + 1 : Append(adu, Head(rx))[i] = [of |-> ask, at |-> i]
         /\ Len(Tail(rx)) = Len(rx) - 1
         /\ \A i \in 1 .. Len(rx) - 1 : Tail(rx)[i] = [of |-> ask, at |-> Len(adu) + 1 + i]
<1>1. /\ Len(rx) \in Nat \ {0} /\ Len(adu) \in Nat
      /\ Len(Tail(rx)) = Len(rx) - 1
      /\ \A i \in 1 .. Len(rx) - 1 : Tail(rx)[i] = rx[i + 1]
      /\ Append(adu, Head(rx)) \in Seq(Bytes)
      /\ Len(Append(adu, Head(rx))) = Len(adu) + 1
      /\ \A i \in 1 .. Len(adu) : Append(adu, Head(rx))[i] = adu[i]
      /\ Append(adu, Head(rx))[Len(adu) + 1] = rx[1]
  BY TakeByte
<1>2. /\ Len(adu) + Len(rx) = FrameSize(ask)
      /\ \A i \in 1 .. Len(adu) : adu[i] = [of |-> ask, at |-> i]
      /\ \A i \in 1 .. Len(rx) : rx[i] = [of |-> ask, at |-> Len(adu) + i]
  BY DEF Whole
<1>3. rx[1] = [of |-> ask, at |-> Len(adu) + 1]
  <2>1. 1 \in 1 .. Len(rx)
    BY <1>1
  <2> QED BY <1>2, <2>1
<1>4. ASSUME NEW i \in 1 .. Len(adu) + 1
      PROVE  Append(adu, Head(rx))[i] = [of |-> ask, at |-> i]
  <2>1. i \in 1 .. Len(adu) \/ i = Len(adu) + 1
    BY <1>1
  <2> QED BY <1>1, <1>2, <1>3, <2>1
<1>5. ASSUME NEW i \in 1 .. Len(rx) - 1
      PROVE  Tail(rx)[i] = [of |-> ask, at |-> Len(adu) + 1 + i]
  <2>1. i + 1 \in 1 .. Len(rx) /\ Len(adu) + (i + 1) = Len(adu) + 1 + i
    BY <1>1
  <2>2. Tail(rx)[i] = rx[i + 1]
    BY <1>1
  <2> QED BY <1>2, <2>1, <2>2
<1>6. FrameSize(ask) \in 7 .. 259 /\ FrameSize(ask) = DataBytes(ask) + 5 /\ DataBytes(ask) \in 2 .. 254
  BY AskType DEF TypeInv
<1> QED BY <1>1, <1>2, <1>4, <1>5, <1>6

LEMMA CleanReadByte ==
  ASSUME TypeInv, LineClean, ReadByte PROVE LineClean'
<1>1. /\ listening /\ rx # <<>> /\ Len(adu) + 1 # 5 /\ left > 1 /\ left' = left - 1
      /\ adu' = Append(adu, Head(rx)) /\ rx' = Tail(rx)
      /\ UNCHANGED <<ask, listening, flight>>
  BY DEF ReadByte
<1>2. flight = {} /\ Whole
  BY <1>1 DEF LineClean
<1>3. PICK n \in 7 .. 259 : n = FrameSize(ask)
  BY <1>1, <1>2, WholeByte
<1>4. /\ Len(rx) \in Nat \ {0} /\ Len(adu) \in Nat /\ Len(adu) + Len(rx) = n
      /\ Len(adu') = Len(adu) + 1 /\ Len(rx') = Len(rx) - 1
  BY <1>1, <1>2, <1>3, WholeByte
<1>5. left = IF Len(adu) < 5 THEN 8 - Len(adu) ELSE Len(rx)
  BY <1>2 DEF Whole
<1>6. /\ Len(rx') >= 1 /\ Len(adu') + Len(rx') = n
      /\ left' = IF Len(adu') < 5 THEN 8 - Len(adu') ELSE Len(rx')
  <2>1. PICK a \in Nat, b \in Nat \ {0}, l \in Int : a = Len(adu) /\ b = Len(rx) /\ l = left
    BY <1>4 DEF TypeInv
  <2>2. /\ Len(adu') = a + 1 /\ Len(rx') = b - 1 /\ a + b = n
        /\ l = IF a < 5 THEN 8 - a ELSE b
    BY <1>4, <1>5, <2>1
  <2>3. left' = l - 1 /\ l > 1 /\ a + 1 # 5
    BY <1>1, <2>1
  <2> QED BY <2>2, <2>3
<1>7. \A i \in 1 .. Len(adu') : adu'[i] = [of |-> ask, at |-> i]
  BY <1>1, <1>2, <1>4, WholeByte
<1>8. \A i \in 1 .. Len(rx') : rx'[i] = [of |-> ask, at |-> Len(adu') + i]
  BY <1>1, <1>2, <1>4, WholeByte
<1>9. FrameSize(ask') = n
  BY <1>1, <1>3
<1>10. Whole'
  BY <1>1, <1>6, <1>7, <1>8, <1>9 DEF Whole
<1> QED BY <1>1, <1>2, <1>10 DEF LineClean

\* The reply that was asked for has a header that fits and its own byte count.
LEMMA CleanFifth ==
  ASSUME TypeInv, LineClean, ReadFifth PROVE LineClean' /\ UNCHANGED ask
<1>1. listening /\ rx # <<>> /\ Len(adu) + 1 = 5 /\ rx' = Tail(rx) /\ UNCHANGED flight
  BY DEF ReadFifth
<1>2. flight = {} /\ Whole
  BY <1>1 DEF LineClean
<1>3. PICK bytes : bytes = Append(adu, Head(rx))
  OBVIOUS
<1>4. /\ Len(adu) = 4 /\ Len(bytes) = 5 /\ Len(rx) \in Nat \ {0}
      /\ \A i \in 1 .. 5 : bytes[i] = [of |-> ask, at |-> i]
      /\ Len(rx') = Len(rx) - 1
      /\ \A i \in 1 .. Len(rx) - 1 : rx'[i] = [of |-> ask, at |-> 5 + i]
  <2>1. Len(adu) \in Nat
    BY <1>1, <1>2, WholeByte
  <2>2. Len(adu) = 4
    <3>1. PICK a \in Nat : a = Len(adu)
      BY <2>1
    <3>2. a + 1 = 5
      BY <1>1, <3>1
    <3> QED BY <3>1, <3>2
  <2>3. /\ Len(rx) \in Nat \ {0} /\ Len(bytes) = 4 + 1 /\ Len(rx') = Len(rx) - 1
        /\ \A i \in 1 .. 4 + 1 : bytes[i] = [of |-> ask, at |-> i]
        /\ \A i \in 1 .. Len(rx) - 1 : rx'[i] = [of |-> ask, at |-> 4 + 1 + i]
    BY <1>1, <1>2, <1>3, <2>2, WholeByte
  <2> QED BY <2>2, <2>3
<1>5. PICK d \in 2 .. 254 : d = DataBytes(ask) /\ FrameSize(ask) = d + 5 /\ 4 + Len(rx) = d + 5
  BY <1>1, <1>2, <1>4, WholeByte
<1>6. /\ bytes[1].at = 1 /\ bytes[2].at = 2 /\ bytes[3].at = 3
      /\ bytes[1].of = ask /\ bytes[2].of = ask /\ bytes[3].of = ask
  BY <1>4
<1>7. HeaderLooks(bytes) = {TRUE} /\ Counts(bytes) = {d}
  <2>1. HeaderFits(bytes)
    BY <1>6 DEF HeaderFits
  <2>2. HeaderLooks(bytes) = {TRUE}
    BY <1>6, <2>1 DEF HeaderLooks
  <2>3. Counts(bytes) = {d}
    BY <1>5, <1>6 DEF Counts
  <2> QED BY <2>2, <2>3
<1>8. adu' = bytes /\ left' = d /\ UNCHANGED <<ask, listening>>
  <2>1. PICK fits \in HeaderLooks(bytes), n \in Counts(bytes) :
          IF fits /\ n > 0
          THEN adu' = bytes /\ left' = n /\ UNCHANGED <<ask, listening>>
          ELSE GiveUp /\ UNCHANGED <<adu, left>>
    BY <1>3 DEF ReadFifth
  <2>2. fits /\ n = d
    BY <1>7
  <2>3. d > 0
    OBVIOUS
  <2> QED BY <2>1, <2>2, <2>3
<1>9. Whole'
  <2>1. Len(adu') = 5 /\ Len(rx') = d /\ FrameSize(ask') = d + 5 /\ d >= 1
    <3>1. PICK b \in Nat : b = Len(rx)
      BY <1>4
    <3>2. 4 + b = d + 5 /\ Len(rx') = b - 1
      BY <1>4, <1>5, <3>1
    <3>3. Len(rx') = d /\ d >= 1
      BY <3>2
    <3>4. Len(adu') = 5
      BY <1>4, <1>8
    <3>5. FrameSize(ask') = d + 5
      BY <1>5, <1>8
    <3> QED BY <3>3, <3>4, <3>5
  <2>2. \A i \in 1 .. Len(adu') : adu'[i] = [of |-> ask', at |-> i]
    BY <1>4, <1>8, <2>1
  <2>3. \A i \in 1 .. Len(rx') : rx'[i] = [of |-> ask', at |-> Len(adu') + i]
    BY <1>4, <1>8, <2>1
  <2>4. Len(rx') >= 1 /\ Len(adu') + Len(rx') = FrameSize(ask') /\ ~(Len(adu') < 5) /\ left' = Len(rx')
    BY <1>8, <2>1
  <2> QED BY <2>2, <2>3, <2>4 DEF Whole
<1> QED BY <1>1, <1>2, <1>8, <1>9 DEF LineClean

LEMMA CleanLast ==
  ASSUME TypeInv, LineClean, ReadLast, ~disturbed'
  PROVE  LineClean' /\ TakeOver(ask)
<1>1. listening /\ rx # <<>> /\ Len(adu) + 1 > 5 /\ left = 1 /\ rx' = Tail(rx) /\ UNCHANGED flight
  BY DEF ReadLast
<1>2. flight = {} /\ Whole
  BY <1>1 DEF LineClean
<1>3. PICK bytes : bytes = Append(adu, Head(rx))
  OBVIOUS
<1>4. PICK n \in 7 .. 259 : n = FrameSize(ask)
  BY <1>1, <1>2, WholeByte
<1>5. /\ Len(rx) \in Nat \ {0} /\ Len(adu) \in Nat /\ Len(adu) + Len(rx) = n
      /\ bytes \in Seq(Bytes) /\ Len(bytes) = Len(adu) + 1 /\ Len(rx') = Len(rx) - 1
      /\ \A i \in 1 .. Len(adu) + 1 : bytes[i] = [of |-> ask, at |-> i]
  BY <1>1, <1>2, <1>3, <1>4, WholeByte
<1>6. Len(rx) = 1 /\ Len(adu) + 1 = n
  <2>1. left = IF Len(adu) < 5 THEN 8 - Len(adu) ELSE Len(rx)
    BY <1>2 DEF Whole
  <2>2. PICK a \in Nat, b \in Nat \ {0} : a = Len(adu) /\ b = Len(rx)
    BY <1>5
  <2>3. a + b = n /\ a + 1 > 5 /\ 1 = IF a < 5 THEN 8 - a ELSE b
    BY <1>1, <1>5, <2>1, <2>2
  <2>4. b = 1 /\ a + 1 = n
    BY <2>3
  <2> QED BY <2>2, <2>4
<1>7. bytes = Frame(ask)
  <2>1. PICK F : F = Frame(ask)
    OBVIOUS
  <2>2. F \in Seq(Bytes) /\ Len(F) = n /\ \A i \in 1 .. n : F[i] = [of |-> ask, at |-> i]
    BY <1>4, <2>1, FrameType DEF TypeInv
  <2>3. Len(bytes) = Len(F) /\ \A i \in 1 .. Len(bytes) : bytes[i] = F[i]
    BY <1>5, <1>6, <2>2
  <2>4. bytes = F
    BY <1>5, <2>2, <2>3, SeqEqual
  <2> QED BY <2>1, <2>4
<1>8. bytes[1].of = ask
  <2>1. 1 \in 1 .. Len(adu) + 1
    BY <1>5
  <2> QED BY <1>5, <2>1
<1>9. CrcFits(bytes)
  BY <1>7, <1>8 DEF CrcFits
<1>10. TakeOver(ask)
  BY <1>3, <1>8, <1>9 DEF ReadLast
<1>11. rx' = <<>>
  <2>1. Len(rx') = 0 /\ Tail(rx) \in Seq(Bytes)
    BY <1>1, <1>5, <1>6, TakeByte
  <2> QED BY <1>1, <2>1, EmptySeq
<1>12. ~listening'
  BY <1>10 DEF TakeOver
<1> QED BY <1>1, <1>2, <1>10, <1>11, <1>12 DEF LineClean

\* The values of the pass after the reply that was asked for is taken over.
LEMMA CleanValues ==
  ASSUME TypeInv, listening, ValuesClean, TakeOver(ask)
  PROVE  /\ ValuesClean'
         /\ \A g \in readings' \ readings : \A x \in Blocks : Answers(g.pass, x, g.md[x])
<1>1. /\ ask \in Asks /\ Quantity(ask) = Size(Present) /\ 1 .. Size(Present) \subseteq Places
      /\ \A i \in Places : buffer'[i] = IF i <= Quantity(ask) THEN [of |-> ask, at |-> i] ELSE buffer[i]
      /\ \A i \in 1 .. Size(Present) : md'[Present][i] = buffer'[i]
      /\ \A x \in Blocks : x # Present => md'[x] = md[x]
      /\ Size(Present) \in 1 .. 127
  BY WordsTaken, SizeType DEF TypeInv, Present
<1>2. ASSUME NEW x \in Blocks, Taken(x) \/ x = Present PROVE Answers(ask.pass, x, md'[x])
  <2>1. CASE x = Present
    <3>1. ask = Answer(ask.pass, x)
      BY <1>1, <2>1, AskType DEF Answer, Present
    <3>2. ASSUME NEW i \in 1 .. Size(x) PROVE md'[x][i] = [of |-> ask, at |-> i]
      <4>1. i \in Places /\ i <= Quantity(ask)
        BY <1>1, <2>1
      <4> QED BY <1>1, <2>1, <4>1
    <3>3. \A i \in 1 .. Size(x) : md'[x][i] = [of |-> Answer(ask.pass, x), at |-> i]
      BY <3>1, <3>2
    <3> QED BY <3>3 DEF Answers
  <2>2. CASE x # Present
    <3>1. md'[x] = md[x] /\ Taken(x)
      BY <1>1, <1>2, <2>2
    <3> QED BY <3>1 DEF ValuesClean
  <2> QED BY <2>1, <2>2
<1>3. CASE LastAsk(ask)
  <2> DEFINE G == [pass |-> ask.pass, md |-> md']
  <2>1. ask' = FirstAsk(ask.pass + 1) /\ readings' = readings \union {G}
    BY <1>3 DEF TakeOver
  <2>2. ValuesClean'
    BY <2>1, NoneTaken DEF ValuesClean
  <2>3. \A x \in Blocks : Answers(G.pass, x, G.md[x])
    BY <1>2, <1>3, AllTaken
  <2> HIDE DEF G
  <2> QED BY <2>1, <2>2, <2>3
<1>4. CASE ~LastAsk(ask)
  <2>1. ask' = NextAsk(ask) /\ readings' = readings
    BY <1>4 DEF TakeOver
  <2>2. ask'.pass = ask.pass
    BY <1>4, <2>1, NextAskType DEF TypeInv
  <2>3. \A x \in Blocks : Taken(x)' => Taken(x) \/ x = Present
    BY <1>4, <2>1, TakenNext
  <2>4. ValuesClean'
    BY <1>2, <2>2, <2>3 DEF ValuesClean, Answers, Answer
  <2> QED BY <2>1, <2>4
<1> QED BY <1>3, <1>4

LEMMA CleanStep ==
  ASSUME TypeInv, CleanInv, ReadingConsistent, [Next]_vars
  PROVE  CleanInv' /\ ReadingConsistent'
<1> SUFFICES ASSUME ~disturbed' PROVE LineClean' /\ ValuesClean' /\ ReadingConsistent'
  BY DEF CleanInv, ReadingConsistent
<1>1. ~disturbed
  BY DEF Next, vars, Transmit, Arrive, ReadByte, ReadFifth, ReadLast, Timeout, Horizon
<1>2. LineClean /\ ValuesClean
  BY <1>1 DEF CleanInv
<1>3. ASSUME NEW g \in readings, NEW x \in Blocks PROVE Answers(g.pass, x, g.md[x])
  BY <1>1 DEF ReadingConsistent, Answers, Answer
<1>4. CASE UNCHANGED vars
  <2>1. LineClean'
    BY <1>2, <1>4 DEF vars, LineClean, Whole
  <2> QED BY <1>2, <1>3, <1>4, <2>1, ValuesSame DEF vars, ReadingConsistent, Answers, Answer
<1>5. CASE Transmit
  <2>1. /\ ~listening /\ listening' /\ flight' \subseteq flight \union {ask}
        /\ adu' = <<>> /\ left' = 8 /\ UNCHANGED <<ask, rx, buffer, md, readings>>
    BY <1>5 DEF Transmit
  <2>2. LineClean'
    BY <1>2, <2>1 DEF LineClean
  <2> QED BY <1>2, <1>3, <2>1, <2>2, ValuesSame DEF ReadingConsistent, Answers, Answer
<1>6. ASSUME NEW r \in flight, Arrive(r) PROVE LineClean' /\ ValuesClean' /\ ReadingConsistent'
  <2>1. LineClean'
    BY <1>2, <1>6, CleanArrive
  <2>2. UNCHANGED <<ask, buffer, md, readings>>
    BY <1>6 DEF Arrive
  <2> QED BY <1>2, <1>3, <2>1, <2>2, ValuesSame DEF ReadingConsistent, Answers, Answer
<1>7. CASE ReadByte
  <2>1. LineClean'
    BY <1>2, <1>7, CleanReadByte
  <2>2. UNCHANGED <<ask, buffer, md, readings>>
    BY <1>7 DEF ReadByte
  <2> QED BY <1>2, <1>3, <2>1, <2>2, ValuesSame DEF ReadingConsistent, Answers, Answer
<1>8. CASE ReadFifth
  <2>1. LineClean' /\ UNCHANGED ask
    BY <1>2, <1>8, CleanFifth
  <2>2. UNCHANGED <<buffer, md, readings>>
    BY <1>8 DEF ReadFifth
  <2> QED BY <1>2, <1>3, <2>1, <2>2, ValuesSame DEF ReadingConsistent, Answers, Answer
<1>9. CASE ReadLast
  <2>1. LineClean' /\ TakeOver(ask) /\ listening
    BY <1>2, <1>9, CleanLast DEF ReadLast
  <2>2. /\ ValuesClean'
        /\ \A g \in readings' \ readings : \A x \in Blocks : Answers(g.pass, x, g.md[x])
    BY <1>2, <2>1, CleanValues
  <2> QED BY <1>3, <2>1, <2>2 DEF ReadingConsistent, Answers, Answer
<1>10. CASE Timeout
  <2>1. /\ listening /\ ~listening' /\ ask' = FirstAsk(ask.pass + 1)
        /\ rx = <<>> /\ ask \notin flight /\ UNCHANGED <<flight, rx, buffer, md, readings>>
    BY <1>10 DEF Timeout, GiveUp
  <2>2. flight = {}
    <3>1. Len(rx) = 0
      BY <2>1
    <3> QED BY <1>2, <2>1, <3>1 DEF LineClean, Whole
  <2>3. LineClean'
    BY <2>1, <2>2 DEF LineClean
  <2>4. ValuesClean'
    BY <2>1, NoneTaken DEF ValuesClean
  <2> QED BY <1>3, <2>1, <2>3, <2>4 DEF ReadingConsistent, Answers, Answer
<1> QED BY <1>4, <1>5, <1>6, <1>7, <1>8, <1>9, <1>10 DEF Next, Horizon

\* As long as no byte is lost and no slave answers after the timeout, a stored
\* reading holds, for every block of every meter, the reply to that block's
\* request in the same pass, although the queue is never flushed.
THEOREM ReadingsConsistent == Spec => []ReadingConsistent
<1> DEFINE Inv == TypeInv /\ CleanInv /\ ReadingConsistent
<1>1. Init => Inv
  BY LinkTypeInit, CleanInit
<1>2. Inv /\ [Next]_vars => Inv'
  BY LinkTypeStep, CleanStep
<1>3. Inv => ReadingConsistent
  OBVIOUS
<1> QED BY <1>1, <1>2, <1>3, PTL DEF Spec

=============================================================================
