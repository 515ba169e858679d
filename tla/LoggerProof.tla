---------------------------- MODULE LoggerProof ----------------------------
(* Theorems about the store-and-forward core, with their proofs: the order of *)
(* the indices, and from it the content of the ring.                          *)
EXTENDS Logger, TLAPS

(* Arithmetic of the ring *)

LEMMA RingSize == MaxRecord \in Nat \ {0} /\ Slots = 0 .. MaxRecord - 1
<1>1. SectorRecs \in Nat \ {0} /\ Sectors \in Nat \ {0}
  BY RingAssumption
<1>2. SectorRecs * Sectors \in Nat \ {0}
  BY <1>1, SMT
<1> QED
  BY <1>2 DEF MaxRecord, Slots

LEMMA DivMod ==
  ASSUME NEW a \in Nat, NEW b \in Nat \ {0}
  PROVE  a \div b \in Nat /\ a % b \in 0 .. b - 1 /\ a = b * (a \div b) + (a % b)
<1>1. a \div b \in Nat
  OBVIOUS
<1>2. a % b \in 0 .. b - 1
  OBVIOUS
<1>3. a = b * (a \div b) + (a % b)
  OBVIOUS
<1> QED
  BY <1>1, <1>2, <1>3

LEMMA DivModParts ==
  ASSUME NEW a \in Nat, NEW b \in Nat \ {0}
  PROVE  \E q \in Nat, t \in 0 .. b - 1 : q = a \div b /\ t = a % b /\ a = b * q + t
<1> DEFINE q == a \div b
           t == a % b
<1>1. q \in Nat /\ t \in 0 .. b - 1 /\ a = b * q + t
  BY DivMod
<1> WITNESS q \in Nat, t \in 0 .. b - 1
<1> QED
  BY <1>1

LEMMA SlotInRing == \A i \in Int : Slot(i) \in Slots
BY RingSize DEF Slot

\* A slot programmed for a batch of n lies at a position of the batch.
LEMMA OffsetInBatch ==
  ASSUME NEW f, NEW w \in Nat, NEW n \in Nat,
         NEW s \in Programmable(f, w, n)
  PROVE  s \in Slots /\ Offset(w, s) \in 0 .. n - 1
<1>1. Slot(w) \in 0 .. MaxRecord - 1
  BY SlotInRing, RingSize
<1>2. s \in Slots /\ Offset(w, s) < n
  BY DEF Programmable, HeadPart, TailPart
<1>3. s \in 0 .. MaxRecord - 1 /\ MaxRecord \in Nat
  BY <1>2, RingSize
<1>4. Offset(w, s) \in Nat
  BY <1>1, <1>3 DEF Offset
<1> QED
  BY <1>2, <1>4

LEMMA ProgrammedType ==
  ASSUME NEW f \in [Slots -> Content], NEW w \in Nat,
         NEW c \in [0 .. NumRec - 1 -> Content]
  PROVE  Programmed(f, w, NumRec, c) \in [Slots -> Content]
<1>1. NumRec \in Nat
  BY LoggerAssumption, RingAssumption
<1>2. \A s \in Programmable(f, w, NumRec) : c[Offset(w, s)] \in Content
  BY <1>1, OffsetInBatch
<1> QED
  BY <1>2 DEF Programmed

LEMMA ReadingType ==
  ASSUME samples \in 1 .. MaxSamples
  PROVE  Reading \in [0 .. NumRec - 1 -> Content]
BY DEF Reading, Content, Record

\* An index is a number of turns round the ring and a slot.
LEMMA SlotTurns == ASSUME NEW i \in Nat PROVE \E q \in Nat : i = MaxRecord * q + Slot(i)
<1>1. MaxRecord \in Nat \ {0}
  BY RingSize
<1>2. PICK q \in Nat, t \in 0 .. MaxRecord - 1 :
        q = i \div MaxRecord /\ t = i % MaxRecord /\ i = MaxRecord * q + t
  BY <1>1, DivModParts, Zenon
<1>3. i = MaxRecord * q + Slot(i)
  BY <1>2, Zenon DEF Slot
<1> QED
  BY <1>3, Zenon

\* An index save cut short leaves a natural number, and one that is not above
\* the new value when the save was raising the index.
LEMMA InterruptedNat ==
  ASSUME NEW old \in Nat, NEW new \in Nat, NEW v \in Interrupted(old, new)
  PROVE  v \in Nat /\ (old <= new => v <= new)
<1>1. CASE v \in {old, new}
  BY <1>1
<1>2. CASE v \notin {old, new}
  <2>1. PICK b \in ByteWeights : v = (old \div b) * b + (new % b)
    BY <1>2 DEF Interrupted
  <2>2. b \in Nat \ {0}
    BY <2>1, LoggerAssumption
  <2>3. /\ old \div b \in Nat /\ new \div b \in Nat /\ new % b \in Nat
        /\ new = b * (new \div b) + (new % b)
    BY <2>2
  <2>4. (old \div b) * b \in Nat
    BY <2>2, <2>3
  <2>5. ASSUME old <= new PROVE (old \div b) * b <= (new \div b) * b
    <3>1. old \div b <= new \div b
      BY <2>2, <2>5
    <3> QED
      BY <2>2, <2>3, <3>1
  <2>6. (new \div b) * b = b * (new \div b)
    BY <2>2, <2>3
  <2>7. v \in Nat
    BY <2>1, <2>3, <2>4
  <2>8. ASSUME old <= new PROVE v <= new
    <3>1. (old \div b) * b <= (new \div b) * b /\ (new \div b) * b \in Nat
      BY <2>2, <2>3, <2>5, <2>8
    <3> DEFINE lo == (old \div b) * b
               hi == (new \div b) * b
               re == new % b
    <3>2. lo \in Nat /\ hi \in Nat /\ re \in Nat /\ lo <= hi
      BY <2>3, <2>4, <3>1
    <3>3. v = lo + re /\ new = hi + re
      BY <2>1, <2>3, <2>6
    <3> HIDE DEF lo, hi, re
    <3> QED
      BY <3>2, <3>3
  <2> QED
    BY <2>7, <2>8
<1> QED
  BY <1>1, <1>2


-----------------------------------------------------------------------------
(* Type correctness *)

\* A reading being stored has a number from 1 on: what Reading needs.
TypeInv == TypeOK /\ (pc \in {"erase", "write"} => samples >= 1)

LEMMA AtType == ASSUME TypeOK, NEW i \in Int PROVE At(i) \in Content
BY SlotInRing DEF TypeOK, At

LEMMA RequestType == TypeOK => Request \subseteq Content
<1> SUFFICES ASSUME TypeOK PROVE Request \subseteq Content
  OBVIOUS
<1>1. rIndex \in Nat /\ sent \in Nat /\ num \in Nat
  BY DEF TypeOK
<1>2. rIndex + sent \in Int /\ rIndex .. (rIndex + num - 1) \subseteq Int
  BY <1>1
<1>3. At(rIndex + sent) \in Content /\ \A i \in rIndex .. (rIndex + num - 1) : At(i) \in Content
  BY <1>2, AtType
<1> QED
  BY <1>3 DEF Request

LEMMA BatchType ==
  TypeOK => {At(i) : i \in (wIndex - NumRec) .. (wIndex - 1)} \subseteq Content
<1> SUFFICES ASSUME TypeOK, NEW i \in (wIndex - NumRec) .. (wIndex - 1)
             PROVE  At(i) \in Content
  OBVIOUS
<1>1. wIndex \in Nat /\ NumRec \in Nat
  BY LoggerAssumption, RingAssumption DEF TypeOK
<1>2. i \in Int
  BY <1>1
<1> QED
  BY <1>2, AtType

LEMMA DisturbedType ==
  ASSUME NEW c \in Disturbed PROVE c \in [0 .. NumRec - 1 -> Content]
BY DEF Disturbed

LEMMA WriteFailsType ==
  ASSUME TypeInv, pc = "write", WriteFails
  PROVE  flash' \in [Slots -> Content] /\ faults' \in 0 .. MaxFaults
<1>1. samples \in 1 .. MaxSamples /\ wIndex \in Nat /\ flash \in [Slots -> Content]
      /\ faults \in 0 .. MaxFaults /\ MaxFaults \in Nat
  BY LoggerAssumption DEF TypeInv, TypeOK
<1>2. Reading \in [0 .. NumRec - 1 -> Content]
  BY <1>1, ReadingType
<1>3. CASE /\ ~Accepted(flash, wIndex, NumRec)
           /\ flash' = Programmed(flash, wIndex, NumRec, Reading)
           /\ UNCHANGED faults
  BY <1>1, <1>2, <1>3, ProgrammedType
<1>4. CASE Fault /\ \E c \in Disturbed : flash' = Programmed(flash, wIndex, NumRec, c)
  BY <1>1, <1>4, ProgrammedType, DisturbedType DEF Fault
<1> QED
  BY <1>3, <1>4 DEF WriteFails

LEMMA BlankedType ==
  ASSUME NEW f \in [Slots -> Content], NEW S, NEW c \in {Erased, Torn}
  PROVE  /\ Blanked(f, S) \in [Slots -> Content]
         /\ [s \in Slots |-> IF s \in S THEN c ELSE f[s]] \in [Slots -> Content]
BY DEF Blanked, Content

LEMMA NextSectorNat == ASSUME NEW w \in Nat PROVE NextSector(w) \in Nat /\ w < NextSector(w)
<1>1. SectorRecs \in Nat \ {0}
  BY RingAssumption
<1>2. /\ w \div SectorRecs \in Nat /\ w % SectorRecs \in 0 .. SectorRecs - 1
      /\ w = SectorRecs * (w \div SectorRecs) + (w % SectorRecs)
  BY <1>1, DivMod
<1>3. ((w \div SectorRecs) + 1) * SectorRecs = SectorRecs * (w \div SectorRecs) + SectorRecs
  BY <1>1, <1>2
<1>4. SectorRecs * (w \div SectorRecs) \in Nat
  BY <1>1, <1>2
<1> QED
  BY <1>1, <1>2, <1>3, <1>4 DEF NextSector

LEMMA RoundSizeType ==
  ASSUME TypeOK, CanPost
  PROVE  RoundSize \in Nat /\ 0 < RoundSize /\ RoundSize <= wIndex - rIndex
BY LoggerAssumption DEF TypeOK, CanPost, RoundSize, Lesser

LEMMA TypeInit == Init => TypeInv
<1> SUFFICES ASSUME Init PROVE TypeInv
  OBVIOUS
<1>1. flash \in [Slots -> Content]
  BY DEF Init, Content
<1>2. nvW \in Nat /\ nvR \in Nat
  BY LoggerAssumption DEF Init
<1>3. nvMark \in BOOLEAN
  BY Zenon DEF Init
<1> QED
  BY <1>1, <1>2, <1>3, LoggerAssumption DEF Init, TypeInv, TypeOK, Steps, Ages

LEMMA TypeBoot == TypeInv /\ Boot => TypeInv'
<1> SUFFICES ASSUME TypeInv, Boot PROVE TypeInv'
  OBVIOUS
<1> USE DEF TypeInv, TypeOK, Steps, SetSteps, ram, round, nv, hist
<1>1. CASE RestoreIndices
  BY <1>1 DEF RestoreIndices
<1>2. CASE InitNvram
  <2>1. nvMark' \in BOOLEAN
    BY <1>2, Zenon DEF InitNvram
  <2>2. faults' \in 0 .. MaxFaults
    BY <1>2, LoggerAssumption DEF InitNvram, Fault
  <2>3. mishaps' \subseteq SetSteps \union {"misread", "overrun"}
    BY <1>2 DEF InitNvram
  <2> QED
    BY <1>2, <2>1, <2>2, <2>3 DEF InitNvram
<1>3. CASE InitSaveW
  BY <1>3 DEF InitSaveW
<1>4. CASE InitSaveR
  BY <1>4 DEF InitSaveR
<1> QED
  BY <1>1, <1>2, <1>3, <1>4 DEF Boot

LEMMA TypeRead == TypeInv /\ (LoopTop \/ NotDue \/ ReadFails \/ ReadOk) => TypeInv'
<1> SUFFICES ASSUME TypeInv, LoopTop \/ NotDue \/ ReadFails \/ ReadOk PROVE TypeInv'
  OBVIOUS
<1> USE DEF TypeInv, TypeOK, Steps, SetSteps, Ages, ram, round, nv, hist
<1>1. CASE LoopTop
  BY <1>1 DEF LoopTop
<1>2. CASE NotDue
  BY <1>2 DEF NotDue
<1>3. CASE ReadFails
  BY <1>3 DEF ReadFails
<1>4. CASE ReadOk
  BY <1>4, LoggerAssumption DEF ReadOk
<1> QED
  BY <1>1, <1>2, <1>3, <1>4

LEMMA TypeStore == TypeInv /\ Store => TypeInv'
<1> SUFFICES ASSUME TypeInv, Store PROVE TypeInv'
  OBVIOUS
<1> USE DEF TypeInv, TypeOK, Steps, SetSteps, Ages, ram, round, nv, hist
<1>0. /\ NumRec \in Nat /\ flash \in [Slots -> Content] /\ wIndex \in Nat
      /\ fErrorCnt \in 0 .. 255
  BY LoggerAssumption, RingAssumption
<1>1. CASE EraseEntered
  <2>1. flash' \in [Slots -> Content]
    BY <1>0, <1>1, BlankedType DEF EraseEntered
  <2>2. faults' \in 0 .. MaxFaults
    BY <1>1, LoggerAssumption DEF EraseEntered, Fault
  <2>3. mishaps' \subseteq SetSteps \union {"misread", "overrun"}
    BY <1>1 DEF EraseEntered
  <2> QED
    BY <1>1, <2>1, <2>2, <2>3 DEF EraseEntered
<1>2. CASE WriteOk
  <2>1. Reading \in [0 .. NumRec - 1 -> Content]
    BY <1>2, ReadingType DEF WriteOk
  <2>2. flash' \in [Slots -> Content]
    BY <1>0, <1>2, <2>1, ProgrammedType DEF WriteOk
  <2> QED
    BY <1>0, <1>2, <2>2 DEF WriteOk
<1>3. CASE SaveW
  BY <1>3, BatchType DEF SaveW
<1>4. CASE DropReading
  <2>1. flash' \in [Slots -> Content] /\ faults' \in 0 .. MaxFaults
    BY <1>4, WriteFailsType DEF DropReading
  <2> QED
    BY <1>0, <1>4, <2>1 DEF DropReading
<1>5. CASE SkipSector
  <2>1. flash' \in [Slots -> Content] /\ faults' \in 0 .. MaxFaults
    BY <1>5, WriteFailsType DEF SkipSector
  <2> QED
    BY <1>0, <1>5, <2>1, NextSectorNat DEF SkipSector
<1>6. CASE SkipSaveR
  BY <1>6 DEF SkipSaveR
<1>7. CASE SkipSaveW
  BY <1>7 DEF SkipSaveW
<1> QED
  BY <1>1, <1>2, <1>3, <1>4, <1>5, <1>6, <1>7 DEF Store

LEMMA TypeForward == TypeInv /\ Forward => TypeInv'
<1> SUFFICES ASSUME TypeInv, Forward PROVE TypeInv'
  OBVIOUS
<1> USE DEF TypeInv, TypeOK, Steps, SetSteps, ram, round, nv, hist
<1>1. CASE PostBegin
  BY <1>1, RoundSizeType DEF PostBegin
<1>2. CASE PostSkip
  BY <1>2 DEF PostSkip
<1>3. CASE Accept
  BY <1>3, RequestType DEF Accept, SentAfter
<1>4. CASE Refuse
  BY <1>4, RequestType DEF Refuse
<1>5. CASE SaveR
  BY <1>5 DEF SaveR
<1> QED
  BY <1>1, <1>2, <1>3, <1>4, <1>5 DEF Forward

LEMMA TypeCheck == TypeInv /\ Check => TypeInv'
<1> SUFFICES ASSUME TypeInv, Check PROVE TypeInv'
  OBVIOUS
<1> USE DEF TypeInv, TypeOK, Steps, SetSteps, Ages, ram, round, nv, hist
<1>1. CASE CheckNothing
  BY <1>1 DEF CheckNothing
<1>2. CASE Restart
  BY <1>2 DEF Restart, Reboot
<1>3. CASE ResetCommand
  BY <1>3 DEF ResetCommand
<1>4. CASE ResetSaveW
  BY <1>4 DEF ResetSaveW
<1>5. CASE ResetSaveR
  BY <1>5 DEF ResetSaveR, Reboot
<1> QED
  BY <1>1, <1>2, <1>3, <1>4, <1>5 DEF Check

LEMMA TypeReset == TypeInv /\ Reset => TypeInv'
<1> SUFFICES ASSUME TypeInv, Reset PROVE TypeInv'
  OBVIOUS
<1>0. /\ NumRec \in Nat /\ flash \in [Slots -> Content] /\ wIndex \in Nat
      /\ rIndex \in Nat /\ nvW \in Nat /\ nvR \in Nat
      /\ mishaps \subseteq SetSteps \union {"misread", "overrun"}
      /\ stored \subseteq Content /\ received \subseteq Content
  BY LoggerAssumption, RingAssumption DEF TypeInv, TypeOK
<1>1. /\ pc' = "boot" /\ age' = "due"
      /\ wIndex' = 0 /\ rIndex' = 0 /\ fErrorCnt' = 0 /\ num' = 0 /\ sent' = 0
      /\ resets' \in 0 .. MaxResets
      /\ nvMark' = nvMark /\ samples' = samples /\ wiped' = wiped /\ faults' = faults
  BY LoggerAssumption DEF Reset, Reboot, TypeInv, TypeOK
<1>2. /\ flash' \in [Slots -> Content] /\ nvW' \in Nat /\ nvR' \in Nat
      /\ stored' \subseteq Content /\ received' \subseteq Content
      /\ mishaps' \subseteq SetSteps \union {"misread", "overrun"}
  <2>1. CASE ResetInSave /\ UNCHANGED <<flash, received>>
    <3>1. CASE pc \in SavesW
      <4>1. UNCHANGED nvR
        BY <2>1, <3>1 DEF ResetInSave, SavesW, SavesR
      <4>2. PICK v \in Interrupted(nvW, wIndex) :
              /\ nvW' = v
              /\ mishaps' \in {mishaps, mishaps \union {pc}}
              /\ stored' \in {stored, stored \union
                     {At(i) : i \in (wIndex - NumRec) .. (wIndex - 1)}}
        BY <2>1, <3>1 DEF ResetInSave, SavesW, SavesR
      <4>3. v \in Nat
        BY <1>0, InterruptedNat
      <4>4. stored' \subseteq Content
        BY <1>0, <4>2, BatchType DEF TypeInv
      <4> QED
        BY <1>0, <2>1, <3>1, <4>1, <4>2, <4>3, <4>4 DEF SavesW, SetSteps
    <3>2. CASE pc \in SavesR
      <4>1. UNCHANGED <<nvW, stored>>
        BY <2>1, <3>2 DEF ResetInSave, SavesW, SavesR
      <4>2. PICK v \in Interrupted(nvR, rIndex) :
              nvR' = v /\ mishaps' \in {mishaps, mishaps \union {pc}}
        BY <2>1, <3>2 DEF ResetInSave, SavesW, SavesR
      <4>3. v \in Nat
        BY <1>0, InterruptedNat
      <4> QED
        BY <1>0, <2>1, <3>2, <4>1, <4>2, <4>3 DEF SavesR, SetSteps
    <3> QED
      BY <2>1, <3>1, <3>2 DEF ResetInSave
  <2>2. CASE ResetInErase /\ UNCHANGED <<nvW, nvR, stored, received>>
    <3>1. flash' \in [Slots -> Content]
      BY <1>0, <2>2, BlankedType DEF ResetInErase
    <3>2. mishaps' \in {mishaps, mishaps \union {"overrun"}}
      BY <2>2 DEF ResetInErase
    <3> QED
      BY <1>0, <2>2, <3>1, <3>2
  <2>3. CASE ResetInWrite /\ UNCHANGED <<nvW, nvR, stored, received, mishaps>>
    <3>1. PICK c \in Disturbed : flash' = Programmed(flash, wIndex, NumRec, c)
      BY <2>3 DEF ResetInWrite
    <3>2. flash' \in [Slots -> Content]
      BY <1>0, <3>1, ProgrammedType, DisturbedType
    <3> QED
      BY <1>0, <2>3, <3>2
  <2>4. CASE /\ received' \in {received, received \union Request}
             /\ UNCHANGED <<nvW, nvR, flash, stored, mishaps>>
    BY <1>0, <2>4, RequestType DEF TypeInv
  <2>5. CASE UNCHANGED <<nvW, nvR, flash, stored, received, mishaps>>
    BY <1>0, <2>5
  <2> QED
    BY <2>1, <2>2, <2>3, <2>4, <2>5 DEF Reset
<1> QED
  BY <1>1, <1>2 DEF TypeInv, TypeOK, Steps, Ages

\* In every state of the logger, for any ring, batch, fault and reset bound,
\* the indices are naturals, every slot holds a record or is blank or torn,
\* and the histories hold nothing else.
THEOREM TypeCorrect == Spec => []TypeOK
<1>1. Init => TypeInv
  BY TypeInit
<1>2. TypeInv /\ [Next]_vars => TypeInv'
  <2> SUFFICES ASSUME TypeInv, [Next]_vars PROVE TypeInv'
    OBVIOUS
  <2>1. CASE Boot
    BY <2>1, TypeBoot
  <2>2. CASE Loop
    BY <2>2, TypeRead, TypeStore, TypeForward, TypeCheck DEF Loop
  <2>3. CASE Reset
    BY <2>3, TypeReset
  <2>4. CASE UNCHANGED vars
    BY <2>4 DEF vars, ram, round, nv, hist, TypeInv, TypeOK
  <2> QED
    BY <2>1, <2>2, <2>3, <2>4 DEF Next
<1>3. TypeInv => TypeOK
  BY DEF TypeInv
<1> QED
  BY <1>1, <1>2, <1>3, PTL DEF Spec

-----------------------------------------------------------------------------
(* The read index never passes the write index *)

OrderInv == TypeInv /\ IndexInv

LEMMA OrderInit == Init => IndexInv
BY DEF Init, IndexInv, Quiet

LEMMA OrderBoot == OrderInv /\ Boot => IndexInv'
<1> SUFFICES ASSUME OrderInv, Boot PROVE IndexInv'
  OBVIOUS
<1> USE DEF OrderInv, TypeInv, TypeOK, IndexInv, Quiet, Steps, SetSteps, HalfSteps,
            ram, round, nv, hist
<1>1. CASE RestoreIndices
  BY <1>1 DEF RestoreIndices
<1>2. CASE InitNvram
  BY <1>2 DEF InitNvram
<1>3. CASE InitSaveW
  BY <1>3 DEF InitSaveW
<1>4. CASE InitSaveR
  BY <1>4 DEF InitSaveR
<1> QED
  BY <1>1, <1>2, <1>3, <1>4 DEF Boot

LEMMA OrderRead == OrderInv /\ (LoopTop \/ NotDue \/ ReadFails \/ ReadOk) => IndexInv'
BY DEF OrderInv, IndexInv, Quiet, Steps, SetSteps, HalfSteps, ram, round, nv, hist,
       LoopTop, NotDue, ReadFails, ReadOk

LEMMA OrderStore == OrderInv /\ Store => IndexInv'
<1> SUFFICES ASSUME OrderInv, Store PROVE IndexInv'
  OBVIOUS
<1> USE DEF OrderInv, TypeInv, TypeOK, IndexInv, Quiet, Steps, SetSteps, HalfSteps,
            ram, round, nv, hist
<1>0. NumRec \in Nat /\ wIndex \in Nat
  BY LoggerAssumption, RingAssumption
<1>1. CASE EraseEntered
  <2>1. /\ pc' = "write" /\ pc \in Quiet
        /\ UNCHANGED <<wIndex, rIndex, nvW, nvR, nvMark, num>>
        /\ mishaps' \in {mishaps, mishaps \union {"overrun"}}
    BY <1>1 DEF EraseEntered
  <2> QED
    BY <2>1
<1>2. CASE WriteOk
  BY <1>0, <1>2 DEF WriteOk
<1>3. CASE SaveW
  BY <1>3 DEF SaveW
<1>4. CASE DropReading
  BY <1>4 DEF DropReading
<1>5. CASE SkipSector
  BY <1>0, <1>5, NextSectorNat DEF SkipSector, MustSkip
<1>6. CASE SkipSaveR
  BY <1>6 DEF SkipSaveR
<1>7. CASE SkipSaveW
  BY <1>7 DEF SkipSaveW
<1> QED
  BY <1>1, <1>2, <1>3, <1>4, <1>5, <1>6, <1>7 DEF Store

LEMMA OrderForward == OrderInv /\ Forward => IndexInv'
<1> SUFFICES ASSUME OrderInv, Forward PROVE IndexInv'
  OBVIOUS
<1> USE DEF OrderInv, TypeInv, TypeOK, IndexInv, Quiet, Steps, SetSteps, HalfSteps,
            ram, round, nv, hist
<1>1. CASE PostBegin
  BY <1>1, RoundSizeType DEF PostBegin
<1>2. CASE PostSkip
  BY <1>2 DEF PostSkip
<1>3. CASE Accept
  BY <1>3 DEF Accept
<1>4. CASE Refuse
  BY <1>4 DEF Refuse
<1>5. CASE SaveR
  BY <1>5 DEF SaveR
<1> QED
  BY <1>1, <1>2, <1>3, <1>4, <1>5 DEF Forward

LEMMA OrderCheck == OrderInv /\ Check => IndexInv'
<1> SUFFICES ASSUME OrderInv, Check PROVE IndexInv'
  OBVIOUS
<1> USE DEF OrderInv, TypeInv, TypeOK, IndexInv, Quiet, Steps, SetSteps, HalfSteps,
            ram, round, nv, hist
<1>1. CASE CheckNothing
  BY <1>1 DEF CheckNothing
<1>2. CASE Restart
  BY <1>2 DEF Restart, Reboot
<1>3. CASE ResetCommand
  BY <1>3 DEF ResetCommand
<1>4. CASE ResetSaveW
  BY <1>4 DEF ResetSaveW
<1>5. CASE ResetSaveR
  BY <1>5 DEF ResetSaveR, Reboot
<1> QED
  BY <1>1, <1>2, <1>3, <1>4, <1>5 DEF Check

\* A reset leaves RAM at zero, so only the saved pair is at stake.
LEMMA OrderReset == OrderInv /\ Reset => IndexInv'
<1> SUFFICES ASSUME OrderInv, Reset PROVE IndexInv'
  OBVIOUS
<1>a. pc' = "boot" /\ wIndex' = 0 /\ rIndex' = 0
  BY DEF Reset, Reboot
<1>b. nvMark' <=> nvMark
  BY Zenon DEF Reset
<1> SUFFICES ASSUME mishaps' \intersect HalfSteps = {}, nvMark
             PROVE  nvR' <= nvW'
  BY <1>a, <1>b DEF IndexInv, Quiet, Steps, SetSteps
<1>0. /\ wIndex \in Nat /\ rIndex \in Nat /\ nvW \in Nat /\ nvR \in Nat
      /\ NumRec \in Nat /\ pc \in Steps
  BY LoggerAssumption, RingAssumption DEF OrderInv, TypeInv, TypeOK
<1>1. mishaps \subseteq mishaps'
  BY DEF Reset, ResetInSave, ResetInErase
<1>2. mishaps \intersect HalfSteps = {}
  BY <1>1
<1>3. CASE UNCHANGED <<nvW, nvR>> /\ pc \notin SetSteps
  BY <1>0, <1>2, <1>3 DEF OrderInv, IndexInv, Quiet
<1>4. CASE pc \in SavesW /\ ResetInSave
  <2>1. nvR' = nvR
    BY <1>4 DEF ResetInSave, SavesW, SavesR
  <2>2. PICK v \in Interrupted(nvW, wIndex) :
          /\ nvW' = v
          /\ mishaps' = IF Harmless(pc, nvW, v, wIndex)
                        THEN mishaps ELSE mishaps \union {pc}
    BY <1>4 DEF ResetInSave, SavesW, SavesR
  <2>3. Harmless(pc, nvW, v, wIndex)
    BY <1>4, <2>2 DEF SavesW, HalfSteps, SetSteps
  <2>4. CASE pc = "setW"
    BY <1>0, <1>2, <2>1, <2>2, <2>3, <2>4 DEF Harmless, OrderInv, IndexInv
  <2>5. CASE pc = "skipW"
    BY <1>0, <1>2, <2>1, <2>2, <2>3, <2>5 DEF Harmless, OrderInv, IndexInv
  <2>6. CASE pc = "resetW"
    BY <1>0, <1>2, <2>1, <2>2, <2>3, <2>6 DEF Harmless, OrderInv, IndexInv
  <2>7. CASE pc = "initW"
    BY <2>3, <2>7 DEF Harmless
  <2> QED
    BY <1>4, <2>4, <2>5, <2>6, <2>7 DEF SavesW
<1>5. CASE pc \in SavesR /\ ResetInSave
  <2>1. nvW' = nvW
    BY <1>5 DEF ResetInSave, SavesW, SavesR
  <2>2. PICK v \in Interrupted(nvR, rIndex) :
          /\ nvR' = v
          /\ mishaps' = IF Harmless(pc, nvR, v, rIndex)
                        THEN mishaps ELSE mishaps \union {pc}
    BY <1>5 DEF ResetInSave, SavesW, SavesR
  <2>3. pc # "setR" => Harmless(pc, nvR, v, rIndex)
    BY <1>5, <2>2 DEF SavesR, HalfSteps, SetSteps
  <2>4. CASE pc = "setR"
    <3>1. nvR <= rIndex /\ nvW = wIndex /\ rIndex <= wIndex
      BY <1>2, <2>4 DEF OrderInv, IndexInv
    <3>2. v \in Nat /\ v <= rIndex
      BY <1>0, <2>2, <3>1, InterruptedNat
    <3> QED
      BY <1>0, <2>1, <2>2, <3>1, <3>2
  <2>5. CASE pc = "skipR"
    BY <1>0, <1>2, <2>1, <2>2, <2>3, <2>5 DEF Harmless, OrderInv, IndexInv
  <2>6. CASE pc = "resetR"
    BY <1>0, <1>2, <2>1, <2>2, <2>3, <2>6 DEF Harmless, OrderInv, IndexInv
  <2>7. CASE pc = "initR"
    BY <1>0, <1>2, <2>1, <2>2, <2>3, <2>7 DEF Harmless, OrderInv, IndexInv
  <2> QED
    BY <1>5, <2>4, <2>5, <2>6, <2>7 DEF SavesR
<1>6. pc = "boot" => UNCHANGED <<nvW, nvR>>
  BY DEF Reset, ResetInSave, ResetInErase, ResetInWrite, SavesW, SavesR
<1>7. CASE pc = "boot"
  BY <1>0, <1>2, <1>6, <1>7 DEF OrderInv, IndexInv
<1>8. CASE pc # "boot" /\ pc \notin SetSteps
  <2>1. UNCHANGED <<nvW, nvR>>
    BY <1>8 DEF Reset, ResetInSave, SavesW, SavesR, SetSteps
  <2> QED
    BY <1>3, <1>8, <2>1
<1>9. CASE pc \in SetSteps
  <2>1. ResetInSave /\ (pc \in SavesW \/ pc \in SavesR)
    BY <1>9 DEF Reset, ResetInErase, ResetInWrite, SetSteps, SavesW, SavesR, Steps
  <2> QED
    BY <1>4, <1>5, <2>1
<1> QED
  BY <1>7, <1>8, <1>9

LEMMA OrderInvariant == Spec => []OrderInv
<1>1. Init => OrderInv
  BY TypeInit, OrderInit DEF OrderInv
<1>2. OrderInv /\ [Next]_vars => OrderInv'
  <2> SUFFICES ASSUME OrderInv, [Next]_vars PROVE OrderInv'
    OBVIOUS
  <2>1. CASE Boot
    BY <2>1, TypeBoot, OrderBoot DEF OrderInv
  <2>2. CASE Loop
    BY <2>2, TypeRead, TypeStore, TypeForward, TypeCheck,
       OrderRead, OrderStore, OrderForward, OrderCheck DEF Loop, OrderInv
  <2>3. CASE Reset
    BY <2>3, TypeReset, OrderReset DEF OrderInv
  <2>4. CASE UNCHANGED vars
    BY <2>4 DEF vars, ram, round, nv, hist, OrderInv, TypeInv, TypeOK, IndexInv
  <2> QED
    BY <2>1, <2>2, <2>3, <2>4 DEF Next
<1> QED
  BY <1>1, <1>2, PTL DEF Spec

\* Whatever faults, planned restarts and resets occur, main.cpp's read index
\* stays at or below its write index, in RAM and after a restart, unless a
\* reset has hit one of the index saves named by HalfSteps.
THEOREM ReadIndexBehind == Spec => []IndexOrder
<1>1. OrderInv => IndexOrder
  BY DEF OrderInv, IndexInv, IndexOrder
<1> QED
  BY <1>1, OrderInvariant, PTL

-----------------------------------------------------------------------------
(* The ring overwrites unacknowledged records only when it is full *)
\* Multiples of m that differ, differ by m at least.
LEMMA MultiplesApart ==
  ASSUME NEW m \in Nat \ {0}, NEW p \in Int, NEW q \in Int
  PROVE  /\ m * p \in Int /\ m * q \in Int
         /\ p < q => m * p + m <= m * q
         /\ p = q => m * p = m * q
<1>1. m * p \in Int /\ m * q \in Int
  OBVIOUS
<1>2. ASSUME p < q PROVE m * p + m <= m * q
  <2>1. PICK d \in Nat : q = p + 1 + d
    <3>1. q - p - 1 \in Nat /\ q = p + 1 + (q - p - 1)
      BY <1>2
    <3> QED
      BY <3>1
  <2>2. m * q = m * p + m + m * d /\ m * d \in Nat
    BY <2>1
  <2> QED
    BY <1>1, <2>2
<1> QED
  BY <1>1, <1>2

\* The slot of an index that opens a sector opens a sector of the ring.
LEMMA SlotAligned ==
  ASSUME NEW j \in Nat, j % SectorRecs = 0
  PROVE  \E d \in Int : Slot(j) = SectorRecs * d
<1>1. SectorRecs \in Nat \ {0} /\ Sectors \in Nat \ {0} /\ MaxRecord \in Nat \ {0}
      /\ MaxRecord = SectorRecs * Sectors
  BY RingAssumption, RingSize DEF MaxRecord
<1>2. PICK p \in Nat : j = SectorRecs * p
  <2>1. j = SectorRecs * (j \div SectorRecs) + (j % SectorRecs) /\ j \div SectorRecs \in Nat
    BY <1>1, DivMod
  <2> DEFINE p == j \div SectorRecs
  <2>2. p \in Nat /\ j = SectorRecs * p + 0
    BY <2>1
  <2> HIDE DEF p
  <2>3. j = SectorRecs * p
    BY <1>1, <2>2
  <2> QED
    BY <2>2, <2>3
<1>3. PICK q \in Nat : j = MaxRecord * q + Slot(j)
  BY SlotTurns
<1>4. PICK r \in Nat : r = Sectors * q
  BY <1>1
<1>5. MaxRecord * q = SectorRecs * r
  BY <1>1, <1>4
<1>6. Slot(j) \in Int
  BY SlotInRing, RingSize
<1>7. Slot(j) = SectorRecs * p - SectorRecs * r
  <2>1. SectorRecs * p \in Int /\ SectorRecs * r \in Int
    BY <1>1
  <2> QED
    BY <1>2, <1>3, <1>5, <1>6, <2>1
<1>8. SectorRecs * p - SectorRecs * r = SectorRecs * (p - r)
  BY <1>1
<1> QED
  BY <1>7, <1>8

\* Two indices whose slots share a sector, the later one at the start of it,
\* are at least a ring less a sector apart.
LEMMA SectorDistance ==
  ASSUME NEW i \in Nat, NEW j \in Nat, i < j, j % SectorRecs = 0,
         Slot(i) \in SectorSlots(Slot(j))
  PROVE  j - i > MaxRecord - SectorRecs
<1>1. SectorRecs \in Nat \ {0} /\ MaxRecord \in Nat \ {0}
  BY RingAssumption, RingSize
<1>2. Slot(i) \in 0 .. MaxRecord - 1 /\ Slot(j) \in 0 .. MaxRecord - 1
  BY SlotInRing, RingSize
<1>3. PICK d \in Int : Slot(j) = SectorRecs * d
  BY SlotAligned
<1>4. PICK e \in Nat, t \in 0 .. SectorRecs - 1 :
         e = Slot(i) \div SectorRecs /\ Slot(i) = SectorRecs * e + t
  <2>1. Slot(i) \in Nat /\ SectorRecs \in Nat \ {0}
    BY <1>1, <1>2
  <2>2. \E q \in Nat, v \in 0 .. SectorRecs - 1 :
          /\ q = Slot(i) \div SectorRecs /\ v = Slot(i) % SectorRecs
          /\ Slot(i) = SectorRecs * q + v
    BY <2>1, DivModParts, Zenon
  <2> QED
    BY <2>2, Zenon
<1>5. PICK f \in Nat, u \in 0 .. SectorRecs - 1 :
         f = Slot(j) \div SectorRecs /\ Slot(j) = SectorRecs * f + u
  <2>1. Slot(j) \in Nat /\ SectorRecs \in Nat \ {0}
    BY <1>1, <1>2
  <2>2. \E q \in Nat, v \in 0 .. SectorRecs - 1 :
          /\ q = Slot(j) \div SectorRecs /\ v = Slot(j) % SectorRecs
          /\ Slot(j) = SectorRecs * q + v
    BY <2>1, DivModParts, Zenon
  <2> QED
    BY <2>2, Zenon
<1>6. e = f
  BY <1>4, <1>5 DEF SectorSlots
<1>7. SectorRecs * d = SectorRecs * e + u
  BY <1>3, <1>5, <1>6
<1>8. u = 0 /\ Slot(j) = SectorRecs * e
  <2>1. CASE d < e
    BY <1>1, <1>7, <2>1, MultiplesApart
  <2>2. CASE d > e
    BY <1>1, <1>7, <2>2, MultiplesApart
  <2>3. CASE d = e
    <3>1. SectorRecs * d \in Int
      BY <1>1
    <3> QED
      BY <1>3, <1>7, <2>3, <3>1
  <2> QED
    BY <2>1, <2>2, <2>3
<1>9. Slot(i) = Slot(j) + t
  BY <1>4, <1>8
<1>10. PICK p \in Nat : i = MaxRecord * p + Slot(i)
  BY SlotTurns
<1>11. PICK q \in Nat : j = MaxRecord * q + Slot(j)
  BY SlotTurns
<1>12. MaxRecord * p \in Int /\ MaxRecord * q \in Int
  BY <1>1
<1>13. MaxRecord * p < MaxRecord * q
  BY <1>2, <1>9, <1>10, <1>11, <1>12
<1>14. p < q
  BY <1>1, <1>12, <1>13, MultiplesApart
<1>15. MaxRecord * p + MaxRecord <= MaxRecord * q
  BY <1>1, <1>14, MultiplesApart
<1> QED
  BY <1>1, <1>2, <1>9, <1>10, <1>11, <1>12, <1>15

LEMMA OverrunNeedsBacklog ==
  ASSUME TypeOK, Overruns
  PROVE  wIndex + NumRec - rIndex > MaxRecord - SectorRecs
<1>1. wIndex \in Nat /\ rIndex \in Nat /\ NumRec \in Nat
      /\ MaxRecord \in Nat /\ SectorRecs \in Nat
  BY LoggerAssumption, RingAssumption, RingSize DEF TypeOK
<1>2. PICK i \in rIndex .. (wIndex - 1) : Slot(i) \in ErasedBy(wIndex, NumRec)
  BY DEF Overruns
<1>3. PICK j \in Entered(wIndex, NumRec) : Slot(i) \in SectorSlots(Slot(j))
  BY <1>2 DEF ErasedBy
<1>4. j \in wIndex .. (wIndex + NumRec - 1) /\ j % SectorRecs = 0
  BY <1>3 DEF Entered
<1>5. i \in Nat /\ j \in Nat /\ i < j
  BY <1>1, <1>2, <1>4
<1>6. j - i > MaxRecord - SectorRecs
  BY <1>3, <1>4, <1>5, SectorDistance
<1> QED
  BY <1>1, <1>2, <1>4, <1>5, <1>6

\* writeMeterData erases a sector with unacknowledged records only when the
\* backlog and the batch exceed the ring less one sector.
THEOREM OverrunNeedsFullRing == Spec => OverrunOnlyWhenFull
<1> DEFINE A == "overrun" \in mishaps' \ mishaps =>
                  wIndex + NumRec - rIndex > MaxRecord - SectorRecs
<1>1. TypeOK /\ [Next]_vars => A
  <2> SUFFICES ASSUME TypeOK, [Next]_vars, "overrun" \in mishaps' \ mishaps PROVE Overruns
    BY OverrunNeedsBacklog
  <2>1. CASE Boot
    BY <2>1 DEF Boot, RestoreIndices, InitNvram, InitSaveW, InitSaveR, hist
  <2>2. CASE LoopTop \/ NotDue \/ ReadFails \/ ReadOk \/ Forward
    BY <2>2 DEF LoopTop, NotDue, ReadFails, ReadOk, Forward, PostBegin, PostSkip,
                Accept, Refuse, SaveR, hist
  <2>3. CASE Store
    BY <2>3 DEF Store, EraseEntered, WriteOk, SaveW, DropReading, SkipSector,
                SkipSaveR, SkipSaveW, hist
  <2>4. CASE Check
    BY <2>4 DEF Check, CheckNothing, Restart, ResetCommand, ResetSaveW, ResetSaveR, hist
  <2>5. CASE Reset
    BY <2>5 DEF Reset, ResetInSave, ResetInErase, ResetInWrite, SavesW, SavesR
  <2>6. CASE UNCHANGED vars
    BY <2>6 DEF vars, hist
  <2> QED
    BY <2>1, <2>2, <2>3, <2>4, <2>5, <2>6 DEF Next, Loop
<1>2. Spec => [][A]_vars
  <2>1. TypeOK /\ [Next]_vars => [A]_vars
    BY <1>1
  <2> QED
    BY <2>1, TypeCorrect, PTL DEF Spec
<1> QED
  BY <1>2 DEF OverrunOnlyWhenFull

-----------------------------------------------------------------------------
(***************************************************************************)
(* The content of the ring: what is stored stays until the server has it,  *)
(* what is posted was stored, and without faults every batch meets blank   *)
(* flash.  The order of the indices, proved above, tells which slots the   *)
(* saved window covers at each step.                                       *)
(***************************************************************************)

(* Slots of a batch *)

LEMMA BatchBounds ==
  /\ SectorRecs \in Nat \ {0} /\ MaxRecord \in Nat \ {0} /\ SectorRecs <= MaxRecord
  /\ NumRec \in Nat \ {0} /\ NumRec <= SectorRecs
<1>1. SectorRecs \in Nat \ {0} /\ Sectors \in Nat \ {0} /\ MaxRecord \in Nat \ {0}
  BY RingAssumption, RingSize
<1>2. SectorRecs <= SectorRecs * Sectors
  <2>1. SectorRecs * Sectors = SectorRecs + SectorRecs * (Sectors - 1)
        /\ SectorRecs * (Sectors - 1) \in Nat
    BY <1>1
  <2> QED BY <1>1, <2>1
<1> QED
  BY <1>1, <1>2, LoggerAssumption DEF MaxRecord

\* The slot k places after that of w, for k less than a turn.
LEMMA SlotAhead ==
  ASSUME NEW w \in Nat, NEW k \in 0 .. MaxRecord - 1
  PROVE  Slot(w + k) = IF Slot(w) + k < MaxRecord THEN Slot(w) + k
                       ELSE Slot(w) + k - MaxRecord
<1>1. MaxRecord \in Nat \ {0} /\ k \in Nat /\ w + k \in Nat
  BY RingSize
<1>2. Slot(w) \in 0 .. MaxRecord - 1 /\ Slot(w + k) \in 0 .. MaxRecord - 1
  BY <1>1, SlotInRing, RingSize
<1>3. PICK p \in Nat : w = MaxRecord * p + Slot(w)
  BY SlotTurns
<1>4. PICK q \in Nat : w + k = MaxRecord * q + Slot(w + k)
  BY <1>1, SlotTurns
<1>5. /\ MaxRecord * p \in Int /\ MaxRecord * q \in Int
      /\ MaxRecord * (p + 1) = MaxRecord * p + MaxRecord
  BY <1>1
<1>6. MaxRecord * p + Slot(w) + k = MaxRecord * q + Slot(w + k)
  BY <1>3, <1>4
<1>7. CASE q < p
  <2>1. MaxRecord * q + MaxRecord <= MaxRecord * p
    BY <1>1, <1>7, MultiplesApart
  <2> QED BY <1>1, <1>2, <1>5, <1>6, <2>1
<1>8. CASE q = p
  BY <1>1, <1>2, <1>5, <1>6, <1>8
<1>9. CASE q = p + 1
  BY <1>1, <1>2, <1>5, <1>6, <1>9
<1>10. CASE q > p + 1
  <2>1. MaxRecord * (p + 1) + MaxRecord <= MaxRecord * q
    BY <1>1, <1>10, MultiplesApart
  <2> QED BY <1>1, <1>2, <1>5, <1>6, <2>1
<1> QED
  BY <1>7, <1>8, <1>9, <1>10

\* The place in a batch at w of the slot of index w + k is k.
LEMMA OffsetOfSlot ==
  ASSUME NEW w \in Nat, NEW k \in 0 .. MaxRecord - 1
  PROVE  Slot(w + k) \in Slots /\ Offset(w, Slot(w + k)) = k
<1>1. MaxRecord \in Nat \ {0} /\ Slot(w) \in 0 .. MaxRecord - 1
  BY RingSize, SlotInRing
<1>2. Slot(w + k) \in Slots
  BY <1>1, SlotInRing
<1>3. Slot(w + k) = IF Slot(w) + k < MaxRecord THEN Slot(w) + k
                    ELSE Slot(w) + k - MaxRecord
  BY SlotAhead
<1>4. Offset(w, Slot(w + k)) = k
  BY <1>1, <1>3 DEF Offset
<1> QED
  BY <1>2, <1>4

\* The slots of a batch are those of its indices.
LEMMA PartsOfBatch ==
  ASSUME NEW w \in Nat, NEW n \in 0 .. MaxRecord, NEW k \in 0 .. n - 1
  PROVE  Slot(w + k) \in HeadPart(w, n) \union TailPart(w, n)
<1>1. MaxRecord \in Nat \ {0} /\ Slot(w) \in 0 .. MaxRecord - 1
  BY RingSize, SlotInRing
<1>2. k \in 0 .. MaxRecord - 1
  BY <1>1
<1>3. Slot(w + k) \in Slots /\ Offset(w, Slot(w + k)) = k
  BY <1>2, OffsetOfSlot
<1>4. Slot(w + k) \in Int /\ k < n
  BY <1>1, <1>3, RingSize
<1> QED
  BY <1>1, <1>3, <1>4 DEF HeadPart, TailPart

LEMMA SlotOfPart ==
  ASSUME NEW w \in Nat, NEW n \in 0 .. MaxRecord,
         NEW s \in HeadPart(w, n) \union TailPart(w, n)
  PROVE  \E k \in 0 .. n - 1 : s = Slot(w + k)
<1>1. MaxRecord \in Nat \ {0} /\ Slot(w) \in 0 .. MaxRecord - 1
  BY RingSize, SlotInRing
<1>2. s \in 0 .. MaxRecord - 1 /\ Offset(w, s) < n
  BY RingSize DEF HeadPart, TailPart
<1>3. Offset(w, s) \in 0 .. n - 1 /\ Offset(w, s) \in 0 .. MaxRecord - 1
  BY <1>1, <1>2 DEF Offset
<1>4. Slot(w + Offset(w, s)) = s
  <2>1. Slot(w + Offset(w, s)) = IF Slot(w) + Offset(w, s) < MaxRecord
                                 THEN Slot(w) + Offset(w, s)
                                 ELSE Slot(w) + Offset(w, s) - MaxRecord
    BY <1>3, SlotAhead
  <2> QED BY <1>1, <1>2, <2>1 DEF Offset
<1> QED
  BY <1>3, <1>4

\* The driver programs blank slots only: what is not blank stays.
LEMMA ProgrammedKeeps ==
  ASSUME NEW f \in [Slots -> Content], NEW w \in Nat, NEW c,
         NEW s \in Slots, f[s] # Erased
  PROVE  Programmed(f, w, NumRec, c)[s] = f[s]
<1>1. s \notin Programmable(f, w, NumRec)
  BY DEF Programmable, Blank
<1> QED
  BY <1>1 DEF Programmed

\* A batch that is accepted is in its slots.
LEMMA ProgrammedBatch ==
  ASSUME NEW f \in [Slots -> Content], NEW w \in Nat, NEW c,
         Accepted(f, w, NumRec), NEW k \in 0 .. NumRec - 1
  PROVE  Programmed(f, w, NumRec, c)[Slot(w + k)] = c[k]
<1>1. NumRec \in 0 .. MaxRecord /\ k \in 0 .. MaxRecord - 1
  BY BatchBounds
<1>2. Slot(w + k) \in Slots /\ Offset(w, Slot(w + k)) = k
  BY <1>1, OffsetOfSlot
<1>3. Slot(w + k) \in HeadPart(w, NumRec) \union TailPart(w, NumRec)
  BY <1>1, PartsOfBatch
<1>4. Slot(w + k) \in Programmable(f, w, NumRec)
  BY <1>3 DEF Programmable, Accepted
<1> QED
  BY <1>2, <1>4 DEF Programmed

-----------------------------------------------------------------------------
(* The inductive invariants *)

\* Only whole records are stored: when the write index is about to be saved the
\* slots below it hold the reading.  A round under way has a record left, and
\* a batch goes in one request.  A sector is skipped with an empty window.
StoredInv ==
  /\ stored \subseteq Record
  /\ pc = "setW" =>
       samples >= 1 /\ \A k \in 0 .. NumRec - 1 : At(wIndex - NumRec + k) = <<samples, k>>
  /\ pc = "send" => sent < num /\ (Batch # 0 => sent = 0 /\ num <= Batch)
  /\ pc = "skipR" => nvR = nvW /\ nvW <= rIndex
  /\ pc = "skipW" => nvW <= nvR
  /\ pc # "boot" => nvMark

Covered == stored \subseteq received \union wiped \union Pending

\* Durable, and what the steps between two saves owe it: the saved window is
\* given up only when it is empty or the server has what leaves it.
DurableInv ==
  mishaps \subseteq {"setR"} =>
    /\ Covered
    /\ pc \in {"skipR", "skipW", "resetR"} => stored \subseteq received \union wiped
    /\ ~nvMark \/ pc \in {"initW", "initR"} => stored = {}
    /\ pc = "setR" => \A i \in nvR .. rIndex - 1 : At(i) \in received
    /\ pc = "send" => \A i \in rIndex .. rIndex + sent - 1 : At(i) \in received

WindowStored == \A i \in nvR .. nvW - 1 : At(i) \in stored

\* PostedGenuine, because the saved window holds stored records only.
GenuineInv ==
  mishaps = {} =>
    /\ received \subseteq stored
    /\ nvMark /\ pc \notin {"initW", "initR"} => WindowStored

RingInv == StoredInv /\ DurableInv /\ GenuineInv

\* A step that leaves the records of the saved window where they are.
WindowKept == \A i \in nvR .. nvW - 1 : At(i) \in Record => flash'[Slot(i)] = At(i)

LEMMA EraseKeeps ==
  ASSUME OrderInv, pc = "erase", ~Overruns, NEW c,
         flash' = [s \in Slots |-> IF s \in ErasedBy(wIndex, NumRec) THEN c ELSE flash[s]]
  PROVE  WindowKept
<1>1. nvR = rIndex /\ nvW = wIndex /\ rIndex \in Nat /\ wIndex \in Nat
  BY DEF OrderInv, TypeInv, TypeOK, IndexInv, Quiet, Steps, SetSteps
<1> SUFFICES ASSUME NEW i \in rIndex .. wIndex - 1 PROVE flash'[Slot(i)] = At(i)
  BY <1>1 DEF WindowKept
<1>2. Slot(i) \in Slots /\ Slot(i) \notin ErasedBy(wIndex, NumRec)
  BY <1>1, SlotInRing DEF Overruns
<1> QED BY <1>2 DEF At

LEMMA ProgramKeeps ==
  ASSUME OrderInv, NEW c, flash' = Programmed(flash, wIndex, NumRec, c)
  PROVE  WindowKept
<1>1. nvR \in Nat /\ nvW \in Nat /\ wIndex \in Nat /\ flash \in [Slots -> Content]
  BY DEF OrderInv, TypeInv, TypeOK
<1> SUFFICES ASSUME NEW i \in nvR .. nvW - 1, At(i) \in Record
             PROVE  flash'[Slot(i)] = flash[Slot(i)]
  BY DEF WindowKept, At
<1>2. Slot(i) \in Slots
  BY <1>1, SlotInRing
<1>3. flash[Slot(i)] # Erased
  BY BlankAssumption DEF At
<1> QED BY <1>1, <1>2, <1>3, ProgrammedKeeps

LEMMA KeptCovers ==
  ASSUME WindowKept, stored \subseteq Record,
         UNCHANGED <<nvW, nvR, stored, received, wiped>>
  PROVE  (Covered => Covered') /\ (WindowStored => WindowStored')
<1>1. ASSUME Covered PROVE Covered'
  <2> SUFFICES ASSUME NEW r \in stored, r \notin received \union wiped
               PROVE  r \in Pending'
    BY DEF Covered
  <2>1. PICK i \in nvR .. nvW - 1 : At(i) = r
    BY <1>1 DEF Covered, Pending
  <2>2. flash'[Slot(i)] = r
    BY <2>1 DEF WindowKept
  <2> QED BY <2>1, <2>2 DEF Pending, At
<1>2. ASSUME WindowStored PROVE WindowStored'
  BY <1>2 DEF WindowStored, WindowKept, At
<1> QED BY <1>1, <1>2

\* A step that moves the program counter only, as far as the ring is concerned.
LEMMA RingPlain ==
  ASSUME RingInv,
         UNCHANGED <<nvMark, nvW, nvR, flash, stored, received, wiped, mishaps>>,
         pc \notin {"initW", "initR"},
         pc' \notin {"setW", "send", "setR", "skipR", "skipW", "resetR", "initW", "initR"},
         pc' # "boot" => nvMark
  PROVE  RingInv'
<1>1. StoredInv'
  BY DEF RingInv, StoredInv
<1>2. DurableInv'
  BY DEF RingInv, DurableInv, Covered, Pending, At
<1>3. GenuineInv'
  BY DEF RingInv, GenuineInv, WindowStored, At
<1> QED BY <1>1, <1>2, <1>3 DEF RingInv

LEMMA RingInit == Init => RingInv
  BY DEF Init, RingInv, StoredInv, DurableInv, Covered, GenuineInv

LEMMA RingBoot == OrderInv /\ RingInv /\ Boot => RingInv'
<1> SUFFICES ASSUME OrderInv, RingInv, Boot PROVE RingInv'
  OBVIOUS
<1>1. CASE RestoreIndices
  BY <1>1, RingPlain DEF RestoreIndices, nv, hist
<1>2. CASE InitNvram
  <2>1. StoredInv'
    BY <1>2 DEF InitNvram, RingInv, StoredInv
  <2>2. DurableInv'
    <3>1. CASE nvMark
      BY <1>2, <3>1 DEF InitNvram, DurableInv
    <3>2. CASE ~nvMark
      BY <1>2, <3>2 DEF InitNvram, RingInv, DurableInv, Covered
    <3> QED BY <3>1, <3>2
  <2>3. GenuineInv'
    BY <1>2 DEF InitNvram, RingInv, GenuineInv
  <2> QED BY <2>1, <2>2, <2>3 DEF RingInv
<1>3. CASE InitSaveW
  BY <1>3 DEF InitSaveW, RingInv, StoredInv, DurableInv, Covered, GenuineInv, hist
<1>4. CASE InitSaveR
  <2>1. nvW = 0 /\ nvR' = 0 /\ nvW' = 0 /\ UNCHANGED nvMark /\ nvMark
    BY <1>4 DEF InitSaveR, OrderInv, IndexInv, RingInv, StoredInv
  <2>2. WindowStored'
    BY <2>1 DEF WindowStored
  <2> QED
    BY <1>4, <2>1, <2>2
    DEF InitSaveR, RingInv, StoredInv, DurableInv, Covered, GenuineInv, hist
<1> QED BY <1>1, <1>2, <1>3, <1>4 DEF Boot

LEMMA RingRead == RingInv /\ (LoopTop \/ NotDue \/ ReadFails) => RingInv'
  BY RingPlain DEF LoopTop, NotDue, ReadFails, nv, hist, RingInv, StoredInv

LEMMA RingReadOk == RingInv /\ ReadOk => RingInv'
  BY RingPlain DEF ReadOk, nv, hist, RingInv, StoredInv

\* A flash operation that keeps the window and changes no index that is saved.
LEMMA RingFlash ==
  ASSUME OrderInv, RingInv, pc \in {"erase", "write"},
         mishaps' = {} \/ mishaps' \subseteq {"setR"} => WindowKept,
         mishaps \subseteq mishaps',
         UNCHANGED <<nvMark, nvW, nvR, stored, received, wiped>>,
         pc' \in {"write", "post", "boot"}
  PROVE  RingInv'
<1>1. StoredInv'
  BY DEF RingInv, StoredInv
<1>2. mishaps' \subseteq {"setR"} => WindowKept /\ mishaps \subseteq {"setR"}
  OBVIOUS
<1>3. nvMark
  BY DEF RingInv, StoredInv
<1>4. DurableInv'
  BY <1>2, <1>3, KeptCovers DEF RingInv, StoredInv, DurableInv
<1>5. mishaps' = {} => mishaps = {} /\ mishaps' \subseteq {"setR"}
  OBVIOUS
<1>6. GenuineInv'
  BY <1>2, <1>3, <1>5, KeptCovers DEF RingInv, StoredInv, GenuineInv
<1> QED BY <1>1, <1>4, <1>6 DEF RingInv

LEMMA WriteFailsKeeps == ASSUME OrderInv, WriteFails PROVE WindowKept
  BY ProgramKeeps DEF WriteFails

\* The batch whose index is saved joins the window and the stored records.
LEMMA RingSaved ==
  ASSUME OrderInv, RingInv, pc = "setW",
         nvW' = wIndex,
         stored' = stored \union {At(i) : i \in (wIndex - NumRec) .. (wIndex - 1)},
         UNCHANGED <<nvMark, nvR, flash, received, wiped, mishaps>>,
         pc' \in {"post", "boot"}
  PROVE  RingInv'
<1>1. /\ wIndex \in Nat /\ nvR \in Nat /\ nvW \in Nat /\ NumRec \in Nat \ {0}
      /\ samples \in 1 .. MaxSamples
  BY BatchBounds DEF OrderInv, TypeInv, TypeOK, RingInv, StoredInv
<1>2. \A i \in (wIndex - NumRec) .. (wIndex - 1) : At(i) \in Record
  <2> SUFFICES ASSUME NEW i \in (wIndex - NumRec) .. (wIndex - 1) PROVE At(i) \in Record
    OBVIOUS
  <2>1. i - (wIndex - NumRec) \in 0 .. NumRec - 1
        /\ i = wIndex - NumRec + (i - (wIndex - NumRec))
    BY <1>1
  <2>2. At(i) = <<samples, i - (wIndex - NumRec)>>
    BY <2>1 DEF RingInv, StoredInv
  <2> QED BY <1>1, <2>1, <2>2 DEF Record
<1>3. StoredInv'
  BY <1>2 DEF RingInv, StoredInv
<1>4. ASSUME mishaps \subseteq {"setR"} PROVE nvR <= nvW /\ wIndex = nvW + NumRec
  <2>1. mishaps \intersect HalfSteps = {}
    BY <1>4 DEF HalfSteps
  <2> QED BY <2>1 DEF OrderInv, IndexInv
<1>5. ASSUME mishaps \subseteq {"setR"}
      PROVE  nvR .. nvW' - 1 = (nvR .. nvW - 1) \union ((wIndex - NumRec) .. (wIndex - 1))
  BY <1>1, <1>4, <1>5
<1>6. nvMark
  BY DEF RingInv, StoredInv
<1>7. DurableInv'
  <2> SUFFICES ASSUME mishaps \subseteq {"setR"} PROVE Covered'
    BY <1>6 DEF DurableInv
  <2>1. Pending' = Pending \union {At(i) : i \in (wIndex - NumRec) .. (wIndex - 1)}
    BY <1>5 DEF Pending, At
  <2> QED BY <2>1 DEF RingInv, DurableInv, Covered
<1>8. GenuineInv'
  <2> SUFFICES ASSUME mishaps = {} PROVE received \subseteq stored' /\ WindowStored'
    BY DEF GenuineInv
  <2>1. received \subseteq stored /\ WindowStored
    BY <1>6 DEF RingInv, GenuineInv
  <2> QED BY <1>5, <2>1 DEF WindowStored, At
<1> QED BY <1>3, <1>7, <1>8 DEF RingInv

LEMMA RingStore == OrderInv /\ RingInv /\ Store => RingInv'
<1> SUFFICES ASSUME OrderInv, RingInv, Store PROVE RingInv'
  OBVIOUS
<1>0. wIndex \in Nat /\ rIndex \in Nat /\ NumRec \in Nat \ {0} /\ flash \in [Slots -> Content]
  BY BatchBounds DEF OrderInv, TypeInv, TypeOK
<1>1. CASE EraseEntered
  <2>1. mishaps' \subseteq {"setR"} => WindowKept
    <3>1. CASE UNCHANGED flash
      BY <3>1 DEF WindowKept, At
    <3>2. CASE /\ flash' = Blanked(flash, ErasedBy(wIndex, NumRec))
               /\ mishaps' = IF Overruns THEN mishaps \union {"overrun"} ELSE mishaps
      <4>1. mishaps' \subseteq {"setR"} => ~Overruns
        BY <3>2
      <4> QED BY <1>1, <3>2, <4>1, EraseKeeps DEF EraseEntered, Blanked
    <3> QED BY <1>1, <3>1, <3>2 DEF EraseEntered
  <2> QED BY <1>1, <2>1, RingFlash DEF EraseEntered, nv
<1>2. CASE WriteOk
  <2>1. UNCHANGED <<nvMark, nvW, nvR, stored, received, wiped, mishaps>>
        /\ pc = "write" /\ pc' = "setW" /\ nvMark
    BY <1>2 DEF WriteOk, nv, hist, RingInv, StoredInv
  <2>2. WindowKept
    BY <1>2, ProgramKeeps DEF WriteOk
  <2>3. StoredInv'
    <3>1. samples' >= 1
      BY <1>2 DEF WriteOk, OrderInv, TypeInv
    <3>2. ASSUME NEW k \in 0 .. NumRec - 1
          PROVE  At(wIndex - NumRec + k)' = <<samples', k>>
      <4>1. wIndex' - NumRec + k = wIndex + k
        BY <1>0, <1>2 DEF WriteOk
      <4>2. flash'[Slot(wIndex + k)] = Reading[k]
        BY <1>0, <1>2, ProgrammedBatch DEF WriteOk
      <4> QED BY <1>2, <4>1, <4>2 DEF WriteOk, Reading, At
    <3> QED BY <2>1, <3>1, <3>2 DEF RingInv, StoredInv
  <2>4. DurableInv'
    BY <2>1, <2>2, KeptCovers DEF RingInv, StoredInv, DurableInv
  <2>5. GenuineInv'
    BY <2>1, <2>2, KeptCovers DEF RingInv, StoredInv, GenuineInv
  <2> QED BY <2>3, <2>4, <2>5 DEF RingInv
<1>3. CASE SaveW
  BY <1>3, RingSaved DEF SaveW
<1>4. CASE DropReading
  BY <1>4, WriteFailsKeeps, RingFlash DEF DropReading, nv, hist
<1>5. CASE SkipSector
  <2>1. UNCHANGED <<nvMark, nvW, nvR, stored, received, wiped, mishaps>>
        /\ pc = "write" /\ pc' = "skipR" /\ nvMark
    BY <1>5 DEF SkipSector, nv, hist, RingInv, StoredInv
  <2>2. WindowKept
    BY <1>5, WriteFailsKeeps DEF SkipSector
  <2>3. nvR = nvW /\ nvW = wIndex /\ nvW \in Nat
    BY <1>5 DEF SkipSector, MustSkip, OrderInv, TypeInv, TypeOK, IndexInv,
                Quiet, Steps, SetSteps
  <2>7. StoredInv'
    <3>1. rIndex' \in Nat /\ rIndex' > wIndex
      BY <1>0, <1>5, NextSectorNat DEF SkipSector
    <3> QED BY <2>1, <2>3, <3>1 DEF RingInv, StoredInv
  <2>4. Pending = {}
    BY <2>3 DEF Pending
  <2>5. DurableInv'
    BY <2>1, <2>2, <2>4, KeptCovers DEF RingInv, StoredInv, DurableInv, Covered
  <2>6. GenuineInv'
    BY <2>1, <2>2, KeptCovers DEF RingInv, StoredInv, GenuineInv
  <2> QED BY <2>7, <2>5, <2>6 DEF RingInv
<1>6. CASE SkipSaveR \/ SkipSaveW
  <2>1. /\ UNCHANGED <<nvMark, flash, stored, received, wiped, mishaps>> /\ nvMark
        /\ pc \in {"skipR", "skipW"} /\ pc' \in {"skipW", "post"}
    BY <1>6 DEF SkipSaveR, SkipSaveW, hist, RingInv, StoredInv
  <2>2. StoredInv'
    BY <1>6, <2>1 DEF SkipSaveR, SkipSaveW, RingInv, StoredInv
  <2>3. DurableInv'
    BY <2>1 DEF RingInv, DurableInv, Covered
  <2>4. mishaps = {} => nvW' <= nvR' /\ nvW' \in Int /\ nvR' \in Int
    <3>1. mishaps = {} => mishaps \intersect HalfSteps = {}
      OBVIOUS
    <3>2. CASE SkipSaveW
      BY <1>0, <3>2 DEF SkipSaveW, OrderInv, IndexInv
    <3>3. CASE SkipSaveR
      BY <1>0, <3>3 DEF SkipSaveR, OrderInv, TypeInv, TypeOK, RingInv, StoredInv
    <3> QED BY <1>6, <3>2, <3>3
  <2>5. GenuineInv'
    BY <2>1, <2>4 DEF RingInv, GenuineInv, WindowStored
  <2> QED BY <2>2, <2>3, <2>5 DEF RingInv
<1> QED BY <1>1, <1>2, <1>3, <1>4, <1>5, <1>6 DEF Store

-----------------------------------------------------------------------------
(* Posting *)

\* A request takes its records from the saved window.
LEMMA RequestStored ==
  ASSUME OrderInv, RingInv, pc = "send", mishaps = {}
  PROVE  Request \subseteq stored
<1>1. /\ nvW = wIndex /\ nvR = rIndex /\ num <= wIndex - rIndex
      /\ wIndex \in Nat /\ rIndex \in Nat /\ num \in Nat /\ sent \in Nat
  BY DEF OrderInv, TypeInv, TypeOK, IndexInv, Quiet, Steps, SetSteps
<1>2. WindowStored /\ sent < num
  BY DEF RingInv, StoredInv, GenuineInv
<1>3. rIndex + sent \in nvR .. nvW - 1 /\ rIndex .. (rIndex + num - 1) \subseteq nvR .. nvW - 1
  BY <1>1, <1>2
<1> QED BY <1>2, <1>3 DEF Request, WindowStored

\* What the server has taken in after the request is answered with 200.
LEMMA RequestTaken ==
  ASSUME OrderInv, RingInv, pc = "send", mishaps \subseteq {"setR"}
  PROVE  \A i \in rIndex .. rIndex + SentAfter - 1 : At(i) \in received \union Request
<1>1. rIndex \in Nat /\ sent \in Nat /\ num \in Nat
  BY DEF OrderInv, TypeInv, TypeOK
<1>2. \A i \in rIndex .. rIndex + sent - 1 : At(i) \in received
  BY DEF RingInv, DurableInv
<1>3. CASE Batch = 0
  <2>1. SentAfter = sent + 1 /\ Request = {At(rIndex + sent)}
    BY <1>3 DEF SentAfter, Request
  <2>2. rIndex .. rIndex + SentAfter - 1 = (rIndex .. rIndex + sent - 1) \union {rIndex + sent}
    BY <1>1, <2>1
  <2> QED BY <1>2, <2>1, <2>2
<1>4. CASE Batch # 0
  BY <1>4 DEF SentAfter, Request
<1> QED BY <1>3, <1>4

\* A request that reaches the server and is not the last of an acknowledged round.
LEMMA RingTaken ==
  ASSUME OrderInv, RingInv, pc = "send",
         received' \in {received, received \union Request},
         UNCHANGED <<nvMark, nvW, nvR, flash, stored, wiped, mishaps>>,
         pc' \in {"check", "boot"}
  PROVE  RingInv'
<1>1. StoredInv'
  BY DEF RingInv, StoredInv
<1>2. DurableInv'
  BY DEF RingInv, StoredInv, DurableInv, Covered, Pending, At
<1>3. GenuineInv'
  BY RequestStored DEF RingInv, StoredInv, GenuineInv, WindowStored, At
<1> QED BY <1>1, <1>2, <1>3 DEF RingInv

LEMMA RingForward == OrderInv /\ RingInv /\ Forward => RingInv'
<1> SUFFICES ASSUME OrderInv, RingInv, Forward PROVE RingInv'
  OBVIOUS
<1>0. /\ wIndex \in Nat /\ rIndex \in Nat /\ num \in Nat /\ sent \in Nat
      /\ nvW \in Nat /\ nvR \in Nat /\ TypeOK
  BY DEF OrderInv, TypeInv, TypeOK
<1>1. CASE PostBegin
  <2>1. /\ UNCHANGED <<nvMark, nvW, nvR, flash, stored, received, wiped, mishaps, rIndex>>
        /\ pc = "post" /\ pc' = "send" /\ sent' = 0 /\ 0 < num'
    BY <1>0, <1>1, RoundSizeType DEF PostBegin, ram, nv, hist
  <2>5. Batch # 0 => num' <= Batch
    BY <1>0, <1>1, LoggerAssumption DEF PostBegin, RoundSize, Lesser, MAXMETER
  <2>2. StoredInv'
    BY <2>1, <2>5 DEF RingInv, StoredInv
  <2>3. DurableInv'
    BY <1>0, <2>1 DEF RingInv, StoredInv, DurableInv, Covered, Pending, At
  <2>4. GenuineInv'
    BY <2>1 DEF RingInv, GenuineInv, WindowStored, At
  <2> QED BY <2>2, <2>3, <2>4 DEF RingInv
<1>2. CASE PostSkip
  BY <1>2, RingPlain DEF PostSkip, nv, hist, RingInv, StoredInv
<1>3. CASE Accept
  <2>1. /\ UNCHANGED <<nvMark, nvW, nvR, flash, stored, wiped, mishaps, samples>>
        /\ received' = received \union Request /\ pc = "send" /\ nvMark /\ nvR = rIndex
    BY <1>3 DEF Accept, nv, RingInv, StoredInv, OrderInv, IndexInv, Quiet, Steps, SetSteps
  <2>2. \/ pc' = "setR" /\ rIndex' = rIndex + SentAfter
        \/ /\ pc' = "send" /\ sent' = SentAfter /\ SentAfter # num
           /\ UNCHANGED <<rIndex, num>>
    BY <1>3, <2>1 DEF Accept
  <2>3. StoredInv'
    <3>1. ASSUME pc' = "send" PROVE sent' < num' /\ Batch = 0
      BY <1>0, <2>1, <2>2, <3>1 DEF SentAfter, RingInv, StoredInv
    <3> QED BY <2>1, <2>2, <3>1 DEF RingInv, StoredInv
  <2>4. DurableInv'
    <3> SUFFICES ASSUME mishaps \subseteq {"setR"} PROVE DurableInv'
      BY <2>1 DEF DurableInv
    <3>1. Covered'
      BY <2>1 DEF RingInv, DurableInv, Covered, Pending, At
    <3>2. \A i \in rIndex .. rIndex + SentAfter - 1 : At(i)' \in received'
      BY <2>1, RequestTaken DEF At
    <3>3. \A i \in rIndex .. rIndex + SentAfter - 1 : flash'[Slot(i)] \in received'
      BY <3>2 DEF At
    <3>4. ASSUME pc' = "setR", NEW i \in nvR' .. rIndex' - 1 PROVE At(i)' \in received'
      <4>1. nvR' = rIndex /\ rIndex' = rIndex + SentAfter /\ SentAfter \in Nat
        BY <1>0, <2>1, <2>2, <3>4 DEF SentAfter
      <4>2. i \in rIndex .. rIndex + SentAfter - 1
        BY <1>0, <4>1
      <4> QED BY <3>3, <4>2 DEF At
    <3>5. pc' = "send" => \A i \in rIndex' .. rIndex' + sent' - 1 : At(i)' \in received'
      BY <2>2, <3>3 DEF At
    <3> QED BY <2>1, <2>2, <3>1, <3>4, <3>5 DEF DurableInv
  <2>5. GenuineInv'
    BY <2>1, <2>2, RequestStored DEF RingInv, GenuineInv, WindowStored, At
  <2> QED BY <2>3, <2>4, <2>5 DEF RingInv
<1>4. CASE Refuse
  BY <1>4, RingTaken DEF Refuse, nv
<1>5. CASE SaveR
  <2>1. /\ UNCHANGED <<nvMark, nvW, flash, stored, received, wiped, mishaps>>
        /\ pc = "setR" /\ pc' = "check" /\ nvMark /\ nvR' = rIndex
    BY <1>5 DEF SaveR, hist, RingInv, StoredInv
  <2>2. StoredInv'
    BY <2>1 DEF RingInv, StoredInv
  <2>3. ASSUME mishaps \subseteq {"setR"} PROVE nvR <= rIndex
    <3>1. mishaps \intersect HalfSteps = {}
      BY <2>3 DEF HalfSteps
    <3> QED BY <2>1, <3>1 DEF OrderInv, IndexInv
  <2>4. DurableInv'
    <3> SUFFICES ASSUME mishaps \subseteq {"setR"} PROVE Covered'
      BY <2>1 DEF DurableInv
    <3>1. \A i \in nvR .. rIndex - 1 : At(i) \in received
      BY <2>1 DEF RingInv, DurableInv
    <3>2. \A i \in nvR .. nvW - 1 : i \in (nvR .. rIndex - 1) \union (rIndex .. nvW - 1)
      BY <1>0
    <3>3. Pending \subseteq received \union Pending'
      BY <2>1, <3>1, <3>2 DEF Pending, At
    <3> QED BY <2>1, <3>3 DEF RingInv, DurableInv, Covered
  <2>5. GenuineInv'
    <3> SUFFICES ASSUME mishaps = {} PROVE GenuineInv'
      BY <2>1 DEF GenuineInv
    <3>1. rIndex .. nvW - 1 \subseteq nvR .. nvW - 1
      BY <1>0, <2>3
    <3> QED BY <2>1, <3>1 DEF RingInv, GenuineInv, WindowStored, At
  <2> QED BY <2>2, <2>4, <2>5 DEF RingInv
<1> QED BY <1>1, <1>2, <1>3, <1>4, <1>5 DEF Forward

LEMMA RingCheck == OrderInv /\ RingInv /\ Check => RingInv'
<1> SUFFICES ASSUME OrderInv, RingInv, Check PROVE RingInv'
  OBVIOUS
<1>1. CASE CheckNothing \/ Restart \/ ResetCommand
  BY <1>1, RingPlain
  DEF CheckNothing, Restart, ResetCommand, Reboot, nv, hist, RingInv, StoredInv
<1>2. CASE ResetSaveW
  <2>1. /\ UNCHANGED <<nvMark, nvR, stored, received, mishaps>> /\ nvMark
        /\ pc = "resetW" /\ pc' = "resetR" /\ wiped' = wiped \union (stored \ received)
        /\ nvW' = 0 /\ nvR \in Nat
    BY <1>2 DEF ResetSaveW, RingInv, StoredInv, OrderInv, TypeInv, TypeOK, IndexInv
  <2>2. StoredInv'
    BY <2>1 DEF RingInv, StoredInv
  <2>3. DurableInv'
    BY <2>1 DEF RingInv, DurableInv, Covered
  <2>4. GenuineInv'
    BY <2>1 DEF RingInv, GenuineInv, WindowStored
  <2> QED BY <2>2, <2>3, <2>4 DEF RingInv
<1>3. CASE ResetSaveR
  <2>1. /\ UNCHANGED <<nvMark, nvW, stored, received, wiped, mishaps>> /\ nvMark
        /\ pc = "resetR" /\ pc' = "boot" /\ nvW = 0 /\ nvR' = 0
    BY <1>3 DEF ResetSaveR, Reboot, hist, RingInv, StoredInv, OrderInv, IndexInv
  <2>2. StoredInv'
    BY <2>1 DEF RingInv, StoredInv
  <2>3. DurableInv'
    BY <2>1 DEF RingInv, DurableInv, Covered
  <2>4. GenuineInv'
    BY <2>1 DEF RingInv, GenuineInv, WindowStored
  <2> QED BY <2>2, <2>3, <2>4 DEF RingInv
<1> QED BY <1>1, <1>2, <1>3 DEF Check

-----------------------------------------------------------------------------
(* Resets *)

\* A reset in a save step is a mishap unless the value left is harmless.
LEMMA RingResetW ==
  ASSUME OrderInv, RingInv, pc \in SavesW, NEW v \in Interrupted(nvW, wIndex),
         nvW' = v, pc' = "boot",
         mishaps' = IF Harmless(pc, nvW, v, wIndex) THEN mishaps ELSE mishaps \union {pc},
         stored' = IF pc = "setW" /\ v = wIndex
                   THEN stored \union {At(i) : i \in (wIndex - NumRec) .. (wIndex - 1)}
                   ELSE stored,
         UNCHANGED <<nvMark, nvR, flash, received, wiped>>
  PROVE  RingInv'
<1>0. nvMark /\ nvW \in Nat /\ nvR \in Nat /\ wIndex \in Nat
  BY DEF RingInv, StoredInv, OrderInv, TypeInv, TypeOK, SavesW
<1>1. CASE pc = "setW" /\ v = wIndex
  <2>1. mishaps' = mishaps
    BY <1>1 DEF Harmless
  <2> QED BY <1>1, <2>1, RingSaved
<1>2. CASE v = nvW /\ pc \in {"setW", "resetW"}
  <2>1. UNCHANGED <<nvW, mishaps>> /\ ((pc = "setW" /\ v = wIndex) \/ stored' = stored)
    BY <1>2 DEF Harmless
  <2> QED BY <1>1, <1>2, <2>1, RingPlain
<1>3. CASE pc = "skipW" /\ v = wIndex
  <2>1. UNCHANGED <<stored, mishaps>> /\ nvR' = nvW'
    BY <1>3 DEF Harmless, OrderInv, IndexInv
  <2>2. StoredInv'
    BY <2>1 DEF RingInv, StoredInv
  <2>3. DurableInv'
    BY <1>0, <1>3, <2>1 DEF RingInv, DurableInv, Covered
  <2>4. GenuineInv'
    BY <1>0, <1>3, <2>1 DEF RingInv, GenuineInv, WindowStored
  <2> QED BY <2>2, <2>3, <2>4 DEF RingInv
<1>4. CASE ~Harmless(pc, nvW, v, wIndex)
  <2>1. mishaps' = mishaps \union {pc} /\ pc # "setR" /\ pc \in mishaps'
    BY <1>4 DEF SavesW
  <2>2. stored' = stored
    BY <1>4 DEF Harmless
  <2>3. StoredInv'
    BY <2>2 DEF RingInv, StoredInv
  <2>4. DurableInv' /\ GenuineInv'
    BY <2>1 DEF DurableInv, GenuineInv
  <2> QED BY <2>3, <2>4 DEF RingInv
<1> QED BY <1>1, <1>2, <1>3, <1>4 DEF Harmless, SavesW

LEMMA RingResetR ==
  ASSUME OrderInv, RingInv, pc \in SavesR, NEW v \in Interrupted(nvR, rIndex),
         nvR' = v, pc' = "boot",
         mishaps' = IF Harmless(pc, nvR, v, rIndex) THEN mishaps ELSE mishaps \union {pc},
         UNCHANGED <<nvMark, nvW, stored, flash, received, wiped>>
  PROVE  RingInv'
<1>0. nvMark /\ nvW \in Nat /\ nvR \in Nat /\ rIndex \in Nat
  BY DEF RingInv, StoredInv, OrderInv, TypeInv, TypeOK, SavesR
<1>a. StoredInv'
  BY DEF RingInv, StoredInv
<1>1. CASE pc = "setR"
  <2>1. ASSUME mishaps' \subseteq {"setR"} PROVE mishaps \subseteq {"setR"} /\ v \in Nat /\ v <= rIndex
    <3>1. mishaps \subseteq {"setR"}
      BY <2>1
    <3>2. mishaps \intersect HalfSteps = {}
      BY <3>1 DEF HalfSteps
    <3>3. nvR <= rIndex
      BY <1>1, <3>2 DEF OrderInv, IndexInv
    <3> QED BY <1>0, <3>1, <3>3, InterruptedNat
  <2>2. DurableInv'
    <3> SUFFICES ASSUME mishaps' \subseteq {"setR"} PROVE Covered'
      BY <1>0 DEF DurableInv
    <3>1. \A i \in nvR .. rIndex - 1 : At(i) \in received
      BY <1>1, <2>1 DEF RingInv, DurableInv
    <3>2. \A i \in nvR .. nvW - 1 : i \in (nvR .. rIndex - 1) \union (v .. nvW - 1)
      BY <1>0, <2>1
    <3>3. Pending \subseteq received \union Pending'
      BY <3>1, <3>2 DEF Pending, At
    <3> QED BY <2>1, <3>3 DEF RingInv, DurableInv, Covered
  <2>3. GenuineInv'
    <3> SUFFICES ASSUME mishaps' = {} PROVE GenuineInv'
      BY DEF GenuineInv
    <3>1. Harmless(pc, nvR, v, rIndex)
      OBVIOUS
    <3>2. v \in {nvR, rIndex} /\ mishaps = {}
      BY <1>1, <3>1 DEF Harmless
    <3>3. nvR <= rIndex
      BY <1>1, <3>2 DEF OrderInv, IndexInv
    <3>4. v .. nvW - 1 \subseteq nvR .. nvW - 1
      BY <1>0, <3>2, <3>3
    <3> QED BY <1>0, <1>1, <3>2, <3>4 DEF RingInv, GenuineInv, WindowStored, At
  <2> QED BY <1>a, <2>2, <2>3 DEF RingInv
<1>2. CASE pc = "skipR" /\ v = nvR
  <2>1. UNCHANGED <<nvR, mishaps>>
    BY <1>2 DEF Harmless
  <2> QED BY <1>2, <2>1, RingPlain
<1>3. CASE pc \in {"resetR", "initR"} /\ v = rIndex
  <2>1. UNCHANGED mishaps /\ nvR' = 0 /\ nvW' = 0
    BY <1>3 DEF Harmless, OrderInv, IndexInv
  <2>3. DurableInv'
    BY <1>0, <1>3, <2>1 DEF RingInv, DurableInv, Covered
  <2>4. GenuineInv'
    BY <1>0, <1>3, <2>1 DEF RingInv, GenuineInv, WindowStored
  <2> QED BY <1>a, <2>3, <2>4 DEF RingInv
<1>4. CASE pc # "setR" /\ ~Harmless(pc, nvR, v, rIndex)
  <2>1. mishaps' = mishaps \union {pc} /\ pc # "setR" /\ pc \in mishaps'
    BY <1>4
  <2>2. DurableInv' /\ GenuineInv'
    BY <2>1 DEF DurableInv, GenuineInv
  <2> QED BY <1>a, <2>2 DEF RingInv
<1> QED BY <1>1, <1>2, <1>3, <1>4 DEF Harmless, SavesR

LEMMA RingReset == OrderInv /\ RingInv /\ Reset => RingInv'
<1> SUFFICES ASSUME OrderInv, RingInv, Reset PROVE RingInv'
  OBVIOUS
<1>0. pc' = "boot" /\ UNCHANGED <<nvMark, wiped>>
  BY DEF Reset, Reboot
<1>1. CASE ResetInSave /\ UNCHANGED <<flash, received>>
  <2>1. CASE pc \in SavesW
    BY <1>0, <1>1, <2>1, RingResetW DEF ResetInSave, SavesW, SavesR
  <2>2. CASE pc \in SavesR
    BY <1>0, <1>1, <2>2, RingResetR DEF ResetInSave, SavesW, SavesR
  <2> QED BY <1>1, <2>1, <2>2 DEF ResetInSave
<1>2. CASE ResetInErase /\ UNCHANGED <<nvW, nvR, stored, received>>
  <2>1. mishaps' \subseteq {"setR"} => WindowKept
    <3>1. CASE UNCHANGED flash
      BY <3>1 DEF WindowKept, At
    <3>2. CASE ~Overruns
      BY <1>2, <3>1, <3>2, EraseKeeps DEF ResetInErase
    <3>3. CASE Overruns /\ mishaps' = mishaps \union {"overrun"}
      BY <3>3
    <3> QED BY <1>2, <3>1, <3>2, <3>3 DEF ResetInErase
  <2>2. mishaps \subseteq mishaps' /\ pc = "erase"
    BY <1>2 DEF ResetInErase
  <2> QED BY <1>0, <1>2, <2>1, <2>2, RingFlash
<1>3. CASE ResetInWrite /\ UNCHANGED <<nvW, nvR, stored, received, mishaps>>
  BY <1>0, <1>3, ProgramKeeps, RingFlash DEF ResetInWrite
<1>4. CASE /\ pc = "send"
           /\ received' \in {received, received \union Request}
           /\ UNCHANGED <<nvW, nvR, flash, stored, mishaps>>
  BY <1>0, <1>4, RingTaken
<1>5. CASE /\ pc \in Steps \ (SetSteps \union {"erase", "write", "send"})
           /\ UNCHANGED <<nvW, nvR, flash, stored, received, mishaps>>
  BY <1>0, <1>5, RingPlain DEF SetSteps
<1> QED BY <1>1, <1>2, <1>3, <1>4, <1>5 DEF Reset

LEMMA RingInvariant == Spec => [](OrderInv /\ RingInv)
<1>1. OrderInv /\ RingInv /\ [Next]_vars => RingInv'
  <2> SUFFICES ASSUME OrderInv, RingInv, [Next]_vars PROVE RingInv'
    OBVIOUS
  <2>1. CASE Boot
    BY <2>1, RingBoot
  <2>2. CASE Store
    BY <2>2, RingStore
  <2>3. CASE Forward
    BY <2>3, RingForward
  <2>4. CASE Check
    BY <2>4, RingCheck
  <2>5. CASE LoopTop \/ NotDue \/ ReadFails
    BY <2>5, RingRead
  <2>6. CASE ReadOk
    BY <2>6, RingReadOk
  <2>7. CASE Reset
    BY <2>7, RingReset
  <2>8. CASE UNCHANGED vars
    BY <2>8 DEF vars, ram, round, nv, hist, RingInv, StoredInv, DurableInv, Covered,
                Pending, GenuineInv, WindowStored, At
  <2> QED BY <2>1, <2>2, <2>3, <2>4, <2>5, <2>6, <2>7, <2>8 DEF Next, Loop
<1> QED
  BY <1>1, RingInit, OrderInvariant, PTL DEF Spec

\* The four indices stand at every step of the save sequences as IndexInv says,
\* for every ring, batch size and byte layout of the clock chip's NVRAM.
THEOREM SavesInStep == Spec => []IndexInv
<1>1. OrderInv => IndexInv
  BY DEF OrderInv
<1> QED BY <1>1, OrderInvariant, PTL

\* A record whose index meterToFlash saved is with the server, inside the saved
\* window, or wiped by command: failed erases and writes, refused posts and
\* resets at every step but the paired index saves lose nothing.
THEOREM StoredStays == Spec => []Durable
<1>1. RingInv => Durable
  BY DEF RingInv, DurableInv, Covered, Durable
<1> QED BY <1>1, RingInvariant, PTL

\* flashMeterToPost and flashMeterToBatchPost send stored records only.
THEOREM PostsStored == Spec => []PostedGenuine
<1>1. RingInv => PostedGenuine
  BY DEF RingInv, GenuineInv, PostedGenuine
<1> QED BY <1>1, RingInvariant, PTL

-----------------------------------------------------------------------------
(* Every batch meets blank flash *)

LEMMA DivModUnique ==
  ASSUME NEW b \in Nat \ {0}, NEW q \in Nat, NEW t \in 0 .. b - 1
  PROVE  (b * q + t) \div b = q /\ (b * q + t) % b = t
<1>1. b * q \in Nat /\ b * q + t \in Nat
  OBVIOUS
<1>2. PICK p \in Nat, u \in 0 .. b - 1 :
        p = (b * q + t) \div b /\ u = (b * q + t) % b /\ b * q + t = b * p + u
  BY <1>1, DivModParts, Zenon
<1>3. b * p \in Int
  OBVIOUS
<1>4. p = q
  <2>1. CASE p < q
    BY <1>1, <1>2, <1>3, <2>1, MultiplesApart
  <2>2. CASE q < p
    BY <1>1, <1>2, <1>3, <2>2, MultiplesApart
  <2> QED BY <2>1, <2>2
<1>5. u = t
  BY <1>1, <1>2, <1>4
<1> QED BY <1>2, <1>4, <1>5

LEMMA SectorStart ==
  ASSUME NEW j \in Nat
  PROVE  j % SectorRecs = 0 <=> \E q \in Nat : j = SectorRecs * q
<1>1. SectorRecs \in Nat \ {0} /\ 0 \in 0 .. SectorRecs - 1
  BY RingAssumption
<1>2. PICK p \in Nat, u \in 0 .. SectorRecs - 1 :
        p = j \div SectorRecs /\ u = j % SectorRecs /\ j = SectorRecs * p + u
  BY <1>1, DivModParts, Zenon
<1>3. ASSUME j % SectorRecs = 0 PROVE \E q \in Nat : j = SectorRecs * q
  <2>1. SectorRecs * p \in Nat
    BY <1>1
  <2>2. j = SectorRecs * p
    BY <1>2, <1>3, <2>1
  <2> QED BY <2>2
<1>4. ASSUME NEW q \in Nat, j = SectorRecs * q PROVE j % SectorRecs = 0
  <2>1. SectorRecs * q + 0 = SectorRecs * q
    BY <1>1
  <2>2. (SectorRecs * q + 0) % SectorRecs = 0
    BY <1>1, DivModUnique
  <2> QED BY <1>4, <2>1, <2>2
<1> QED BY <1>3, <1>4

LEMMA NextStart ==
  ASSUME NEW j \in Nat, j % SectorRecs = 0 PROVE (j + SectorRecs) % SectorRecs = 0
<1>1. SectorRecs \in Nat \ {0}
  BY RingAssumption
<1>2. PICK q \in Nat : j = SectorRecs * q
  BY SectorStart
<1>3. j + SectorRecs = SectorRecs * (q + 1) /\ j + SectorRecs \in Nat
  BY <1>1, <1>2
<1> QED BY <1>3, SectorStart

\* A sector starts at one of any SectorRecs indices in a row.
LEMMA StartWithin ==
  ASSUME NEW w \in Nat PROVE \E j \in w .. w + SectorRecs - 1 : j % SectorRecs = 0
<1>1. SectorRecs \in Nat \ {0}
  BY RingAssumption
<1>2. PICK p \in Nat, u \in 0 .. SectorRecs - 1 :
        p = w \div SectorRecs /\ u = w % SectorRecs /\ w = SectorRecs * p + u
  BY <1>1, DivModParts, Zenon
<1>3. CASE u = 0
  BY <1>1, <1>2, <1>3
<1>4. CASE u # 0
  <2>1. SectorRecs * p \in Nat /\ SectorRecs * (p + 1) = SectorRecs * p + SectorRecs
    BY <1>1
  <2>2. SectorRecs * (p + 1) \in w .. w + SectorRecs - 1
    BY <1>1, <1>2, <1>4, <2>1
  <2>3. SectorRecs * (p + 1) \in Nat
    BY <1>1, <2>1
  <2>4. (SectorRecs * (p + 1)) % SectorRecs = 0
    BY <2>3, SectorStart
  <2> QED BY <2>2, <2>4
<1> QED BY <1>3, <1>4

\* The indices from the start of a sector to its end share the sector's slots.
LEMMA SameSector ==
  ASSUME NEW j \in Nat, j % SectorRecs = 0, NEW i \in j .. j + SectorRecs - 1
  PROVE  Slot(i) \in SectorSlots(Slot(j))
<1>1. /\ SectorRecs \in Nat \ {0} /\ Sectors \in Nat \ {0} /\ MaxRecord \in Nat \ {0}
      /\ MaxRecord = SectorRecs * Sectors /\ SectorRecs <= MaxRecord
  BY RingAssumption, RingSize, BatchBounds DEF MaxRecord
<1>2. Slot(j) \in 0 .. MaxRecord - 1 /\ Slot(i) \in Slots
  BY SlotInRing, RingSize
<1>3. PICK d \in Int : Slot(j) = SectorRecs * d
  BY SlotAligned
<1>4. SectorRecs * d \in Int /\ SectorRecs * (0 - 1) = 0 - SectorRecs /\ SectorRecs * 0 = 0
  BY <1>1
<1>5. d \in Nat
  <2>1. CASE d < 0
    BY <1>1, <1>2, <1>3, <1>4, <2>1, MultiplesApart
  <2> QED BY <2>1
<1>6. d < Sectors
  <2>1. CASE d > Sectors
    BY <1>1, <1>2, <1>3, <1>4, <2>1, MultiplesApart
  <2>2. CASE d = Sectors
    BY <1>1, <1>2, <1>3, <2>2
  <2> QED BY <1>1, <2>1, <2>2
<1>7. SectorRecs * d + SectorRecs <= MaxRecord
  BY <1>1, <1>6, MultiplesApart
<1>8. i - j \in 0 .. SectorRecs - 1 /\ i - j \in 0 .. MaxRecord - 1 /\ i = j + (i - j)
  BY <1>1
<1>9. Slot(i) = SectorRecs * d + (i - j)
  <2>1. Slot(j + (i - j)) = IF Slot(j) + (i - j) < MaxRecord THEN Slot(j) + (i - j)
                            ELSE Slot(j) + (i - j) - MaxRecord
    BY <1>8, SlotAhead
  <2> QED BY <1>1, <1>2, <1>3, <1>4, <1>7, <1>8, <2>1
<1>10. Slot(i) \div SectorRecs = d
  BY <1>1, <1>5, <1>8, <1>9, DivModUnique
<1>11. Slot(j) \div SectorRecs = d
  <2>1. (SectorRecs * d + 0) \div SectorRecs = d /\ SectorRecs * d + 0 = SectorRecs * d
    BY <1>1, <1>4, <1>5, DivModUnique
  <2> QED BY <1>3, <2>1
<1> QED BY <1>2, <1>10, <1>11 DEF SectorSlots

\* The indices from w on that come before the first sector start after a batch
\* of n at w: what has to be blank for the batch and the rest of its sector.
Reach(w, n) == {i \in Nat : i >= w /\ \A j \in (w + n) .. i : j % SectorRecs # 0}

Clear(w, n) == \A i \in Reach(w, n) : At(i) = Erased

\* The inductive form of CleanWrites.
CleanInv ==
  faults = 0 /\ resets = 0 =>
    /\ fErrorCnt = 0
    /\ pc \notin {"skipR", "skipW"}
    /\ nvMark /\ pc \notin {"initW", "setW"} => Clear(nvW, 0)
    /\ pc # "boot" => Clear(wIndex, 0)
    /\ pc = "write" => Clear(wIndex, NumRec)

LEMMA ClearAtZero == Clear(0, 0)
<1>1. 0 % SectorRecs = 0
  BY RingAssumption
<1>2. Reach(0, 0) = {}
  BY <1>1 DEF Reach
<1> QED BY <1>2 DEF Clear

LEMMA ReachBound ==
  ASSUME NEW w \in Nat, NEW n \in Nat, NEW i \in Reach(w, n) PROVE i < w + n + SectorRecs
<1>1. PICK j \in (w + n) .. (w + n) + SectorRecs - 1 : j % SectorRecs = 0
  BY StartWithin
<1>2. i \in Nat /\ ~(j \in (w + n) .. i) /\ SectorRecs \in Nat
  BY <1>1, RingAssumption DEF Reach
<1> QED BY <1>1, <1>2

\* Erasing the sectors a batch enters clears what the batch reaches.
LEMMA EraseClears ==
  ASSUME NEW w \in Nat, Clear(w, 0), flash' = Blanked(flash, ErasedBy(w, NumRec))
  PROVE  Clear(w, NumRec)'
<1>0. NumRec \in Nat \ {0} /\ SectorRecs \in Nat \ {0} /\ NumRec <= SectorRecs
  BY BatchBounds
<1> SUFFICES ASSUME NEW i \in Reach(w, NumRec) PROVE flash'[Slot(i)] = Erased
  BY DEF Clear, At, Reach
<1>1. i \in Nat /\ i >= w /\ Slot(i) \in Slots
      /\ \A j \in (w + NumRec) .. i : j % SectorRecs # 0
  BY SlotInRing DEF Reach
<1>2. CASE \A j \in w .. i : j % SectorRecs # 0
  <2>1. i \in Reach(w, 0)
    BY <1>1, <1>2 DEF Reach
  <2>2. flash[Slot(i)] = Erased
    BY <2>1 DEF Clear, At
  <2> QED BY <1>1, <2>2 DEF Blanked
<1>3. CASE \E j \in w .. i : j % SectorRecs = 0
  <2>1. PICK j \in w .. i : j % SectorRecs = 0
    BY <1>3
  <2>2. j \in Nat /\ j < w + NumRec
    BY <1>0, <1>1, <2>1
  <2>3. i < j + SectorRecs
    <3>1. (j + SectorRecs) % SectorRecs = 0
      BY <2>1, <2>2, NextStart
    <3>2. CASE i >= j + SectorRecs
      <4>1. j + SectorRecs \in (w + NumRec) .. i
        BY <1>0, <1>1, <2>1, <2>2, <3>2
      <4> QED BY <1>1, <3>1, <4>1
    <3> QED BY <1>0, <1>1, <2>2, <3>2
  <2>4. Slot(i) \in SectorSlots(Slot(j))
    BY <1>0, <1>1, <2>1, <2>2, <2>3, SameSector
  <2>5. j \in Entered(w, NumRec)
    BY <1>0, <2>1, <2>2 DEF Entered
  <2>6. Slot(i) \in ErasedBy(w, NumRec)
    BY <2>4, <2>5 DEF ErasedBy
  <2> QED BY <1>1, <2>6 DEF Blanked
<1> QED BY <1>2, <1>3

\* A batch that finds its reach clear is accepted.
LEMMA ClearAccepts ==
  ASSUME NEW w \in Nat, Clear(w, NumRec) PROVE Accepted(flash, w, NumRec)
<1>0. NumRec \in Nat \ {0} /\ NumRec \in 0 .. MaxRecord
  BY BatchBounds
<1>1. ASSUME NEW s \in HeadPart(w, NumRec) \union TailPart(w, NumRec) PROVE flash[s] = Erased
  <2>1. PICK k \in 0 .. NumRec - 1 : s = Slot(w + k)
    BY <1>0, SlotOfPart
  <2>2. w + k \in Reach(w, NumRec)
    BY <1>0 DEF Reach
  <2> QED BY <2>1, <2>2 DEF Clear, At
<1> QED BY <1>1 DEF Accepted, Blank

\* The rest of the sector a batch ends in is still blank after the batch: with
\* two sectors or more the batch does not come round to it.
LEMMA ProgramClears ==
  ASSUME Sectors > 1, NEW w \in Nat, Clear(w, NumRec), NEW c,
         flash' = Programmed(flash, w, NumRec, c)
  PROVE  Clear(w + NumRec, 0)'
<1>0. /\ NumRec \in Nat \ {0} /\ SectorRecs \in Nat \ {0} /\ NumRec <= SectorRecs
      /\ MaxRecord \in Nat
  BY BatchBounds
<1>1. SectorRecs + SectorRecs <= MaxRecord
  <2>1. SectorRecs * Sectors = SectorRecs + SectorRecs + SectorRecs * (Sectors - 2)
        /\ SectorRecs * (Sectors - 2) \in Nat
    BY RingAssumption
  <2> QED BY <1>0, <2>1 DEF MaxRecord
<1> SUFFICES ASSUME NEW i \in Reach(w + NumRec, 0) PROVE flash'[Slot(i)] = Erased
  BY DEF Clear, At, Reach
<1>2. i \in Nat /\ i >= w + NumRec /\ i < w + NumRec + SectorRecs
  BY <1>0, ReachBound DEF Reach
<1>3. i \in Reach(w, NumRec)
  BY <1>0 DEF Reach
<1>4. i - w \in 0 .. MaxRecord - 1 /\ i = w + (i - w) /\ i - w >= NumRec
  BY <1>0, <1>1, <1>2
<1>5. Slot(w + (i - w)) \in Slots /\ Offset(w, Slot(w + (i - w))) = i - w
  BY <1>4, OffsetOfSlot
<1>6. Slot(i) \in Slots /\ Offset(w, Slot(i)) = i - w
  BY <1>4, <1>5
<1>7. Slot(i) \notin Programmable(flash, w, NumRec)
  BY <1>0, <1>2, <1>4, <1>6 DEF Programmable, HeadPart, TailPart
<1>8. flash[Slot(i)] = Erased
  BY <1>3 DEF Clear, At
<1> QED BY <1>6, <1>7, <1>8 DEF Programmed

\* A step that programs nothing, and moves the write index to a place that is clear.
LEMMA CleanPlain ==
  ASSUME CleanInv, UNCHANGED <<nvMark, flash, faults, resets>>,
         fErrorCnt' \in {fErrorCnt, 0},
         pc' \notin {"write", "skipR", "skipW"},
         pc' # "boot" => (wIndex' \in {wIndex, 0} /\ pc # "boot") \/ wIndex' = 0,
         \/ nvW' = nvW /\ pc \notin {"initW", "setW"}
         \/ nvW' = 0
         \/ nvW' = wIndex /\ pc # "boot"
  PROVE  CleanInv'
<1> SUFFICES ASSUME faults = 0, resets = 0 PROVE CleanInv'
  BY DEF CleanInv
<1>1. \A w : Clear(w, 0)' <=> Clear(w, 0)
  BY DEF Clear, At, Reach
<1>2. nvMark /\ pc \notin {"initW", "setW"} => Clear(nvW, 0)
  BY DEF CleanInv
<1>3. pc # "boot" => Clear(wIndex, 0)
  BY DEF CleanInv
<1>4. fErrorCnt' = 0
  BY DEF CleanInv
<1>5. nvMark => Clear(nvW', 0)
  BY <1>2, <1>3, ClearAtZero
<1>6. pc' # "boot" => Clear(wIndex', 0)
  BY <1>3, ClearAtZero
<1> QED BY <1>1, <1>4, <1>5, <1>6 DEF CleanInv, Clear, Reach, At

LEMMA CleanStore ==
  ASSUME Sectors > 1, OrderInv, CleanInv, Store PROVE CleanInv'
<1> SUFFICES ASSUME faults' = 0, resets' = 0 PROVE CleanInv'
  BY DEF CleanInv
<1>0. wIndex \in Nat /\ faults \in Nat /\ TypeInv
  BY LoggerAssumption DEF OrderInv, TypeInv, TypeOK
<1>a. ~Fault
  BY <1>0 DEF Fault
<1>b. UNCHANGED <<faults, resets, nvMark>>
  BY <1>a DEF Store, EraseEntered, WriteOk, SaveW, DropReading, SkipSector,
              SkipSaveR, SkipSaveW, WriteFails, nv
<1>c. /\ fErrorCnt = 0 /\ pc \notin {"skipR", "skipW"}
      /\ nvMark /\ pc \notin {"initW", "setW"} => Clear(nvW, 0)
      /\ pc # "boot" => Clear(wIndex, 0)
      /\ pc = "write" => Clear(wIndex, NumRec)
  BY <1>b DEF CleanInv
<1>1. CASE EraseEntered
  <2>1. /\ flash' = Blanked(flash, ErasedBy(wIndex, NumRec))
        /\ pc = "erase" /\ pc' = "write" /\ UNCHANGED <<wIndex, fErrorCnt, nvW>>
        /\ nvW = wIndex
    BY <1>1, <1>a DEF EraseEntered, ram, nv, OrderInv, IndexInv, Quiet, Steps, SetSteps
  <2>2. \A s \in Slots : flash[s] = Erased => flash'[s] = Erased
    BY <2>1 DEF Blanked
  <2>3. Clear(wIndex, 0)'
    <3>1. \A i \in Reach(wIndex, 0) : Slot(i) \in Slots
      BY SlotInRing DEF Reach
    <3>2. \A i \in Reach(wIndex, 0) : flash'[Slot(i)] = Erased
      BY <1>c, <2>1, <2>2, <3>1 DEF Clear, At
    <3> QED BY <2>1, <3>2 DEF Clear, Reach, At
  <2>4. Clear(wIndex, NumRec)'
    <3>1. PICK w \in Nat : w = wIndex
      BY <1>0
    <3>2. Clear(w, NumRec)'
      BY <1>c, <2>1, <3>1, EraseClears
    <3> QED BY <2>1, <3>1, <3>2
  <2>5. Clear(nvW, 0)'
    BY <2>1, <2>3
  <2> QED BY <1>b, <1>c, <2>1, <2>3, <2>4, <2>5 DEF CleanInv
<1>2. CASE WriteOk
  <2>1. /\ flash' = Programmed(flash, wIndex, NumRec, Reading) /\ wIndex' = wIndex + NumRec
        /\ pc = "write" /\ pc' = "setW" /\ fErrorCnt' = 0
    BY <1>2 DEF WriteOk
  <2>2. Clear(wIndex, 0)'
    <3>1. PICK w \in Nat : w = wIndex
      BY <1>0
    <3>2. Clear(w + NumRec, 0)'
      BY <1>c, <2>1, <3>1, ProgramClears
    <3>3. w + NumRec = wIndex'
      BY <2>1, <3>1
    <3> QED BY <3>2, <3>3
  <2> QED BY <2>1, <2>2 DEF CleanInv
<1>3. CASE SaveW
  BY <1>3, <1>b, CleanPlain DEF SaveW, ram
<1>4. CASE DropReading \/ SkipSector
  <2>1. pc = "write" /\ WriteFails
    BY <1>4 DEF DropReading, SkipSector
  <2>2. Accepted(flash, wIndex, NumRec)
    BY <1>0, <1>c, <2>1, ClearAccepts
  <2> QED BY <1>a, <2>1, <2>2 DEF WriteFails
<1>5. CASE SkipSaveR \/ SkipSaveW
  BY <1>5, <1>c DEF SkipSaveR, SkipSaveW
<1> QED BY <1>1, <1>2, <1>3, <1>4, <1>5 DEF Store

LEMMA CleanBoot == ASSUME OrderInv, CleanInv, Boot PROVE CleanInv'
<1> SUFFICES ASSUME faults' = 0, resets' = 0 PROVE CleanInv'
  BY DEF CleanInv
<1>0. faults \in Nat /\ (pc \in {"boot", "initW", "initR"} => wIndex = 0)
  BY DEF OrderInv, TypeInv, TypeOK, IndexInv
<1>1. CASE RestoreIndices
  BY <1>1 DEF RestoreIndices, nv, CleanInv, Clear, Reach, At
<1>2. CASE InitNvram
  BY <1>0, <1>2, ClearAtZero DEF InitNvram, Fault, ram, CleanInv, Clear, Reach, At
<1>3. CASE InitSaveW \/ InitSaveR
  BY <1>3, CleanPlain DEF InitSaveW, InitSaveR, ram
<1> QED BY <1>1, <1>2, <1>3 DEF Boot

LEMMA CleanRest ==
  ASSUME CleanInv, LoopTop \/ NotDue \/ ReadFails \/ ReadOk \/ Forward \/ Check
  PROVE  CleanInv'
<1>1. CASE LoopTop \/ NotDue \/ ReadFails \/ ReadOk
  BY <1>1, CleanPlain DEF LoopTop, NotDue, ReadFails, ReadOk, ram, nv
<1>2. CASE PostBegin \/ PostSkip \/ Accept \/ Refuse \/ SaveR
  BY <1>2, CleanPlain DEF PostBegin, PostSkip, Accept, Refuse, SaveR, ram, nv
<1>3. CASE CheckNothing \/ Restart \/ ResetCommand \/ ResetSaveW \/ ResetSaveR
  BY <1>3, CleanPlain
  DEF CheckNothing, Restart, ResetCommand, ResetSaveW, ResetSaveR, Reboot, ram, nv
<1> QED BY <1>1, <1>2, <1>3 DEF Forward, Check

\* As long as neither the flash nor the bus fails and no reset comes unplanned,
\* writeMeterData never has a batch refused: every slot it programs was erased
\* on entering its sector.  A ring of a single sector would not do: a batch that
\* wraps programs both ends of it, and the next one opens no sector and meets them.
THEOREM WritesClean == ASSUME Sectors > 1 PROVE Spec => []CleanWrites
<1>1. Init => CleanInv
  BY DEF Init, CleanInv
<1>2. OrderInv /\ CleanInv /\ [Next]_vars => CleanInv'
  <2> SUFFICES ASSUME OrderInv, CleanInv, [Next]_vars PROVE CleanInv'
    OBVIOUS
  <2>1. CASE Boot
    BY <2>1, CleanBoot
  <2>2. CASE Store
    BY <2>2, CleanStore
  <2>3. CASE LoopTop \/ NotDue \/ ReadFails \/ ReadOk \/ Forward \/ Check
    BY <2>3, CleanRest
  <2>4. CASE Reset
    <3>1. resets \in Nat /\ resets' = resets + 1
      BY <2>4 DEF Reset, OrderInv, TypeInv, TypeOK
    <3> QED BY <3>1 DEF CleanInv
  <2>5. CASE UNCHANGED vars
    BY <2>5 DEF vars, ram, nv, CleanInv, Clear, Reach, At
  <2> QED BY <2>1, <2>2, <2>3, <2>4, <2>5 DEF Next, Loop
<1>3. CleanInv => CleanWrites
  BY DEF CleanInv, CleanWrites
<1> QED BY <1>1, <1>2, <1>3, OrderInvariant, PTL DEF Spec

=============================================================================
