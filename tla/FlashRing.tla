----------------------------- MODULE FlashRing -----------------------------
(***************************************************************************)
(* The record ring that SPIFlashMeter lays over the NOR flash chip: an     *)
(* ever-growing record index is mapped to a slot, a sector is erased when  *)
(* a batch enters it, and a batch that runs past the last slot is written  *)
(* in two pieces.  The driver refuses a piece that is not blank.           *)
(*                                                                         *)
(* The module holds data only.  Logger gives it its steps.  One slot is    *)
(* one 64-byte record, SectorRecs is _sectorSize/_recordSize (64), and the *)
(* reserved first 8 KB are outside the ring.                               *)
(***************************************************************************)
EXTENDS Integers

CONSTANTS SectorRecs,   \* records per flash sector
          Sectors,      \* sectors of the ring
          Erased,       \* a blank slot: every byte 0xFF
          Torn          \* a slot with bytes that are no record

ASSUME RingAssumption ==
  /\ SectorRecs \in Nat \ {0}
  /\ Sectors \in Nat \ {0}
  /\ Erased # Torn

\* Capacity minus the reserved area is a whole number of sectors.
MaxRecord == SectorRecs * Sectors

Slots == 0 .. MaxRecord - 1

\* Where record index i is kept.
Slot(i) == i % MaxRecord

\* A fault the runs must notice: the sector after the right one is erased.
SectorSlotsAhead(s) ==
  {t \in Slots : t \div SectorRecs = ((s \div SectorRecs) + 1) % Sectors}

\* The slots of the sector that holds slot s.
SectorSlots(s) == {t \in Slots : t \div SectorRecs = s \div SectorRecs}

\* A fault the runs must notice: the records are counted from one.
EnteredFromOne(w, n) == {i \in (w + 1) .. (w + n) : i % SectorRecs = 0}

\* The record indices of a batch of n at index w that open a sector.
Entered(w, n) == {i \in w .. (w + n - 1) : i % SectorRecs = 0}

\* The slots erased before that batch is programmed.
ErasedBy(w, n) == UNION {SectorSlots(Slot(i)) : i \in Entered(w, n)}

\* The flash after every slot of S has become blank.
Blanked(f, S) == [s \in Slots |-> IF s \in S THEN Erased ELSE f[s]]

\* How far slot s lies behind the slot of index w, going round the ring.
Offset(w, s) == IF s >= Slot(w) THEN s - Slot(w) ELSE s + MaxRecord - Slot(w)

\* The piece of a batch of n at w that ends at the last slot, and the piece
\* that starts again at slot 0.
HeadPart(w, n) == {s \in Slots : s >= Slot(w) /\ Offset(w, s) < n}
TailPart(w, n) == {s \in Slots : s < Slot(w) /\ Offset(w, s) < n}

Blank(f, S) == \A s \in S : f[s] = Erased

\* The slots the driver agrees to program: it checks each piece on its own,
\* and writes the second piece whatever became of the first.
Programmable(f, w, n) ==
  {s \in HeadPart(w, n) : Blank(f, HeadPart(w, n))}
    \union {s \in TailPart(w, n) : Blank(f, TailPart(w, n))}

\* The write is accepted as a whole.
Accepted(f, w, n) == Blank(f, HeadPart(w, n)) /\ Blank(f, TailPart(w, n))

\* The flash after content c (a function of the position in the batch) has
\* been programmed where the driver agrees to.
Programmed(f, w, n, c) ==
  [s \in Slots |-> IF s \in Programmable(f, w, n) THEN c[Offset(w, s)] ELSE f[s]]

\* The first index of the sector after the one of index w.
NextSector(w) == ((w \div SectorRecs) + 1) * SectorRecs

=============================================================================
